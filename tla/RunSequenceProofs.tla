--------------------------- MODULE RunSequenceProofs ---------------------------
(***************************************************************************)
(* What the output rings hold when the waits of the provider are long      *)
(* enough: runs that follow one another, each with its frames between its  *)
(* begin and its end item.  The invariant follows a begin or end command   *)
(* from the shell through the state ring to the output, and a frame from   *)
(* the CoBo through the data ring, in every state of the GUI.              *)
(* The runs are complete: what a router was sent in a run lies before the  *)
(* end item of the run.  For this the invariant counts frames from the     *)
(* CoBo over the link and the data ring to the output, and knows that none *)
(* is on its way, nor will be sent, once an end item is.                   *)
(***************************************************************************)
EXTENDS RunDataFlowProofs, FiniteSetTheorems

\* All the sources of a run have the same ECC server.  (With several servers only that
\* of the elected source is told to start.)
OneServer == \A a, b \in Source : EccServer[a] = EccServer[b]

\* The waits are long enough, an error is answered by stopping all sources, and
\* one ECC server serves all of them.
Orderly == Prompt /\ Retry = FALSE /\ OneServer

-------------------------------------------------------------------------------
(* The invariant                                                               *)

\* The commands that were written and not executed yet.
Pending == {c \in Command : \E p \in Pipe : \E k \in 1 .. Len(shell[p]) : shell[p][k] = c}

\* No begin or end command waits twice.
Once ==
    \A p, q \in Pipe : \A j \in 1 .. Len(shell[p]), k \in 1 .. Len(shell[q]) :
        shell[p][j] = shell[q][k] /\ shell[p][j].op \in {"begin", "end"} => p = q /\ j = k

\* No source has been called since the operator ended the run.
BeforeStop == gui = "ending" /\ todo = Source
Sending == gui = "active" \/ BeforeStop

\* The commands that may wait in each state of the GUI.
Awaited(c) ==
    \/ gui = "halted" /\ (c.op = "configure" \/ (c.op = "end" /\ c.run = run))
    \/ gui = "beginning" /\ c.op = "begin" /\ c.run = run /\ c.source = asleep
    \/ gui = "active" /\ c.op = "start"
    \/ /\ BeforeStop /\ c.op = "stop" /\ asleep # NoSource
       /\ \A s \in Source : c.server = EccServer[s]
    \/ /\ gui = "ending" /\ todo # Source
       /\ c.op = "end" /\ c.run = run /\ c.source \notin todo

ShellInv ==
    /\ \A c \in Pending : Awaited(c)
    /\ \A p \in Pipe \ open : shell[p] = <<>>
    /\ Once

\* Mergers, routers and connections belong to sources that were started.
ProcessInv ==
    /\ mergers \subseteq routers /\ routers \subseteq active /\ linked \subseteq routers
    /\ gui = "failed" => mergers = {}
    /\ \A s \in Source \ routers : link[s] = <<>>

\* No CoBo that has a connection takes data.
NoneTaking == \A s \in linked : taking[EccServer[s]] = 0

\* No frame is on its way to an output ring.
NoFrames ==
    /\ \A s \in Source : link[s] = <<>>
    /\ \A s \in mergers : ring[s]["data"] = <<>>

TakingInv ==
    /\ gui # "failed" =>
          \A s \in linked : taking[EccServer[s]] # 0 =>
              taking[EccServer[s]] = run /\ ecc[EccServer[s]] = "running"
    /\ BeforeStop /\ asleep # NoSource => NoneTaking \/ \E c \in Pending : c.op = "stop"
    /\ ~Sending /\ gui # "failed" => NoneTaking /\ NoFrames

\* The frames on their way were taken in this run.
DataInv ==
    /\ gui # "failed" => \A s \in Source : \A k \in 1 .. Len(link[s]) : link[s][k] = run
    /\ \A s \in mergers : \A k \in 1 .. Len(ring[s]["data"]) :
          ring[s]["data"][k].kind = "event" /\ ring[s]["data"][k].run = run

\* The last state change among the items is the begin item of run r.
OpenIn(items, r) ==
    \E j \in 1 .. Len(items) :
        /\ items[j].kind = "begin" /\ items[j].run = r
        /\ \A m \in j + 1 .. Len(items) : items[m].kind = "event"

\* Run r is open in the output of s, or its begin item is lost.
Settled(s, r) == OpenIn(out[s], r) \/ Lost(s, "begin", r)

BeginWaits(s) == [op |-> "begin", source |-> s, run |-> run] \in Pending
EndWaits(s) == [op |-> "end", source |-> s, run |-> run] \in Pending

\* The items of the state ring of s: at most one begin item, behind at most one
\* end item, which closes the run that is open in the output.
BeginItem(s, k) ==
    /\ ring[s]["state"][k].kind = "begin" /\ ring[s]["state"][k].run = run
    /\ k = Len(ring[s]["state"])
    /\ gui = "beginning" /\ asleep = s /\ ~BeginWaits(s)

EndItem(s, k) ==
    /\ ring[s]["state"][k].kind = "end" /\ k = 1
    /\ Settled(s, ring[s]["state"][k].run)
    /\ \A j \in 1 .. Len(out[s]) : out[s][j].run <= ring[s]["state"][k].run
    /\ \/ gui = "beginning" /\ s \in todo /\ ring[s]["state"][k].run < run
       \/ gui = "ending" /\ s \notin todo /\ ring[s]["state"][k].run = run
       \/ gui = "halted" /\ ring[s]["state"][k].run = run
    /\ ~EndWaits(s)

\* s has begun its run, and has not inserted an end item for it.
HasBegun(s) ==
    \/ gui = "beginning" /\ s \notin todo
    \/ gui = "active"
    \/ gui = "ending" /\ s \in todo
    \/ EndWaits(s)

StateInv(s) ==
    /\ \A k \in 1 .. Len(ring[s]["state"]) : BeginItem(s, k) \/ EndItem(s, k)
    /\ HasBegun(s) => ring[s]["state"] = <<>> /\ Settled(s, run)
    /\ gui = "beginning" /\ asleep = s =>
          \/ BeginWaits(s) \/ Settled(s, run)
          \/ \E k \in 1 .. Len(ring[s]["state"]) : BeginItem(s, k)

StateRingInv == \A s \in mergers : StateInv(s)

OutInv ==
    /\ \A s \in Source : \A k \in 1 .. Len(out[s]) : out[s][k].run <= run
    /\ EventsInRuns /\ EndsMatchBegins /\ RunsInOrder

FlowRunInv == ShellInv /\ ProcessInv /\ TakingInv /\ DataInv /\ StateRingInv /\ OutInv

\* What is known of a state and the next one besides.
Known == FlowTypeOK /\ RunInv /\ RunNumberInv

-------------------------------------------------------------------------------
(* Commands that wait                                                          *)

\* No command waits when every shell is empty, and the other way round.
LEMMA NonePending ==
    ASSUME shell \in [Pipe -> Seq(Command)]
    PROVE  Pending = {} <=> \A p \in Pipe : shell[p] = <<>>
<1>1. ASSUME Pending = {}, NEW p \in Pipe, shell[p] # <<>> PROVE FALSE
  <2>1. shell[p] \in Seq(Command)
    OBVIOUS
  <2>2. 1 \in 1 .. Len(shell[p]) /\ shell[p][1] \in Command
    BY <1>1, <2>1
  <2>3. QED
    BY <1>1, <2>2 DEF Pending
<1>2. ASSUME \A p \in Pipe : shell[p] = <<>> PROVE Pending = {}
  BY <1>2 DEF Pending
<1>3. QED
  BY <1>1, <1>2

\* puts adds a command.
LEMMA PutPending ==
    ASSUME shell \in [Pipe -> Seq(Command)], NEW p \in Pipe, NEW c \in Command, Put(p, c)
    PROVE  /\ Pending' = Pending \cup {c}
           /\ Once /\ c \notin Pending => Once'
           /\ \A q \in Pipe \ {p} : shell'[q] = shell[q]
<1> DEFINE n == Len(shell[p])
<1>1. shell[p] \in Seq(Command) /\ n \in Nat
  OBVIOUS
<1>2. /\ shell'[p] = Append(shell[p], c)
      /\ Len(shell'[p]) = n + 1 /\ shell'[p][n + 1] = c
      /\ \A k \in 1 .. n : shell'[p][k] = shell[p][k]
  BY <1>1 DEF Put
<1>3. \A q \in Pipe \ {p} : shell'[q] = shell[q]
  BY DEF Put
<1>4. Pending' = Pending \cup {c}
  <2>1. ASSUME NEW d \in Pending PROVE d \in Pending'
    <3>0. PICK q \in Pipe : \E k \in 1 .. Len(shell[q]) : shell[q][k] = d
      BY <2>1 DEF Pending
    <3>1. PICK k \in 1 .. Len(shell[q]) : shell[q][k] = d
      BY <3>0
    <3>2. k \in 1 .. Len(shell'[q]) /\ shell'[q][k] = d
      BY <1>1, <1>2, <1>3, <3>1
    <3>3. QED
      BY <2>1, <3>2 DEF Pending
  <2>2. c \in Pending'
    <3>1. n + 1 \in 1 .. Len(shell'[p])
      BY <1>1, <1>2
    <3>2. QED
      BY <1>2, <3>1 DEF Pending
  <2>3. ASSUME NEW d \in Pending', d # c PROVE d \in Pending
    <3>0. PICK q \in Pipe : \E k \in 1 .. Len(shell'[q]) : shell'[q][k] = d
      BY <2>3 DEF Pending
    <3>1. PICK k \in 1 .. Len(shell'[q]) : shell'[q][k] = d
      BY <3>0
    <3>2. k \in 1 .. Len(shell[q]) /\ shell[q][k] = d
      BY <1>1, <1>2, <1>3, <2>3, <3>1
    <3>3. QED
      BY <2>3, <3>2 DEF Pending
  <2>4. QED
    BY <2>1, <2>2, <2>3
<1>5. ASSUME Once, c \notin Pending PROVE Once'
  <2> SUFFICES ASSUME NEW q \in Pipe, NEW r \in Pipe,
                      NEW j \in 1 .. Len(shell'[q]), NEW k \in 1 .. Len(shell'[r]),
                      shell'[q][j] = shell'[r][k], shell'[q][j].op \in {"begin", "end"}
               PROVE  q = r /\ j = k
    BY DEF Once
  <2>1. ASSUME NEW o \in Pipe, NEW i \in 1 .. Len(shell'[o]), shell'[o][i] # c
        PROVE  i \in 1 .. Len(shell[o]) /\ shell'[o][i] = shell[o][i]
    <3>1. CASE o = p
      <4>1. i \in 1 .. n + 1 /\ i # n + 1
        BY <1>2, <2>1, <3>1
      <4>2. i \in 1 .. n
        BY <1>1, <4>1
      <4>3. QED
        BY <1>2, <3>1, <4>2
    <3>2. CASE o # p
      BY <1>3, <3>2
    <3>3. QED
      BY <3>1, <3>2
  <2>2. ASSUME NEW o \in Pipe, NEW i \in 1 .. Len(shell'[o]), shell'[o][i] = c
        PROVE  o = p /\ i = n + 1
    <3>1. ASSUME i \in 1 .. Len(shell[o]), shell[o][i] = c PROVE FALSE
      BY <1>5, <3>1 DEF Pending
    <3>2. CASE o = p
      BY <1>1, <1>2, <2>2, <3>1, <3>2
    <3>3. CASE o # p
      BY <1>3, <2>2, <3>1, <3>3
    <3>4. QED
      BY <3>2, <3>3
  <2>3. CASE shell'[q][j] = c
    BY <2>2, <2>3
  <2>4. CASE shell'[q][j] # c
    <3>1. /\ j \in 1 .. Len(shell[q]) /\ shell'[q][j] = shell[q][j]
          /\ k \in 1 .. Len(shell[r]) /\ shell'[r][k] = shell[r][k]
      BY <2>1, <2>4
    <3>2. shell[q][j] = shell[r][k] /\ shell[q][j].op \in {"begin", "end"}
      BY <3>1
    <3>3. QED
      BY <1>5, <3>1, <3>2 DEF Once
  <2>5. QED
    BY <2>3, <2>4
<1>6. QED
  BY <1>3, <1>4, <1>5

\* A command that was executed does not wait any more.
LEMMA DonePending ==
    ASSUME shell \in [Pipe -> Seq(Command)], NEW p \in Pipe, shell[p] # <<>>, Done(p)
    PROVE  /\ Head(shell[p]) \in Pending
           /\ Pending' \subseteq Pending /\ Pending \subseteq Pending' \cup {Head(shell[p])}
           /\ Once => /\ Once'
                      /\ Head(shell[p]).op \in {"begin", "end"} => Head(shell[p]) \notin Pending'
           /\ \A q \in Pipe : shell[q] = <<>> => shell'[q] = <<>>
<1> DEFINE n == Len(shell[p])
           c == Head(shell[p])
<1>1. shell[p] \in Seq(Command) /\ n \in Nat /\ n > 0 /\ c = shell[p][1] /\ c \in Command
  OBVIOUS
<1>2. /\ shell'[p] = Tail(shell[p]) /\ Len(shell'[p]) = n - 1
      /\ \A k \in 1 .. n - 1 : shell'[p][k] = shell[p][k + 1]
  BY <1>1 DEF Done
<1>3. \A q \in Pipe \ {p} : shell'[q] = shell[q]
  BY DEF Done
<1> DEFINE at(q, k) == IF q = p THEN k + 1 ELSE k
<1>4. ASSUME NEW q \in Pipe, NEW k \in 1 .. Len(shell'[q])
      PROVE  at(q, k) \in 1 .. Len(shell[q]) /\ shell'[q][k] = shell[q][at(q, k)] /\ k \in Nat
  <2>1. CASE q = p
    BY <1>1, <1>2, <2>1
  <2>2. CASE q # p
    <3>1. shell[q] \in Seq(Command) /\ shell'[q] = shell[q]
      BY <1>3, <2>2
    <3>2. QED
      BY <2>2, <3>1
  <2>3. QED
    BY <2>1, <2>2
<1>5. c \in Pending
  BY <1>1 DEF Pending
<1>6. Pending' \subseteq Pending
  <2> SUFFICES ASSUME NEW d \in Pending' PROVE d \in Pending
    OBVIOUS
  <2>0. PICK q \in Pipe : \E k \in 1 .. Len(shell'[q]) : shell'[q][k] = d
    BY DEF Pending
  <2>1. PICK k \in 1 .. Len(shell'[q]) : shell'[q][k] = d
    BY <2>0
  <2>2. d \in Command
    BY DEF Pending
  <2> HIDE DEF at
  <2>3. QED
    BY <1>4, <2>1, <2>2 DEF Pending
<1>7. Pending \subseteq Pending' \cup {c}
  <2> SUFFICES ASSUME NEW d \in Pending, d # c PROVE d \in Pending'
    OBVIOUS
  <2>0. PICK q \in Pipe : \E k \in 1 .. Len(shell[q]) : shell[q][k] = d
    BY DEF Pending
  <2>1. PICK k \in 1 .. Len(shell[q]) : shell[q][k] = d
    BY <2>0
  <2>2. CASE q = p
    <3>1. k - 1 \in 1 .. Len(shell'[q]) /\ shell'[q][k - 1] = d
      BY <1>1, <1>2, <2>1, <2>2
    <3>2. QED
      BY <3>1 DEF Pending
  <2>3. CASE q # p
    BY <1>3, <2>1, <2>3 DEF Pending
  <2>4. QED
    BY <2>2, <2>3
<1>8. ASSUME Once PROVE Once'
  <2> SUFFICES ASSUME NEW q \in Pipe, NEW r \in Pipe,
                      NEW j \in 1 .. Len(shell'[q]), NEW k \in 1 .. Len(shell'[r]),
                      shell'[q][j] = shell'[r][k], shell'[q][j].op \in {"begin", "end"}
               PROVE  q = r /\ j = k
    BY DEF Once
  <2>1. q = r /\ at(q, j) = at(r, k) /\ j \in Nat /\ k \in Nat
    <3> HIDE DEF at
    <3>1. /\ at(q, j) \in 1 .. Len(shell[q]) /\ shell'[q][j] = shell[q][at(q, j)] /\ j \in Nat
          /\ at(r, k) \in 1 .. Len(shell[r]) /\ shell'[r][k] = shell[r][at(r, k)] /\ k \in Nat
      BY <1>4
    <3>2. /\ shell[q][at(q, j)] = shell[r][at(r, k)]
          /\ shell[q][at(q, j)].op \in {"begin", "end"}
      BY <3>1
    <3>3. QED
      BY <1>8, <3>1, <3>2 DEF Once
  <2>2. QED
    BY <2>1
<1>9. ASSUME Once, c.op \in {"begin", "end"} PROVE c \notin Pending'
  <2> SUFFICES ASSUME NEW q \in Pipe, NEW k \in 1 .. Len(shell'[q]), shell'[q][k] = c
               PROVE  FALSE
    BY DEF Pending
  <2>1. at(q, k) \in 1 .. Len(shell[q]) /\ shell[q][at(q, k)] = c /\ k \in Nat /\ k > 0
    BY <1>4
  <2>2. q = p /\ at(q, k) = 1
    <3> HIDE DEF at
    <3>1. 1 \in 1 .. Len(shell[p]) /\ shell[p][1] = c
      BY <1>1
    <3>2. QED
      BY <1>9, <2>1, <3>1 DEF Once
  <2>3. QED
    BY <2>1, <2>2
<1>10. ASSUME NEW q \in Pipe, shell[q] = <<>> PROVE shell'[q] = <<>>
  BY <1>3, <1>10
<1>11. QED
  BY <1>5, <1>6, <1>7, <1>8, <1>9, <1>10

\* Closing the channel of an empty shell changes nothing.
LEMMA ClosePending ==
    ASSUME \A p \in Pipe : shell[p] = <<>>, NEW kept, ShellsAfter(kept)
    PROVE  \A p \in Pipe : shell'[p] = <<>>
  BY DEF ShellsAfter

\* So does a step after which nothing waits and every shell is empty.
LEMMA ShellsEmpty ==
    ASSUME \A p \in Pipe : shell[p] = <<>>
    PROVE  Pending = {} /\ ShellInv
<1>1. Pending = {}
  BY DEF Pending
<1>2. Once
  BY DEF Once
<1>3. QED
  BY <1>1, <1>2 DEF ShellInv

\* The same of the next state.
LEMMA ShellsEmptied ==
    ASSUME \A p \in Pipe : shell'[p] = <<>>
    PROVE  Pending' = {} /\ ShellInv'
<1>1. Pending' = {}
  BY DEF Pending
<1>2. Once'
  BY DEF Once
<1>3. QED
  BY <1>1, <1>2 DEF ShellInv

-------------------------------------------------------------------------------
(* The provider's steps                                                        *)

\* Which step of the provider happens where in a run, and what it does to it.
LEMMA BeginSteps ==
    ASSUME TypeOK, RunInv, NEW s \in Source
    PROVE  /\ EmitBegin(s) =>
                 /\ gui = "beginning" /\ s \in todo /\ asleep = NoSource /\ asleep' = s
                 /\ runNumber'[s] = run /\ CanWrite(statefd[s])
                 /\ UNCHANGED <<gui, todo, run, active, open>>
           /\ LeaveStartToOthers(s) =>
                 /\ gui = "beginning" /\ asleep = s /\ gui' = gui
                 /\ todo' = todo \ {s} /\ asleep' = NoSource
                 /\ UNCHANGED <<run, active, open>>
           /\ ~FindStarted(s)
           /\ StartAcquisition(s) =>
                 /\ gui = "beginning" /\ asleep = s /\ todo = {s} /\ gui' = "active"
                 /\ todo' = {} /\ asleep' = NoSource /\ CanWrite(daqcontrolfd[s])
                 /\ UNCHANGED <<run, active, open>>
<1> USE ConstantsAssumption DEF TypeOK, RunInv, BeginningInv, CallInv
<1>1. EmitBegin(s) =>
          /\ gui = "beginning" /\ s \in todo /\ asleep = NoSource /\ asleep' = s
          /\ runNumber'[s] = run /\ CanWrite(statefd[s])
          /\ UNCHANGED <<gui, todo, run, active, open>>
  BY DEF EmitBegin, Called, Sleeps, fds, channels
<1>2. ASSUME LeaveStartToOthers(s)
      PROVE  /\ gui = "beginning" /\ asleep = s /\ gui' = gui
             /\ todo' = todo \ {s} /\ asleep' = NoSource
             /\ UNCHANGED <<run, active, open>>
  <2>1. gui = "beginning" /\ asleep = s /\ ~(Others(s) \subseteq beginEmitted)
    BY <1>2 DEF LeaveStartToOthers, BeginWoken, ReadyToStart
  <2>2. todo # {s}
    BY <2>1 DEF Others
  <2>3. QED
    BY <1>2, <2>1, <2>2 DEF LeaveStartToOthers, Returns, fds, channels
<1>3. ~FindStarted(s)
  BY DEF FindStarted, BeginWoken, AlreadyStarted
<1>4. ASSUME StartAcquisition(s)
      PROVE  /\ gui = "beginning" /\ asleep = s /\ todo = {s} /\ gui' = "active"
             /\ todo' = {} /\ asleep' = NoSource /\ CanWrite(daqcontrolfd[s])
             /\ UNCHANGED <<run, active, open>>
  <2>1. gui = "beginning" /\ asleep = s /\ Others(s) \subseteq beginEmitted
    BY <1>4 DEF StartAcquisition, BeginWoken, ReadyToStart
  <2>2. todo = {s}
    BY <2>1 DEF Others
  <2>3. QED
    BY <1>4, <2>1, <2>2 DEF StartAcquisition, Returns, fds, channels
<1>5. QED
  BY <1>1, <1>2, <1>3, <1>4

\* The same of the steps that end a run.
LEMMA EndSteps ==
    ASSUME TypeOK, RunInv, NEW s \in Source
    PROVE  /\ StopAcquisition(s) =>
                 /\ BeforeStop /\ BeforeStop' /\ asleep = NoSource /\ asleep' = s
                 /\ CanWrite(daqcontrolfd[s]) /\ UNCHANGED <<gui, todo, run, active, open>>
           /\ EmitEndRun(s) =>
                 /\ BeforeStop /\ asleep = s /\ asleep' = NoSource
                 /\ todo' = todo \ {s} /\ gui' \in {"ending", "halted"}
                 /\ runNumber'[s] = run /\ CanWrite(statefd[s])
                 /\ UNCHANGED <<run, active, open>>
           /\ EndStopped(s) =>
                 /\ gui = "ending" /\ s \in todo /\ todo # Source
                 /\ asleep = NoSource /\ asleep' = NoSource
                 /\ todo' = todo \ {s} /\ gui' \in {"ending", "halted"}
                 /\ runNumber'[s] = run /\ CanWrite(statefd[s])
                 /\ UNCHANGED <<run, active, open>>
<1> USE ConstantsAssumption DEF TypeOK, RunInv, EndingInv, CallInv, Taking, Closing, AllBegun, BeforeStop
<1>1. ASSUME StopAcquisition(s)
      PROVE  /\ BeforeStop /\ BeforeStop' /\ asleep = NoSource /\ asleep' = s
             /\ CanWrite(daqcontrolfd[s]) /\ UNCHANGED <<gui, todo, run, active, open>>
  <2>1. gui = "ending" /\ s \in todo /\ asleep = NoSource /\ Others(s) \subseteq runStatus
    BY <1>1 DEF StopAcquisition, Called, AlreadyStopped
  <2>2. todo = Source
    BY <2>1 DEF Others
  <2>3. QED
    BY <1>1, <2>1, <2>2 DEF StopAcquisition, Sleeps, fds, channels
<1>2. ASSUME EmitEndRun(s)
      PROVE  /\ BeforeStop /\ asleep = s /\ asleep' = NoSource
             /\ todo' = todo \ {s} /\ gui' \in {"ending", "halted"}
             /\ runNumber'[s] = run /\ CanWrite(statefd[s])
             /\ UNCHANGED <<run, active, open>>
  BY <1>2 DEF EmitEndRun, CanEmitEnd, Returns, flags, fds, channels
<1>3. ASSUME EndStopped(s)
      PROVE  /\ gui = "ending" /\ s \in todo /\ todo # Source
             /\ asleep = NoSource /\ asleep' = NoSource
             /\ todo' = todo \ {s} /\ gui' \in {"ending", "halted"}
             /\ runNumber'[s] = run /\ CanWrite(statefd[s])
             /\ UNCHANGED <<run, active, open>>
  <2>1. gui = "ending" /\ s \in todo /\ asleep = NoSource /\ ~(Others(s) \subseteq runStatus)
    BY <1>3 DEF EndStopped, Called, AlreadyStopped
  <2>2. todo # Source
    BY <2>1 DEF Others
  <2>3. QED
    BY <1>3, <2>1, <2>2 DEF EndStopped, CanEmitEnd, Returns, fds, channels
<1>4. QED
  BY <1>1, <1>2, <1>3

\* start, stop and init, and the clicks of the operator.
LEMMA SourceSteps ==
    ASSUME TypeOK, RunInv, NEW s \in Source
    PROVE  /\ StartSource(s) =>
                 /\ gui = "notready" /\ gui' \in {"notready", "halted"}
                 /\ active' = active \cup {s} /\ UNCHANGED run
           /\ StopSource(s) =>
                 /\ gui \in {"halted", "active", "failed"} /\ s \in active
                 /\ active' = active \ {s} /\ UNCHANGED run
                 /\ gui' = IF active = {s} THEN "notready" ELSE "failed"
           /\ InitSource(s) =>
                 gui = "halted" /\ s \in active /\ UNCHANGED <<gui, todo, run, active, asleep>>
           /\ GuiBegin =>
                 /\ gui = "halted" /\ gui' = "beginning" /\ run' = run + 1
                 /\ active = Source /\ todo' = Source /\ asleep = NoSource
                 /\ UNCHANGED <<active, open, asleep>>
           /\ GuiEnd =>
                 /\ gui = "active" /\ gui' = "ending" /\ active = Source /\ todo' = Source
                 /\ asleep = NoSource /\ UNCHANGED <<run, active, open, asleep>>
<1> USE ConstantsAssumption DEF TypeOK, RunInv, CallInv
<1>1. StartSource(s) =>
          /\ gui = "notready" /\ gui' \in {"notready", "halted"}
          /\ active' = active \cup {s} /\ UNCHANGED run
  BY DEF StartSource
<1>2. StopSource(s) =>
          /\ gui \in {"halted", "active", "failed"} /\ s \in active
          /\ active' = active \ {s} /\ UNCHANGED run
          /\ gui' = IF active = {s} THEN "notready" ELSE "failed"
  BY DEF StopSource
<1>3. InitSource(s) =>
          gui = "halted" /\ s \in active /\ UNCHANGED <<gui, todo, run, active, asleep>>
  BY DEF InitSource
<1>4. GuiBegin =>
          /\ gui = "halted" /\ gui' = "beginning" /\ run' = run + 1
          /\ active = Source /\ todo' = Source /\ asleep = NoSource
          /\ UNCHANGED <<active, open, asleep>>
  BY DEF GuiBegin, fds, channels
<1>5. GuiEnd =>
          /\ gui = "active" /\ gui' = "ending" /\ active = Source /\ todo' = Source
          /\ asleep = NoSource /\ UNCHANGED <<run, active, open, asleep>>
  BY DEF GuiEnd, fds, channels
<1>6. QED
  BY <1>1, <1>2, <1>3, <1>4, <1>5

-------------------------------------------------------------------------------
(* The commands that wait                                                      *)

\* When the shells have executed what was written to them nothing waits.
LEMMA NoneWaits ==
    ASSUME FlowTypeOK, ShellInv, ShellsDone
    PROVE  Pending = {} /\ \A p \in Pipe : shell[p] = <<>>
<1>1. \A p \in Pipe : shell[p] = <<>>
  BY DEF ShellInv, ShellsDone
<1>2. QED
  BY <1>1, ShellsEmpty

\* Nothing waits before the sources are ready, and while no proc that has
\* written a command sleeps.
LEMMA NoneAwaited ==
    ASSUME FlowTypeOK, ShellInv,
           \/ gui \in {"notready", "failed"}
           \/ gui = "beginning" /\ asleep = NoSource
           \/ BeforeStop /\ asleep = NoSource
    PROVE  Pending = {} /\ \A p \in Pipe : shell[p] = <<>>
<1>1. ASSUME NEW c \in Pending PROVE FALSE
  <2>1. c \in Command /\ Awaited(c)
    BY <1>1 DEF ShellInv, Pending
  <2>2. c.op = "begin" => c.source \in Source
    BY <2>1 DEF Command
  <2>3. QED
    BY <2>1, <2>2, ConstantsAssumption DEF Awaited, BeforeStop
<1>2. Pending = {}
  BY <1>1
<1>3. QED
  BY <1>2, NonePending DEF FlowTypeOK

\* A command is written when nothing waits, or is one that does not wait yet, and
\* to a channel that is open.
LEMMA PutShellInv ==
    ASSUME FlowTypeOK, ShellInv, NEW p \in open, NEW c \in Command, Put(p, c),
           c \notin Pending, open' = open,
           \A d \in Pending : Awaited(d)', Awaited(c)'
    PROVE  ShellInv'
<1>1. p \in Pipe
  BY DEF FlowTypeOK, TypeOK
<1>2. /\ Pending' = Pending \cup {c}
      /\ Once /\ c \notin Pending => Once'
      /\ \A q \in Pipe \ {p} : shell'[q] = shell[q]
  BY <1>1, PutPending DEF FlowTypeOK
<1>3. \A d \in Pending' : Awaited(d)'
  BY <1>2
<1>4. \A q \in Pipe \ open' : shell'[q] = <<>>
  BY <1>2 DEF ShellInv
<1>5. Once'
  BY <1>2 DEF ShellInv
<1>6. QED
  BY <1>3, <1>4, <1>5 DEF ShellInv

\* The commands that the provider writes are commands, and name the run.
LEMMA Commands ==
    ASSUME Known, NEW s \in Source
    PROVE  /\ \A op \in {"configure", "start", "stop"} :
                 /\ EccCommand(op, s) \in Command
                 /\ EccCommand(op, s) = [op |-> op, server |-> EccServer[s]]
           /\ \A kind \in {"begin", "end"} :
                 runNumber'[s] = run /\ gui \in {"beginning", "ending"} =>
                     /\ StateCommand(kind, s) \in Command
                     /\ StateCommand(kind, s) = [op |-> kind, source |-> s, run |-> run]
<1>1. ASSUME NEW op \in {"configure", "start", "stop"}
      PROVE  /\ EccCommand(op, s) \in Command
             /\ EccCommand(op, s) = [op |-> op, server |-> EccServer[s]]
  BY ConstantsAssumption DEF EccCommand, Command
<1>2. ASSUME NEW kind \in {"begin", "end"}, runNumber'[s] = run,
             gui \in {"beginning", "ending"}
      PROVE  /\ StateCommand(kind, s) \in Command
             /\ StateCommand(kind, s) = [op |-> kind, source |-> s, run |-> run]
  <2>1. run \in 1 .. MaxRun
    BY <1>2, ConstantsAssumption
       DEF Known, FlowTypeOK, TypeOK, RunNumberInv, RunInv, BeginningInv, EndingInv, AllBegun
  <2>2. QED
    BY <1>2, <2>1 DEF StateCommand, Command
<1>3. QED
  BY <1>1, <1>2

\* ShellInv is kept by every step.
LEMMA ShellInvStep ==
    ASSUME Orderly, Known, ShellInv, [FlowNext]_flowVars
    PROVE  ShellInv'
<1>a. TypeOK /\ FlowTypeOK /\ RunInv
  BY DEF Known, FlowTypeOK
<1>b. ASSUME \A p \in Pipe : shell[p] = <<>>, UNCHANGED shell PROVE ShellInv'
  BY <1>b, ShellsEmptied
<1>c. ASSUME \A p \in Pipe : shell[p] = <<>>, NEW kept, ShellsAfter(kept) PROVE ShellInv'
  BY <1>c, ClosePending, ShellsEmptied
<1>d. Waited => Pending = {} /\ \A p \in Pipe : shell[p] = <<>>
  BY <1>a, NoneWaits DEF Waited, Orderly
<1>1. ASSUME NEW s \in Source, FlowStart(s) PROVE ShellInv'
  <2>1. \A p \in Pipe : shell[p] = <<>>
    BY <1>a, <1>1, SourceSteps, NoneAwaited DEF FlowStart
  <2>2. QED
    BY <1>1, <1>c, <2>1 DEF FlowStart
<1>2. ASSUME NEW s \in Source, FlowStop(s) \/ FlowInit(s) PROVE ShellInv'
  BY <1>2, <1>c, <1>d DEF FlowStop, FlowInit
<1>3. CASE FlowGuiBegin \/ FlowGuiEnd
  BY <1>3, <1>b, <1>d DEF FlowGuiBegin, FlowGuiEnd
<1>4. CASE Configure
  <2>2. PICK c \in Command : c.op = "configure" /\ c = EccCommand("configure", PanelSource)
    BY Commands, RunDataFlowAssumption
  <2>1. /\ gui = "halted" /\ Pending = {} /\ UNCHANGED <<gui, open, run>>
        /\ daqcontrolfd[PanelSource] \in open /\ Put(daqcontrolfd[PanelSource], c)
    BY <1>4, <1>d, <2>2 DEF Configure, CanWrite, vars
  <2>3. Awaited(c)'
    BY <2>1, <2>2 DEF Awaited
  <2>4. QED
    BY <1>a, <2>1, <2>2, <2>3, PutShellInv
<1>5. ASSUME NEW s \in Source, EmitBegin(s), Put(statefd[s], StateCommand("begin", s))
      PROVE  ShellInv'
  <2>1. /\ gui = "beginning" /\ asleep = NoSource /\ asleep' = s /\ runNumber'[s] = run
        /\ statefd[s] \in open /\ UNCHANGED <<gui, run, open>>
    BY <1>a, <1>5, BeginSteps DEF CanWrite
  <2>2. PICK c \in Command : /\ c = [op |-> "begin", source |-> s, run |-> run]
                            /\ c = StateCommand("begin", s)
    BY <2>1, Commands
  <2>3. Pending = {}
    BY <1>a, <2>1, NoneAwaited
  <2>4. Awaited(c)'
    BY <2>1, <2>2 DEF Awaited
  <2>5. Put(statefd[s], c)
    BY <1>5, <2>2
  <2>6. QED
    BY <1>a, <2>1, <2>2, <2>3, <2>4, <2>5, PutShellInv
<1>6. ASSUME NEW s \in Source, StopAcquisition(s), Put(daqcontrolfd[s], EccCommand("stop", s))
      PROVE  ShellInv'
  <2>1. /\ BeforeStop /\ BeforeStop' /\ asleep = NoSource /\ asleep' = s
        /\ daqcontrolfd[s] \in open /\ UNCHANGED open
    BY <1>a, <1>6, EndSteps DEF CanWrite
  <2>2. PICK c \in Command : /\ c = [op |-> "stop", server |-> EccServer[s]]
                            /\ c = EccCommand("stop", s)
    BY Commands
  <2>3. Pending = {}
    BY <1>a, <2>1, NoneAwaited
  <2>4. Awaited(c)'
    BY <2>1, <2>2, ConstantsAssumption DEF Awaited, Orderly, OneServer
  <2>5. Put(daqcontrolfd[s], c)
    BY <1>6, <2>2
  <2>6. QED
    BY <1>a, <2>1, <2>2, <2>3, <2>4, <2>5, PutShellInv
<1>7. ASSUME NEW s \in Source, BeginPercolated(s), UNCHANGED shell PROVE ShellInv'
  BY <1>7, <1>a, <1>b, NoneWaits DEF BeginPercolated, Orderly
<1>8. ASSUME NEW s \in Source, BeginPercolated(s), StartAcquisition(s),
             Put(daqcontrolfd[s], EccCommand("start", s))
      PROVE  ShellInv'
  <2>1. gui' = "active" /\ daqcontrolfd[s] \in open /\ UNCHANGED open
    BY <1>a, <1>8, BeginSteps DEF CanWrite
  <2>2. PICK c \in Command : /\ c = [op |-> "start", server |-> EccServer[s]]
                            /\ c = EccCommand("start", s)
    BY Commands
  <2>3. Pending = {}
    BY <1>a, <1>8, NoneWaits DEF BeginPercolated, Orderly
  <2>4. Awaited(c)'
    BY <2>1, <2>2 DEF Awaited
  <2>5. Put(daqcontrolfd[s], c)
    BY <1>8, <2>2
  <2>6. QED
    BY <1>a, <2>1, <2>2, <2>3, <2>4, <2>5, PutShellInv
<1>9. ASSUME NEW s \in Source, (EmitEndRun(s) /\ RunDown) \/ EndStopped(s),
             Put(statefd[s], StateCommand("end", s))
      PROVE  ShellInv'
  <2>1. /\ gui = "ending" /\ s \in todo /\ todo' = todo \ {s}
        /\ gui' \in {"ending", "halted"} /\ runNumber'[s] = run
        /\ statefd[s] \in open /\ UNCHANGED <<run, open>>
    BY <1>a, <1>9, EndSteps DEF CanWrite, BeforeStop
  <2>2. PICK c \in Command : /\ c = [op |-> "end", source |-> s, run |-> run]
                            /\ c = StateCommand("end", s)
    BY <2>1, Commands
  <2>3. todo' # Source /\ todo \subseteq Source
    BY <1>a, <2>1 DEF TypeOK
  <2>4. Awaited(c)'
    BY <2>1, <2>2, <2>3 DEF Awaited
  <2>5. ASSUME NEW d \in Pending
        PROVE  d.op = "end" /\ d.run = run /\ d.source \notin todo
    <3>1. ~RunDown
      BY <1>a, <2>5, NoneWaits DEF RunDown, Orderly
    <3>2. todo # Source
      BY <1>a, <1>9, <3>1, EndSteps
    <3>3. Awaited(d)
      BY <2>5 DEF ShellInv
    <3>4. QED
      BY <2>1, <3>2, <3>3 DEF Awaited, BeforeStop
  <2>6. \A d \in Pending : Awaited(d)' /\ d # c
    BY <2>1, <2>2, <2>3, <2>5 DEF Awaited
  <2>7. Put(statefd[s], c)
    BY <1>9, <2>2
  <2>8. QED
    BY <1>a, <2>1, <2>2, <2>4, <2>6, <2>7, PutShellInv
<1>10. ASSUME NEW p \in Pipe, shell[p] # <<>>, Done(p), UNCHANGED vars PROVE ShellInv'
  <2>1. /\ Pending' \subseteq Pending /\ (Once => Once')
        /\ \A q \in Pipe : shell[q] = <<>> => shell'[q] = <<>>
    BY <1>a, <1>10, DonePending DEF FlowTypeOK
  <2>2. \A d \in Pending' : Awaited(d)'
    BY <1>10, <2>1 DEF ShellInv, Awaited, BeforeStop, vars
  <2>3. QED
    BY <1>10, <2>1, <2>2 DEF ShellInv, vars
<1>11. ASSUME UNCHANGED <<vars, shell>> PROVE ShellInv'
  BY <1>11 DEF ShellInv, Awaited, BeforeStop, Pending, Once, vars
<1>12. ASSUME NEW s \in Source, FlowProc(s) PROVE ShellInv'
  <2>1. ~FindStarted(s)
    BY <1>a, BeginSteps
  <2>2. QED
    BY <1>5, <1>6, <1>7, <1>8, <1>9, <1>12 DEF FlowProc, FlowSleep, FlowWake, FlowEndStopped
<1>13. ASSUME NEW s \in Source, CoboSends(s) \/ FlowData(s) PROVE ShellInv'
  BY <1>11, <1>13 DEF CoboSends, FlowData
<1>14. ASSUME NEW p \in Pipe, Shell(p) PROVE ShellInv'
  BY <1>10, <1>14 DEF Shell, ShellInserts, ShellCommands
<1>15. CASE UNCHANGED flowVars
  BY <1>11, <1>15 DEF flowVars
<1>16. QED
  BY <1>1, <1>2, <1>3, <1>4, <1>12, <1>13, <1>14, <1>15 DEF FlowNext

-------------------------------------------------------------------------------
(* Processes and connections                                                   *)

\* A proc of a transition leaves the processes, the rings and the electronics
\* alone, and does not fail.
LEMMA ProcSteps ==
    ASSUME Known, NEW s \in Source, FlowProc(s)
    PROVE  /\ UNCHANGED <<run, active, open, pathVars, electronics, frames, failed, inits>>
           /\ gui \in {"beginning", "ending"}
           /\ gui' \in {"beginning", "active", "ending", "halted"}
<1>1. TypeOK /\ RunInv
  BY DEF Known, FlowTypeOK
<1>2. CASE FlowSleep(s)
  BY <1>1, <1>2, BeginSteps, EndSteps DEF FlowSleep, BeforeStop
<1>3. CASE FlowWake(s)
  BY <1>1, <1>3, BeginSteps, EndSteps DEF FlowWake, BeforeStop
<1>4. CASE FlowEndStopped(s)
  BY <1>1, <1>4, EndSteps DEF FlowEndStopped
<1>5. QED
  BY <1>2, <1>3, <1>4 DEF FlowProc

\* ProcessInv is kept by every step.
LEMMA ProcessInvStep ==
    ASSUME Known, ProcessInv, [FlowNext]_flowVars
    PROVE  ProcessInv'
<1> USE DEF ProcessInv
<1>a. /\ TypeOK /\ RunInv /\ routers \subseteq Source /\ mergers \subseteq Source
      /\ link \in [Source -> Seq(1 .. MaxRun)]
  BY DEF Known, FlowTypeOK, DataTypeOK
<1>1. ASSUME NEW s \in Source, FlowStart(s) PROVE ProcessInv'
  <2>1. gui' # "failed" /\ active' = active \cup {s}
    BY <1>a, <1>1, SourceSteps DEF FlowStart
  <2>2. QED
    BY <1>a, <1>1, <2>1 DEF FlowStart, StartProcesses
<1>2. ASSUME NEW s \in Source, FlowStop(s) PROVE ProcessInv'
  <2>1. active' = active \ {s}
    BY <1>a, <1>2, SourceSteps DEF FlowStop
  <2>2. mergers' = {}
    BY <1>2 DEF FlowStop, Kill, KillProcesses
  <2>3. QED
    BY <1>a, <1>2, <2>1, <2>2 DEF FlowStop, Kill, KillProcesses, KilledRouters
<1>3. ASSUME NEW s \in Source, FlowInit(s) PROVE ProcessInv'
  <2>1. gui' # "failed" /\ active' = active /\ s \in active
    BY <1>a, <1>3, SourceSteps DEF FlowInit
  <2>2. mergers' = {s} /\ s \in routers'
    BY <1>3 DEF FlowInit, RestartProcesses
  <2>3. QED
    BY <1>a, <1>3, <2>1, <2>2 DEF FlowInit, RestartProcesses, KilledRouters
<1>4. ASSUME NEW s \in Source, FlowProc(s) PROVE ProcessInv'
  BY <1>4, ProcSteps DEF pathVars, electronics
<1>5. ASSUME NEW s \in Source, CoboSends(s) PROVE ProcessInv'
  BY <1>a, <1>5 DEF CoboSends, SendFrame, vars, electronics
<1>6. ASSUME NEW s \in Source, FlowData(s) PROVE ProcessInv'
  BY <1>a, <1>6 DEF FlowData, ProcessFrame, MergeStep, vars, electronics
<1>7. CASE Configure
  BY <1>7 DEF Configure, vars, pathVars, electronics
<1>8. CASE FlowGuiBegin \/ FlowGuiEnd
  BY <1>8, <1>a, SourceSteps, ConstantsAssumption
     DEF FlowGuiBegin, FlowGuiEnd, pathVars, electronics
<1>9. ASSUME NEW p \in Pipe, ShellInserts(p) PROVE ProcessInv'
  BY <1>9 DEF ShellInserts, InsertStateChange, InsertStateChangeFails, dataVars, vars,
              electronics
<1>10. ASSUME NEW p \in Pipe, ShellCommands(p) PROVE ProcessInv'
  <2>1. linked' \subseteq linked \cup routers
    BY <1>10 DEF ShellCommands, EccConfigure, EccStart, EccStop, electronics
  <2>2. QED
    BY <1>10, <2>1 DEF ShellCommands, vars, pathVars
<1>11. CASE UNCHANGED flowVars
  BY <1>11 DEF flowVars, vars, pathVars, electronics
<1>12. QED
  BY <1>1, <1>2, <1>3, <1>4, <1>5, <1>6, <1>7, <1>8, <1>9, <1>10, <1>11 DEF FlowNext, Shell

-------------------------------------------------------------------------------
(* Taking data                                                                 *)

\* The rings and links of sources without processes are empty, and no frame is on
\* its way once the run is down.
LEMMA RunIsDown ==
    ASSUME Orderly, ProcessInv, RunDown
    PROVE  NoFrames /\ ShellsDone
  BY DEF Orderly, ProcessInv, RunDown, NoFrames

\* What getEccSoapClient does in each state of the GUI.
LEMMA CommandSteps ==
    ASSUME Known, ShellInv, NEW p \in Pipe, ShellCommands(p)
    PROVE  LET c == Head(shell[p])
           IN /\ c \in Pending /\ c \in Command /\ c.server \in Server
              /\ \/ c.op = "configure" /\ gui = "halted"
                 \/ c.op = "start" /\ gui = "active"
                 \/ c.op = "stop" /\ BeforeStop /\ \A s \in Source : c.server = EccServer[s]
              /\ Pending' \subseteq Pending /\ Pending \subseteq Pending' \cup {c}
              /\ UNCHANGED <<vars, pathVars, frames, failed>>
<1> DEFINE c == Head(shell[p])
<1>1. /\ shell[p] # <<>> /\ c.op \in {"configure", "start", "stop"} /\ Done(p)
      /\ UNCHANGED <<vars, pathVars, frames, failed>>
  BY DEF ShellCommands
<1>2. /\ c \in Pending /\ Pending' \subseteq Pending /\ Pending \subseteq Pending' \cup {c}
  BY <1>1, DonePending DEF Known, FlowTypeOK
<1>3. Awaited(c) /\ c \in Command
  BY <1>2 DEF ShellInv, Pending
<1>4. c.server \in Server
  BY <1>1, <1>3 DEF Command
<1>5. QED
  BY <1>1, <1>2, <1>3, <1>4 DEF Awaited

\* What insertstatechange does in each state of the GUI.
LEMMA InsertSteps ==
    ASSUME Known, ShellInv, NEW p \in Pipe, ShellInserts(p)
    PROVE  LET c == Head(shell[p])
           IN /\ c \in Pending /\ c \notin Pending' /\ c \in Command
              /\ c.source \in Source /\ c.run = run /\ run \in 1 .. MaxRun
              /\ c = [op |-> c.op, source |-> c.source, run |-> run]
              /\ \/ c.op = "begin" /\ gui = "beginning" /\ c.source = asleep
                 \/ c.op = "end" /\ gui = "halted"
                 \/ c.op = "end" /\ gui = "ending" /\ todo # Source /\ c.source \notin todo
              /\ Pending' \subseteq Pending /\ Pending \subseteq Pending' \cup {c}
              /\ UNCHANGED <<vars, electronics, frames>>
<1> DEFINE c == Head(shell[p])
<1>1. /\ shell[p] # <<>> /\ c.op \in {"begin", "end"} /\ Done(p)
      /\ UNCHANGED <<vars, electronics, frames>>
  BY DEF ShellInserts
<1>2. /\ c \in Pending /\ Pending' \subseteq Pending /\ Pending \subseteq Pending' \cup {c}
      /\ c \notin Pending'
  BY <1>1, DonePending DEF Known, FlowTypeOK, ShellInv
<1>3. Awaited(c) /\ c \in Command
  BY <1>2 DEF ShellInv, Pending
<1>4. c \in [op : {"begin", "end"}, source : Source, run : 1 .. MaxRun]
  BY <1>1, <1>3 DEF Command
<1>5. c.run = run
  BY <1>1, <1>3 DEF Awaited
<1>6. QED
  BY <1>1, <1>2, <1>3, <1>4, <1>5 DEF Awaited, BeforeStop

-------------------------------------------------------------------------------
(* Rings                                                                       *)

\* What Tail leaves of a sequence.
LEMMA Shortened ==
    ASSUME NEW S, NEW q \in Seq(S), q # <<>>
    PROVE  /\ Len(q) \in Nat \ {0} /\ Head(q) = q[1] /\ q[1] \in S
           /\ Tail(q) \in Seq(S) /\ Len(Tail(q)) = Len(q) - 1
           /\ \A k \in 1 .. Len(q) - 1 : Tail(q)[k] = q[k + 1]
  OBVIOUS

\* ringmerge takes the first item of the ring whose turn it is, if there is one.
LEMMA MergeSteps ==
    ASSUME Known, NEW s \in Source, MergeStep(s)
    PROVE  \/ UNCHANGED <<ring, out>>
           \/ /\ turn[s] \in Input /\ s \in mergers
              /\ ring[s][turn[s]] # <<>> /\ Len(ring[s][turn[s]]) \in Nat \ {0}
              /\ ring[s][turn[s]][1] \in Item
              /\ out'[s] = Append(out[s], ring[s][turn[s]][1])
              /\ \A o \in Source \ {s} : out'[o] = out[o]
              /\ Len(ring'[s][turn[s]]) = Len(ring[s][turn[s]]) - 1
              /\ \A k \in 1 .. Len(ring[s][turn[s]]) - 1 :
                    ring'[s][turn[s]][k] = ring[s][turn[s]][k + 1]
              /\ \A o \in Source, i \in Input :
                    o # s \/ i # turn[s] => ring'[o][i] = ring[o][i]
<1> DEFINE q == ring[s][turn[s]]
<1>1. CASE q = <<>>
  BY <1>1 DEF MergeStep
<1>2. CASE q # <<>>
  <2>1. /\ turn[s] \in Input /\ ring \in [Source -> [Input -> Seq(Item)]]
        /\ out \in [Source -> Seq(Item)] /\ s \in mergers
    BY DEF MergeStep, Known, FlowTypeOK, DataTypeOK
  <2>2. q \in Seq(Item)
    BY <2>1
  <2>3. /\ out' = [out EXCEPT ![s] = Append(@, Head(q))]
        /\ ring' = [ring EXCEPT ![s][turn[s]] = Tail(q)]
    BY <1>2 DEF MergeStep
  <2>4. /\ Tail(q) \in Seq(Item) /\ Len(Tail(q)) = Len(q) - 1 /\ Len(q) \in Nat \ {0}
        /\ Head(q) = q[1] /\ q[1] \in Item
        /\ \A k \in 1 .. Len(q) - 1 : Tail(q)[k] = q[k + 1]
    BY <1>2, <2>2, Shortened
  <2> HIDE DEF q
  <2>5. /\ ring'[s][turn[s]] = Tail(q)
        /\ \A o \in Source, i \in Input :
              o # s \/ i # turn[s] => ring'[o][i] = ring[o][i]
    BY <2>1, <2>3, <2>4
  <2>6. out'[s] = Append(out[s], q[1]) /\ \A o \in Source \ {s} : out'[o] = out[o]
    BY <2>1, <2>3, <2>4
  <2>7. QED
    BY <1>2, <2>1, <2>4, <2>5, <2>6 DEF q
<1>3. QED
  BY <1>1, <1>2

\* commitToRing adds an item when a merger is attached.
LEMMA CommitSteps ==
    ASSUME Known, NEW s \in Source, NEW i \in Input, NEW kind \in ItemKind,
           NEW r \in 1 .. MaxRun, Commit(s, i, kind, r)
    PROVE  /\ s \notin mergers => UNCHANGED ring
           /\ s \in mergers =>
                 /\ Len(ring[s][i]) \in Nat /\ Len(ring'[s][i]) = Len(ring[s][i]) + 1
                 /\ \A k \in 1 .. Len(ring[s][i]) : ring'[s][i][k] = ring[s][i][k]
                 /\ ring'[s][i][Len(ring[s][i]) + 1].kind = kind
                 /\ ring'[s][i][Len(ring[s][i]) + 1].run = r
           /\ \A o \in Source, j \in Input : o # s \/ j # i => ring'[o][j] = ring[o][j]
<1> DEFINE e == [kind |-> kind, run |-> r, seq |-> sent[s][i] + 1]
           q == ring[s][i]
<1>1. ring \in [Source -> [Input -> Seq(Item)]] /\ sent \in [Source -> [Input -> Nat]]
  BY DEF Known, FlowTypeOK, DataTypeOK
<1>2. q \in Seq(Item)
  BY <1>1
<1>3. e \in Item
  BY <1>1 DEF Item
<1>4. /\ Append(q, e) \in Seq(Item) /\ Len(Append(q, e)) = Len(q) + 1 /\ Len(q) \in Nat
      /\ \A k \in 1 .. Len(q) : Append(q, e)[k] = q[k]
      /\ Append(q, e)[Len(q) + 1] = e
  BY <1>2, <1>3, D!Appended
<1>5. CASE s \in mergers
  <2>1. ring' = [ring EXCEPT ![s][i] = Append(q, e)]
    BY <1>5 DEF Commit
  <2> HIDE DEF q
  <2>2. /\ ring'[s][i] = Append(q, e)
        /\ \A o \in Source, j \in Input : o # s \/ j # i => ring'[o][j] = ring[o][j]
    BY <1>1, <1>4, <2>1
  <2>3. QED
    BY <1>4, <1>5, <2>2 DEF q
<1>6. CASE s \notin mergers
  BY <1>6 DEF Commit
<1>7. QED
  BY <1>5, <1>6

\* The router commits the frame that it read.
LEMMA FrameSteps ==
    ASSUME Known, NEW s \in Source, ProcessFrame(s)
    PROVE  /\ s \in routers /\ Len(link[s]) \in Nat \ {0}
           /\ link[s][1] \in 1 .. MaxRun /\ Commit(s, "data", "event", link[s][1])
           /\ Len(link'[s]) = Len(link[s]) - 1
           /\ \A k \in 1 .. Len(link[s]) - 1 : link'[s][k] = link[s][k + 1]
           /\ \A o \in Source \ {s} : link'[o] = link[o]
           /\ UNCHANGED <<routers, mergers, turn, out, base>>
<1>1. link[s] \in Seq(1 .. MaxRun) /\ link[s] # <<>> /\ link \in [Source -> Seq(1 .. MaxRun)]
  BY DEF ProcessFrame, Known, FlowTypeOK, DataTypeOK
<1>2. /\ Len(link[s]) \in Nat \ {0} /\ Head(link[s]) = link[s][1] /\ link[s][1] \in 1 .. MaxRun
      /\ Len(Tail(link[s])) = Len(link[s]) - 1
      /\ \A k \in 1 .. Len(link[s]) - 1 : Tail(link[s])[k] = link[s][k + 1]
  BY <1>1, Shortened
<1>3. link'[s] = Tail(link[s]) /\ \A o \in Source \ {s} : link'[o] = link[o]
  BY <1>1 DEF ProcessFrame
<1>4. QED
  BY <1>2, <1>3 DEF ProcessFrame

\* insertstatechange commits its item to the state ring, or fails and says nothing.
LEMMA InsertRings ==
    ASSUME Known, ShellInv, NEW p \in Pipe, ShellInserts(p)
    PROVE  LET c == Head(shell[p])
               s == c.source
               n == Len(ring[s]["state"])
           IN /\ UNCHANGED <<link, routers, mergers, out, turn>>
              /\ \A o \in Source, i \in Input :
                    o # s \/ i # "state" => ring'[o][i] = ring[o][i]
              /\ \/ UNCHANGED ring /\ failed' = failed \cup {c}
                 \/ /\ UNCHANGED failed
                    /\ s \notin mergers => UNCHANGED ring
                    /\ s \in mergers =>
                          /\ n \in Nat /\ Len(ring'[s]["state"]) = n + 1
                          /\ \A k \in 1 .. n : ring'[s]["state"][k] = ring[s]["state"][k]
                          /\ ring'[s]["state"][n + 1].kind = c.op
                          /\ ring'[s]["state"][n + 1].run = run
<1>1. PICK c : /\ c = Head(shell[p]) /\ c.source \in Source /\ c.run = run
               /\ run \in 1 .. MaxRun /\ c.op \in {"begin", "end"}
  BY InsertSteps
<1>2. "state" \in Input /\ c.op \in ItemKind
  BY <1>1 DEF Input, ItemKind
<1>3. CASE InsertStateChangeFails /\ failed' = failed \cup {c}
  BY <1>1, <1>3 DEF InsertStateChangeFails, dataVars
<1>4. CASE InsertStateChange(c.source, c.op, run) /\ UNCHANGED failed
  <2>1. /\ UNCHANGED <<link, routers, mergers, turn, out>>
        /\ Commit(c.source, "state", c.op, run)
    BY <1>4 DEF InsertStateChange
  <2>0. PICK s \in Source, kind \in ItemKind : s = c.source /\ kind = c.op
    BY <1>1, <1>2
  <2> DEFINE n == Len(ring[s]["state"])
  <2>2. /\ s \notin mergers => UNCHANGED ring
        /\ s \in mergers =>
              /\ n \in Nat /\ Len(ring'[s]["state"]) = n + 1
              /\ \A k \in 1 .. n : ring'[s]["state"][k] = ring[s]["state"][k]
              /\ ring'[s]["state"][n + 1].kind = kind
              /\ ring'[s]["state"][n + 1].run = run
        /\ \A o \in Source, i \in Input : o # s \/ i # "state" => ring'[o][i] = ring[o][i]
    <3>1. Commit(s, "state", kind, run) /\ run \in 1 .. MaxRun
      BY <1>1, <2>0, <2>1
    <3>2. QED
      BY <1>2, <3>1, CommitSteps
  <2>3. QED
    BY <1>1, <1>4, <2>0, <2>1, <2>2
<1>5. QED
  BY <1>1, <1>3, <1>4 DEF ShellInserts

-------------------------------------------------------------------------------
(* Frames                                                                      *)

\* TakingInv is kept by every step.
LEMMA TakingInvStep ==
    ASSUME Orderly, Known, ShellInv, ShellInv', ProcessInv, ProcessInv', TakingInv,
           [FlowNext]_flowVars
    PROVE  TakingInv'
<1>a. /\ TypeOK /\ RunInv /\ FlowTypeOK /\ routers \subseteq Source /\ mergers \subseteq Source
      /\ link \in [Source -> Seq(1 .. MaxRun)] /\ linked \subseteq Source
      /\ ring \in [Source -> [Input -> Seq(Item)]]
      /\ taking \in [Server -> 0 .. MaxRun] /\ EccServer \in [Source -> Server]
      /\ asleep \in Source \cup {NoSource} /\ NoSource \notin Source
      /\ ecc \in [Server -> {"down", "idle", "ready", "running"}]
  BY ConstantsAssumption DEF Known, FlowTypeOK, DataTypeOK, TypeOK
\* A step after which nothing takes data and nothing is on its way.
<1>b. ASSUME NoneTaking', NoFrames' \/ Sending' \/ gui' = "failed" PROVE TakingInv'
  BY <1>b DEF TakingInv, NoneTaking
<1>1. ASSUME NEW s \in Source, FlowStart(s) PROVE TakingInv'
  <2>1. gui = "notready" /\ gui' \in {"notready", "halted"}
    BY <1>a, <1>1, SourceSteps DEF FlowStart
  <2>2. NoneTaking /\ NoFrames
    BY <2>1 DEF TakingInv, Sending, BeforeStop
  <2>3. NoneTaking'
    BY <1>1, <2>2 DEF FlowStart, NoneTaking
  <2>4. NoFrames'
    BY <1>a, <1>1, <2>2 DEF FlowStart, StartProcesses, NoItems, NoFrames, Input
  <2>5. QED
    BY <1>b, <2>3, <2>4
<1>2. ASSUME NEW s \in Source, FlowStop(s) PROVE TakingInv'
  <2>1. active' = active \ {s} /\ gui' = IF active = {s} THEN "notready" ELSE "failed"
    BY <1>a, <1>2, SourceSteps DEF FlowStop
  <2>2. CASE active = {s}
    <3>1. routers' = {} /\ mergers' = {}
      BY <1>2, <2>1, <2>2 DEF FlowStop, Kill, KillProcesses, ProcessInv
    <3>2. NoneTaking' /\ NoFrames'
      BY <3>1 DEF ProcessInv, NoneTaking, NoFrames
    <3>3. QED
      BY <1>b, <3>2
  <2>3. CASE active # {s}
    BY <2>1, <2>3 DEF TakingInv, Sending, BeforeStop
  <2>4. QED
    BY <2>2, <2>3
<1>3. ASSUME NEW s \in Source, FlowInit(s) PROVE TakingInv'
  <2>1. gui = "halted"
    BY <1>a, <1>3, SourceSteps DEF FlowInit
  <2>2. NoneTaking /\ NoFrames
    BY <2>1 DEF TakingInv, Sending, BeforeStop
  <2>3. NoneTaking'
    BY <1>3, <2>2 DEF FlowInit, NoneTaking
  <2>4. NoFrames'
    BY <1>a, <1>3, <2>2 DEF FlowInit, RestartProcesses, NoItems, NoFrames, Input
  <2>5. QED
    BY <1>b, <2>3, <2>4
<1>4. ASSUME NEW s \in Source, FlowProc(s) PROVE TakingInv'
  <2>1. /\ UNCHANGED <<run, pathVars, ecc, taking, linked>>
        /\ gui \in {"beginning", "ending"} /\ gui' # "failed"
    BY <1>4, ProcSteps DEF Known, electronics
  <2>2. /\ NoneTaking' <=> NoneTaking
        /\ NoFrames' <=> NoFrames
    BY <2>1 DEF NoneTaking, NoFrames, pathVars
  <2>3. \A o \in linked' : taking'[EccServer[o]] # 0 =>
            taking'[EccServer[o]] = run' /\ ecc'[EccServer[o]] = "running"
    BY <2>1 DEF TakingInv
  <2>4. CASE NoneTaking /\ NoFrames
    BY <1>b, <2>2, <2>4
  <2>5. CASE ~(NoneTaking /\ NoFrames)
    <3>1. BeforeStop
      BY <2>1, <2>5 DEF TakingInv, Sending
    <3>2. ASSUME EmitEndRun(s), RunDown PROVE FALSE
      <4>1. NoFrames /\ Pending = {} /\ asleep # NoSource
        BY <1>a, <3>2, RunIsDown, NoneWaits, EndSteps
      <4>2. QED
        BY <2>5, <3>1, <4>1 DEF TakingInv
    <3>3. StopAcquisition(s) /\ Put(daqcontrolfd[s], EccCommand("stop", s))
      BY <1>a, <1>4, <3>1, <3>2, BeginSteps, EndSteps
         DEF FlowProc, FlowSleep, FlowWake, FlowEndStopped, BeforeStop
    <3>4. BeforeStop' /\ daqcontrolfd[s] \in Pipe
      BY <1>a, <3>3, EndSteps DEF CanWrite, TypeOK
    <3>5. PICK c \in Command : c.op = "stop" /\ c = EccCommand("stop", s)
      BY Commands
    <3>6. c \in Pending'
      BY <1>a, <3>3, <3>4, <3>5, PutPending DEF FlowTypeOK
    <3>7. QED
      BY <2>3, <3>4, <3>5, <3>6 DEF TakingInv, Sending
  <2>6. QED
    BY <2>4, <2>5
<1>5. ASSUME UNCHANGED <<vars, shell, electronics>>,
             \/ NoFrames' \/ ~NoFrames
      PROVE  TakingInv'
  <2>1. /\ NoneTaking' <=> NoneTaking
        /\ Pending' = Pending
    BY <1>5 DEF NoneTaking, Pending, electronics
  <2>2. UNCHANGED <<gui, todo, run, asleep, ecc, taking, linked>>
    BY <1>5 DEF vars, electronics
  <2>3. QED
    BY <1>5, <2>1, <2>2 DEF TakingInv, Sending, BeforeStop
<1>6. ASSUME NEW s \in Source, CoboSends(s) PROVE TakingInv'
  <2>1. UNCHANGED <<vars, shell, electronics, ring, mergers>> /\ ~NoneTaking
    BY <1>6 DEF CoboSends, SendFrame, NoneTaking, ringVars
  <2>2. UNCHANGED <<gui, todo, run, asleep, ecc, taking, linked, Pending>>
    BY <2>1 DEF vars, electronics, Pending
  <2>3. NoneTaking' <=> NoneTaking
    BY <2>2 DEF NoneTaking
  <2>4. QED
    BY <2>1, <2>2, <2>3 DEF TakingInv, Sending, BeforeStop
<1>7. ASSUME NEW s \in Source, ProcessFrame(s), UNCHANGED <<vars, shell, electronics>>
      PROVE  TakingInv'
  <2>1. link[s] # <<>>
    BY <1>7 DEF ProcessFrame
  <2>2. ~NoFrames
    BY <2>1 DEF NoFrames
  <2>3. QED
    BY <1>5, <1>7, <2>2
<1>8. ASSUME NEW s \in Source, MergeStep(s), UNCHANGED <<vars, shell, electronics>>
      PROVE  TakingInv'
  <2>1. ASSUME NoFrames PROVE NoFrames'
    <3>1. UNCHANGED <<link, mergers>>
      BY <1>8 DEF MergeStep
    <3>2. ASSUME NEW o \in mergers PROVE ring'[o]["data"] = ring[o]["data"]
      <4>1. o \in Source /\ "data" \in Input /\ ring[o]["data"] = <<>>
        BY <1>a, <2>1, <3>2 DEF NoFrames, Input
      <4>2. ring[s][turn[s]] # <<>> => o # s \/ turn[s] # "data"
        BY <4>1
      <4>3. QED
        BY <1>8, <4>1, <4>2, MergeSteps
    <3>3. QED
      BY <2>1, <3>1, <3>2 DEF NoFrames
  <2>2. QED
    BY <1>5, <1>8, <2>1
<1>9. CASE Configure
  <2>1. gui = "halted" /\ UNCHANGED <<gui, pathVars, taking, linked>>
    BY <1>9 DEF Configure, vars, electronics
  <2>2. NoneTaking' /\ NoFrames'
    BY <2>1 DEF TakingInv, Sending, BeforeStop, NoneTaking, NoFrames, pathVars
  <2>3. QED
    BY <1>b, <2>2
<1>10. CASE FlowGuiBegin
  <2>1. gui = "halted" /\ UNCHANGED <<pathVars, taking, linked>>
    BY <1>10, <1>a, SourceSteps, ConstantsAssumption DEF FlowGuiBegin, electronics
  <2>2. NoneTaking' /\ NoFrames'
    BY <2>1 DEF TakingInv, Sending, BeforeStop, NoneTaking, NoFrames, pathVars
  <2>3. QED
    BY <1>b, <2>2
<1>11. CASE FlowGuiEnd
  <2>1. /\ gui = "active" /\ gui' = "ending" /\ todo' = Source /\ asleep' = NoSource
        /\ UNCHANGED <<run, ecc, taking, linked>>
    BY <1>11, <1>a, SourceSteps, ConstantsAssumption DEF FlowGuiEnd, electronics
  <2>2. QED
    BY <2>1 DEF TakingInv, Sending, BeforeStop
<1>12. ASSUME NEW p \in Pipe, ShellInserts(p) PROVE TakingInv'
  <2>1. PICK c : /\ c = Head(shell[p])
                 /\ c.op \in {"begin", "end"} /\ c.source \in Source
                 /\ Pending' \subseteq Pending /\ Pending \subseteq Pending' \cup {c}
                 /\ UNCHANGED <<vars, electronics>>
    BY <1>12, InsertSteps
  <2>2. UNCHANGED <<link, mergers>> /\ \A o \in Source : ring'[o]["data"] = ring[o]["data"]
    <3>1. CASE InsertStateChangeFails
      BY <3>1 DEF InsertStateChangeFails, dataVars
    <3>2. CASE InsertStateChange(c.source, c.op, c.run)
      BY <1>a, <2>1, <3>2 DEF InsertStateChange, Commit, Input
    <3>3. QED
      BY <1>12, <2>1, <3>1, <3>2 DEF ShellInserts
  <2>3. /\ NoneTaking' <=> NoneTaking
        /\ NoFrames' <=> NoFrames
    BY <1>a, <2>1, <2>2 DEF NoneTaking, NoFrames, electronics
  <2>4. (\E d \in Pending : d.op = "stop") => \E d \in Pending' : d.op = "stop"
    BY <2>1
  <2>5. UNCHANGED <<gui, todo, run, asleep, ecc, taking, linked>>
    BY <2>1 DEF vars, electronics
  <2>6. QED
    BY <2>3, <2>4, <2>5 DEF TakingInv, Sending, BeforeStop
<1>13. ASSUME NEW p \in Pipe, ShellCommands(p) PROVE TakingInv'
  <2>1. PICK c \in Command :
           /\ c = Head(shell[p]) /\ c.server \in Server
           /\ \/ c.op = "configure" /\ gui = "halted"
              \/ c.op = "start" /\ gui = "active"
              \/ c.op = "stop" /\ BeforeStop /\ \A s \in Source : c.server = EccServer[s]
           /\ Pending' \subseteq Pending /\ Pending \subseteq Pending' \cup {c}
           /\ UNCHANGED <<vars, pathVars>>
    BY <1>13, CommandSteps
  <2>2. UNCHANGED <<gui, todo, run, asleep, link, mergers, routers, ring>> /\ (NoFrames' <=> NoFrames)
    BY <2>1 DEF vars, pathVars, NoFrames
  <2>3. CASE c.op = "configure"
    <3>1. NoneTaking /\ NoFrames
      BY <2>1, <2>3 DEF TakingInv, Sending, BeforeStop
    <3>2. EccConfigure(c.server) \/ UNCHANGED <<taking, linked>>
      BY <1>13, <2>1, <2>3 DEF ShellCommands, electronics
    <3>3. NoneTaking'
      BY <1>a, <2>1, <3>1, <3>2 DEF EccConfigure, NoneTaking
    <3>4. QED
      BY <1>b, <2>2, <3>1, <3>3
  <2>4. CASE c.op = "start"
    <3>1. EccStart(c.server) \/ UNCHANGED <<ecc, taking, linked>>
      BY <1>13, <2>1, <2>4 DEF ShellCommands, electronics
    <3>2. \A o \in linked' : taking'[EccServer[o]] # 0 =>
              taking'[EccServer[o]] = run /\ ecc'[EccServer[o]] = "running"
      BY <1>a, <2>1, <2>4, <3>1 DEF TakingInv, EccStart
    <3>3. QED
      BY <2>1, <2>2, <2>4, <3>2 DEF TakingInv, Sending, BeforeStop
  <2>5. CASE c.op = "stop"
    <3>1. CASE EccStop(c.server)
      <4>1. NoneTaking'
        BY <1>a, <2>1, <2>5, <3>1 DEF EccStop, NoneTaking
      <4>2. QED
        BY <1>b, <2>1, <2>2, <2>5, <4>1 DEF Sending, BeforeStop
    <3>2. CASE ecc[c.server] # "running" /\ UNCHANGED <<taking, linked>>
      <4>1. NoneTaking'
        BY <1>a, <2>1, <2>5, <3>2 DEF TakingInv, NoneTaking, BeforeStop
      <4>2. QED
        BY <1>b, <2>1, <2>2, <2>5, <4>1 DEF Sending, BeforeStop
    <3>3. QED
      BY <1>13, <2>1, <2>5, <3>1, <3>2 DEF ShellCommands, electronics
  <2>6. QED
    BY <2>1, <2>3, <2>4, <2>5
<1>14. CASE UNCHANGED flowVars
  <2>1. UNCHANGED <<vars, shell, electronics>> /\ (NoFrames' <=> NoFrames)
    BY <1>14 DEF flowVars, pathVars, NoFrames
  <2>2. QED
    BY <1>5, <2>1
<1>15. ASSUME NEW s \in Source, FlowData(s) PROVE TakingInv'
  BY <1>7, <1>8, <1>15 DEF FlowData
<1>16. QED
  BY <1>1, <1>2, <1>3, <1>4, <1>6, <1>9, <1>10, <1>11, <1>12, <1>13, <1>14, <1>15
     DEF FlowNext, Shell

\* DataInv is kept by every step.
LEMMA DataInvStep ==
    ASSUME Orderly, Known, ShellInv, ProcessInv, ProcessInv', TakingInv, DataInv,
           [FlowNext]_flowVars
    PROVE  DataInv'
<1>a. /\ TypeOK /\ RunInv /\ FlowTypeOK /\ routers \subseteq Source /\ mergers \subseteq Source
      /\ link \in [Source -> Seq(1 .. MaxRun)] /\ linked \subseteq Source
      /\ ring \in [Source -> [Input -> Seq(Item)]]
  BY DEF Known, FlowTypeOK, DataTypeOK, TypeOK
\* A step after which fewer frames are on their way in the same run.
<1>b. ASSUME run' = run,
             \A s \in Source : link'[s] \in {<<>>, link[s]},
             \A s \in mergers' : ring'[s]["data"] = <<>> \/ (s \in mergers /\ ring'[s]["data"] = ring[s]["data"]),
             gui' = "failed" \/ gui # "failed" \/ \A s \in Source : link'[s] = <<>>
      PROVE  DataInv'
  BY <1>b DEF DataInv
<1>1. ASSUME NEW s \in Source, FlowStart(s) PROVE DataInv'
  <2>1. gui # "failed" /\ run' = run
    BY <1>a, <1>1, SourceSteps DEF FlowStart
  <2>2. /\ \A o \in Source : link'[o] \in {<<>>, link[o]}
        /\ \A o \in mergers' : ring'[o]["data"] = <<>>
                               \/ (o \in mergers /\ ring'[o]["data"] = ring[o]["data"])
    BY <1>a, <1>1 DEF FlowStart, StartProcesses, NoItems, Input
  <2>3. QED
    BY <1>b, <2>1, <2>2
<1>2. ASSUME NEW s \in Source, FlowStop(s) PROVE DataInv'
  <2>1. /\ active' = active \ {s} /\ gui' = IF active = {s} THEN "notready" ELSE "failed"
        /\ run' = run
    BY <1>a, <1>2, SourceSteps DEF FlowStop
  <2>2. mergers' = {} /\ \A o \in Source : link'[o] \in {<<>>, link[o]}
    BY <1>2 DEF FlowStop, Kill, KillProcesses
  <2>3. active = {s} => \A o \in Source : link'[o] = <<>>
    BY <2>1 DEF ProcessInv
  <2>4. QED
    BY <1>b, <2>1, <2>2, <2>3
<1>3. ASSUME NEW s \in Source, FlowInit(s) PROVE DataInv'
  <2>1. gui # "failed" /\ run' = run
    BY <1>a, <1>3, SourceSteps DEF FlowInit
  <2>2. /\ \A o \in Source : link'[o] \in {<<>>, link[o]}
        /\ \A o \in mergers' : ring'[o]["data"] = <<>>
    BY <1>a, <1>3 DEF FlowInit, RestartProcesses, NoItems, Input
  <2>3. QED
    BY <1>b, <2>1, <2>2
<1>4. ASSUME NEW s \in Source, FlowProc(s) PROVE DataInv'
  <2>1. run' = run /\ UNCHANGED pathVars /\ gui # "failed"
    BY <1>4, ProcSteps
  <2>2. QED
    BY <2>1 DEF DataInv, pathVars
<1>5. ASSUME NEW s \in Source, CoboSends(s) PROVE DataInv'
  <2>1. UNCHANGED <<gui, run, ring, mergers>>
    BY <1>5 DEF CoboSends, SendFrame, ringVars, vars
  <2>2. ASSUME gui # "failed", NEW o \in Source, NEW k \in 1 .. Len(link'[o])
        PROVE  link'[o][k] = run
    <3>1. s \in linked /\ taking[EccServer[s]] = run
      BY <1>5, <2>2 DEF CoboSends, TakingInv
    <3>2. link' = [link EXCEPT ![s] = Append(@, run)]
      BY <1>5, <3>1 DEF CoboSends, SendFrame
    <3>3. CASE o = s
      <4>1. run \in 1 .. MaxRun
        <5>1. taking[EccServer[s]] \in 0 .. MaxRun
          BY ConstantsAssumption DEF FlowTypeOK, Known
        <5>2. QED
          BY <1>5, <3>1, <5>1, ConstantsAssumption DEF CoboSends
      <4>2. link[s] \in Seq(1 .. MaxRun) /\ link'[s] = Append(link[s], run)
        BY <1>a, <3>2
      <4>3. /\ Len(link'[s]) = Len(link[s]) + 1 /\ Len(link[s]) \in Nat
            /\ \A j \in 1 .. Len(link[s]) : link'[s][j] = link[s][j]
            /\ link'[s][Len(link[s]) + 1] = run
        BY <4>1, <4>2, D!Appended
      <4>4. k \in 1 .. Len(link[s]) \/ k = Len(link[s]) + 1
        BY <2>2, <3>3, <4>3
      <4>5. QED
        BY <2>2, <3>3, <4>3, <4>4 DEF DataInv
    <3>4. CASE o # s
      BY <1>a, <2>2, <3>2, <3>4 DEF DataInv
    <3>5. QED
      BY <3>3, <3>4
  <2>3. QED
    BY <2>1, <2>2 DEF DataInv
<1>6. ASSUME NEW s \in Source, ProcessFrame(s), UNCHANGED vars PROVE DataInv'
  <2>1. /\ UNCHANGED <<gui, run, mergers>>
        /\ s \in routers /\ link[s][1] \in 1 .. MaxRun /\ Len(link[s]) \in Nat \ {0}
        /\ Commit(s, "data", "event", link[s][1])
        /\ Len(link'[s]) = Len(link[s]) - 1
        /\ \A k \in 1 .. Len(link[s]) - 1 : link'[s][k] = link[s][k + 1]
        /\ \A o \in Source \ {s} : link'[o] = link[o]
    BY <1>6, FrameSteps DEF vars
  <2>2. ASSUME gui # "failed", NEW o \in Source, NEW k \in 1 .. Len(link'[o])
        PROVE  link'[o][k] = run
    <3>1. CASE o = s
      <4>1. k \in 1 .. Len(link[s]) - 1 /\ k + 1 \in 1 .. Len(link[s])
        BY <2>1, <2>2, <3>1
      <4>2. QED
        BY <2>1, <2>2, <3>1, <4>1 DEF DataInv
    <3>2. CASE o # s
      BY <2>1, <2>2, <3>2 DEF DataInv
    <3>3. QED
      BY <3>1, <3>2
  <2>3. ASSUME NEW o \in mergers, NEW k \in 1 .. Len(ring'[o]["data"])
        PROVE  ring'[o]["data"][k].kind = "event" /\ ring'[o]["data"][k].run = run
    <3>1. o \in Source /\ "data" \in Input /\ "event" \in ItemKind
      BY <1>a DEF Input, ItemKind
    <3>2. link[s][1] = run
      <4>1. gui # "failed" /\ 1 \in 1 .. Len(link[s])
        BY <2>1, <2>3 DEF ProcessInv
      <4>2. QED
        BY <4>1 DEF DataInv
    <3>3. CASE o = s
      <4>1. /\ Len(ring[s]["data"]) \in Nat /\ Len(ring'[s]["data"]) = Len(ring[s]["data"]) + 1
            /\ \A j \in 1 .. Len(ring[s]["data"]) : ring'[s]["data"][j] = ring[s]["data"][j]
            /\ ring'[s]["data"][Len(ring[s]["data"]) + 1].kind = "event"
            /\ ring'[s]["data"][Len(ring[s]["data"]) + 1].run = run
        <5>1. Commit(s, "data", "event", run) /\ run \in 1 .. MaxRun /\ s \in mergers
          BY <2>1, <2>3, <3>2, <3>3
        <5>2. QED
          BY <3>1, <5>1, CommitSteps
      <4>2. k \in 1 .. Len(ring[s]["data"]) \/ k = Len(ring[s]["data"]) + 1
        BY <2>3, <3>3, <4>1
      <4>3. QED
        BY <2>3, <3>3, <4>1, <4>2 DEF DataInv
    <3>4. CASE o # s
      <4>1. ring'[o]["data"] = ring[o]["data"]
        BY <2>1, <3>1, <3>4, CommitSteps
      <4>2. QED
        BY <2>3, <4>1 DEF DataInv
    <3>5. QED
      BY <3>3, <3>4
  <2>4. QED
    BY <2>1, <2>2, <2>3 DEF DataInv
<1>7. ASSUME NEW s \in Source, MergeStep(s), UNCHANGED vars PROVE DataInv'
  <2>1. UNCHANGED <<gui, run, mergers, link>>
    BY <1>7 DEF MergeStep, vars
  <2>2. ASSUME NEW o \in mergers, NEW k \in 1 .. Len(ring'[o]["data"])
        PROVE  ring'[o]["data"][k].kind = "event" /\ ring'[o]["data"][k].run = run
    <3>1. o \in Source /\ "data" \in Input
      BY <1>a DEF Input
    <3>2. CASE ring'[o]["data"] = ring[o]["data"]
      BY <2>2, <3>2 DEF DataInv
    <3>3. CASE ring'[o]["data"] # ring[o]["data"]
      <4>1. /\ o = s /\ turn[s] = "data" /\ Len(ring[o]["data"]) \in Nat \ {0}
            /\ Len(ring'[o]["data"]) = Len(ring[o]["data"]) - 1
            /\ \A j \in 1 .. Len(ring[o]["data"]) - 1 :
                  ring'[o]["data"][j] = ring[o]["data"][j + 1]
        <5>1. ring' # ring
          BY <3>3
        <5>2. o = s /\ turn[s] = "data"
          BY <1>7, <3>1, <3>3, <5>1, MergeSteps
        <5>3. /\ Len(ring[s][turn[s]]) \in Nat \ {0}
              /\ Len(ring'[s][turn[s]]) = Len(ring[s][turn[s]]) - 1
              /\ \A j \in 1 .. Len(ring[s][turn[s]]) - 1 :
                    ring'[s][turn[s]][j] = ring[s][turn[s]][j + 1]
          BY <1>7, <5>1, MergeSteps
        <5>4. QED
          BY <5>2, <5>3
      <4>2. k \in 1 .. Len(ring[o]["data"]) - 1 /\ k + 1 \in 1 .. Len(ring[o]["data"])
        BY <2>2, <4>1
      <4>3. QED
        BY <2>2, <4>1, <4>2 DEF DataInv
    <3>4. QED
      BY <3>2, <3>3
  <2>3. QED
    BY <2>1, <2>2 DEF DataInv
<1>8. CASE Configure
  BY <1>8, <1>b DEF Configure, vars, pathVars
<1>9. CASE FlowGuiBegin
  <2>1. gui = "halted" /\ UNCHANGED pathVars
    BY <1>9, <1>a, SourceSteps, ConstantsAssumption DEF FlowGuiBegin
  <2>2. NoFrames' /\ mergers' = mergers
    BY <2>1 DEF TakingInv, Sending, BeforeStop, NoFrames, pathVars
  <2>3. QED
    BY <2>2 DEF NoFrames, DataInv
<1>10. CASE FlowGuiEnd
  <2>1. gui = "active" /\ UNCHANGED <<pathVars, run>>
    BY <1>10, <1>a, SourceSteps, ConstantsAssumption DEF FlowGuiEnd
  <2>2. QED
    BY <1>b, <2>1 DEF pathVars
<1>11. ASSUME NEW p \in Pipe, ShellInserts(p) PROVE DataInv'
  <2>1. UNCHANGED <<gui, run>> /\ Head(shell[p]).source \in Source
    BY <1>11, InsertSteps DEF vars
  <2>2. UNCHANGED <<link, mergers>> /\ \A o \in Source : ring'[o]["data"] = ring[o]["data"]
    BY <1>11, InsertRings DEF Input
  <2>3. QED
    BY <1>a, <1>b, <2>1, <2>2
<1>12. ASSUME NEW p \in Pipe, ShellCommands(p) PROVE DataInv'
  BY <1>12, <1>b DEF ShellCommands, vars, pathVars
<1>13. CASE UNCHANGED flowVars
  BY <1>13, <1>b DEF flowVars, vars, pathVars
<1>14. ASSUME NEW s \in Source, FlowData(s) PROVE DataInv'
  BY <1>6, <1>7, <1>14 DEF FlowData
<1>15. QED
  BY <1>1, <1>2, <1>3, <1>4, <1>5, <1>8, <1>9, <1>10, <1>11, <1>12, <1>13, <1>14
     DEF FlowNext, Shell

-------------------------------------------------------------------------------
(* Begin and end items                                                         *)

\* A frame leaves an open run open, and a begin item opens its run.
LEMMA OpenAppend ==
    ASSUME NEW items \in Seq(Item), NEW e \in Item, NEW r
    PROVE  /\ e.kind = "event" /\ OpenIn(items, r) => OpenIn(Append(items, e), r)
           /\ e.kind = "begin" => OpenIn(Append(items, e), e.run)
<1> DEFINE n == Len(items)
           a == Append(items, e)
<1>1. /\ Len(a) = n + 1 /\ n \in Nat /\ a[n + 1] = e
      /\ \A k \in 1 .. n : a[k] = items[k]
  BY D!Appended
<1> HIDE DEF a, n
<1>2. ASSUME e.kind = "event", OpenIn(items, r) PROVE OpenIn(a, r)
  <2>1. PICK j \in 1 .. n :
            /\ items[j].kind = "begin" /\ items[j].run = r
            /\ \A m \in j + 1 .. n : items[m].kind = "event"
    BY <1>2 DEF OpenIn, n
  <2>2. j \in 1 .. Len(a) /\ a[j] = items[j]
    BY <1>1, <2>1
  <2>3. ASSUME NEW m \in j + 1 .. Len(a) PROVE a[m].kind = "event"
    <3>1. m = n + 1 \/ m \in j + 1 .. n
      BY <1>1, <2>3
    <3>2. QED
      BY <1>1, <1>2, <2>1, <3>1
  <2>4. QED
    BY <2>1, <2>2, <2>3 DEF OpenIn
<1>3. ASSUME e.kind = "begin" PROVE OpenIn(a, e.run)
  <2>1. n + 1 \in 1 .. Len(a) /\ (n + 1) + 1 .. Len(a) = {}
    BY <1>1
  <2>2. QED
    BY <1>1, <1>3, <2>1 DEF OpenIn
<1>4. QED
  BY <1>2, <1>3 DEF a

\* What a state of the GUI, or an item in the state ring, excludes.
LEMMA Waits ==
    ASSUME FlowTypeOK, ShellInv, NEW s \in Source
    PROVE  /\ BeginWaits(s) => gui = "beginning" /\ asleep = s
           /\ EndWaits(s) =>
                 gui = "halted" \/ (gui = "ending" /\ todo # Source /\ s \notin todo)
           /\ Pending = {} => ~BeginWaits(s) /\ ~EndWaits(s)
  BY DEF ShellInv, Awaited, BeginWaits, EndWaits, BeforeStop

\* A step that leaves the run, the commands and the ring of a source alone.
LEMMA StateFrame ==
    ASSUME NEW s \in Source, StateInv(s),
           UNCHANGED <<gui, todo, run, asleep>>,
           ring'[s]["state"] = ring[s]["state"], out'[s] = out[s],
           failed \subseteq failed',
           BeginWaits(s)' <=> BeginWaits(s), EndWaits(s)' <=> EndWaits(s)
    PROVE  StateInv(s)'
<1>1. \A r : Settled(s, r) => Settled(s, r)'
  BY DEF Settled, Lost
<1>2. \A k : /\ BeginItem(s, k) => BeginItem(s, k)'
             /\ EndItem(s, k) => EndItem(s, k)'
  BY <1>1 DEF BeginItem, EndItem
<1>3. HasBegun(s)' <=> HasBegun(s)
  BY DEF HasBegun
<1>4. QED
  BY <1>1, <1>2, <1>3 DEF StateInv

\* The items that are left behind when a run is over close it, whatever begins next.
LEMMA StateEnds ==
    ASSUME NEW s \in Source,
           ring'[s]["state"] = ring[s]["state"], out'[s] = out[s], failed' = failed,
           ~EndWaits(s)',
           \A k \in 1 .. Len(ring[s]["state"]) :
               /\ EndItem(s, k)
               /\ \/ /\ gui' = "beginning" /\ s \in todo'
                     /\ ring[s]["state"][k].run < run'
                  \/ /\ gui' = "ending" /\ s \notin todo'
                     /\ ring[s]["state"][k].run = run'
                  \/ gui' = "halted" /\ ring[s]["state"][k].run = run'
    PROVE  \A k \in 1 .. Len(ring'[s]["state"]) : EndItem(s, k)'
<1>1. \A r : Settled(s, r) => Settled(s, r)'
  BY DEF Settled, Lost
<1>2. QED
  BY <1>1 DEF EndItem

\* A run that is open in the output is still open when the provider goes on.
LEMMA StateSettled ==
    ASSUME NEW s \in Source, Settled(s, run), run' = run,
           ring'[s]["state"] = <<>>, out'[s] = out[s], failed' = failed
    PROVE  StateInv(s)'
<1>1. Settled(s, run)'
  BY DEF Settled, Lost
<1>2. QED
  BY <1>1 DEF StateInv

\* The procs of begin and end, and the clicks before them.
LEMMA StateProvider ==
    ASSUME Orderly, Known, ShellInv, ShellInv', StateRingInv,
           \/ Configure \/ FlowGuiBegin \/ FlowGuiEnd
           \/ \E s \in Source : FlowProc(s)
    PROVE  StateRingInv'
<1>a. TypeOK /\ RunInv /\ FlowTypeOK /\ mergers \subseteq Source
  BY DEF Known, FlowTypeOK, DataTypeOK
<1>b. UNCHANGED <<ring, out, failed, mergers>>
  <2>1. ASSUME NEW s \in Source, FlowProc(s) PROVE UNCHANGED <<ring, out, failed, mergers>>
    BY <2>1, ProcSteps DEF pathVars
  <2>2. QED
    BY <2>1 DEF Configure, FlowGuiBegin, FlowGuiEnd, pathVars
<1>c. Waited \/ RunDown => Pending = {}
  BY <1>a, NoneWaits DEF Waited, RunDown, Orderly
<1> SUFFICES ASSUME NEW o \in mergers PROVE StateInv(o)'
  BY <1>b DEF StateRingInv
<1>d. o \in Source /\ StateInv(o)
  BY <1>a DEF StateRingInv
\* A source that has begun its run.
<1>e. ASSUME HasBegun(o), run' = run PROVE StateInv(o)'
  BY <1>b, <1>d, <1>e, StateSettled DEF StateInv
<1>1. CASE Configure
  <2>1. /\ gui = "halted" /\ UNCHANGED <<gui, todo, run, asleep>> /\ Pending = {}
        /\ daqcontrolfd[PanelSource] \in Pipe
    BY <1>1, <1>a, <1>c DEF Configure, vars, CanWrite, TypeOK
  <2>2. PICK c \in Command : /\ c.op = "configure"
                             /\ Put(daqcontrolfd[PanelSource], c)
    BY <1>1, Commands, RunDataFlowAssumption DEF Configure
  <2>3. Pending' = {c}
    BY <1>a, <2>1, <2>2, PutPending DEF FlowTypeOK
  <2>4. /\ ~BeginWaits(o) /\ ~BeginWaits(o)' /\ ~EndWaits(o) /\ ~EndWaits(o)'
    BY <2>1, <2>2, <2>3 DEF BeginWaits, EndWaits
  <2>5. QED
    BY <1>b, <1>d, <2>1, <2>4, StateFrame
<1>2. CASE FlowGuiBegin
  <2>1. /\ gui = "halted" /\ gui' = "beginning" /\ run' = run + 1 /\ todo' = Source
        /\ asleep' = NoSource /\ Pending = {} /\ Pending' = {}
    BY <1>2, <1>a, <1>c, SourceSteps, ConstantsAssumption DEF FlowGuiBegin, Pending
  <2>2. ~EndWaits(o)'
    BY <2>1 DEF EndWaits
  <2>3. \A k \in 1 .. Len(ring[o]["state"]) : EndItem(o, k) /\ ring[o]["state"][k].run < run'
    BY <1>a, <1>d, <2>1 DEF StateInv, BeginItem, EndItem, TypeOK
  <2>4. \A k \in 1 .. Len(ring'[o]["state"]) : EndItem(o, k)'
    BY <1>b, <1>d, <2>1, <2>2, <2>3, StateEnds
  <2>5. ~HasBegun(o)'
    BY <1>d, <2>1, <2>2 DEF HasBegun
  <2>6. QED
    BY <1>d, <2>1, <2>4, <2>5, ConstantsAssumption DEF StateInv
<1>3. CASE FlowGuiEnd
  <2>1. gui = "active" /\ run' = run
    BY <1>3, <1>a, SourceSteps, ConstantsAssumption DEF FlowGuiEnd
  <2>2. QED
    BY <1>e, <2>1 DEF HasBegun
<1>4. ASSUME NEW s \in Source, EmitBegin(s), Put(statefd[s], StateCommand("begin", s))
      PROVE  StateInv(o)'
  <2>1. /\ gui = "beginning" /\ asleep = NoSource /\ asleep' = s /\ s \in todo
        /\ runNumber'[s] = run /\ UNCHANGED <<gui, todo, run>> /\ statefd[s] \in Pipe
    BY <1>a, <1>4, BeginSteps DEF CanWrite, TypeOK
  <2>2. PICK c \in Command : /\ c = [op |-> "begin", source |-> s, run |-> run]
                             /\ c = StateCommand("begin", s)
    BY <2>1, Commands
  <2>3. Pending = {} /\ Pending' = {c}
    BY <1>a, <1>4, <2>1, <2>2, NoneAwaited, PutPending DEF FlowTypeOK
  <2>4. /\ ~EndWaits(o) /\ ~EndWaits(o)'
        /\ o = s => BeginWaits(o)'
    BY <2>1, <2>2, <2>3 DEF BeginWaits, EndWaits
  <2>5. CASE HasBegun(o)
    BY <1>e, <2>1, <2>5
  <2>6. CASE ~HasBegun(o)
    <3>1. ~HasBegun(o)'
      BY <2>1, <2>4, <2>6 DEF HasBegun
    <3>2. \A k \in 1 .. Len(ring[o]["state"]) :
              EndItem(o, k) /\ o \in todo /\ ring[o]["state"][k].run < run
      BY <1>d, <2>1, ConstantsAssumption DEF StateInv, BeginItem, EndItem
    <3>3. \A k \in 1 .. Len(ring'[o]["state"]) : EndItem(o, k)'
      BY <1>b, <1>d, <2>1, <2>4, <3>2, StateEnds
    <3>4. QED
      BY <2>1, <2>4, <3>1, <3>3 DEF StateInv
  <2>7. QED
    BY <2>5, <2>6
<1>5. ASSUME NEW s \in Source, BeginPercolated(s), LeaveStartToOthers(s), UNCHANGED shell
      PROVE  StateInv(o)'
  <2>1. /\ gui = "beginning" /\ asleep = s /\ gui' = gui /\ todo' = todo \ {s}
        /\ asleep' = NoSource /\ run' = run
    BY <1>a, <1>5, BeginSteps
  <2>2. Pending = {} /\ Pending' = {}
    BY <1>a, <1>5, NoneWaits DEF BeginPercolated, Orderly, Pending
  <2>3. ~EndWaits(o) /\ ~EndWaits(o)' /\ ~BeginWaits(o)
    BY <2>2 DEF EndWaits, BeginWaits
  <2>4. CASE o = s
    <3>1. ring[o]["state"] = <<>>
      BY <1>5, <2>4 DEF BeginPercolated, Orderly
    <3>2. 1 .. Len(ring[o]["state"]) = {}
      BY <3>1
    <3>3. Settled(o, run)
      BY <1>d, <2>1, <2>3, <2>4, <3>2 DEF StateInv
    <3>4. QED
      BY <1>b, <1>d, <2>1, <3>1, <3>3, StateSettled
  <2>5. CASE o # s /\ o \notin todo
    BY <1>e, <2>1, <2>5 DEF HasBegun
  <2>6. CASE o # s /\ o \in todo
    <3>1. ~HasBegun(o)'
      BY <1>d, <2>1, <2>3, <2>6 DEF HasBegun
    <3>2. \A k \in 1 .. Len(ring[o]["state"]) :
              EndItem(o, k) /\ o \in todo /\ ring[o]["state"][k].run < run
      BY <1>d, <2>1, <2>6 DEF StateInv, BeginItem, EndItem
    <3>3. \A k \in 1 .. Len(ring'[o]["state"]) : EndItem(o, k)'
      BY <1>b, <1>d, <2>1, <2>3, <2>6, <3>2, StateEnds
    <3>4. QED
      BY <1>d, <2>1, <3>1, <3>3, ConstantsAssumption DEF StateInv
  <2>7. QED
    BY <2>4, <2>5, <2>6
<1>6. ASSUME NEW s \in Source, BeginPercolated(s), StartAcquisition(s) PROVE StateInv(o)'
  <2>1. gui = "beginning" /\ asleep = s /\ todo = {s} /\ run' = run
    BY <1>a, <1>6, BeginSteps
  <2>2. CASE o = s
    <3>1. ring[o]["state"] = <<>> /\ ~BeginWaits(o)
      BY <1>a, <1>d, <1>6, <2>2, NoneWaits, Waits DEF BeginPercolated, Orderly
    <3>2. 1 .. Len(ring[o]["state"]) = {}
      BY <3>1
    <3>3. Settled(o, run)
      BY <1>d, <2>1, <2>2, <3>1, <3>2 DEF StateInv
    <3>4. QED
      BY <1>b, <1>d, <2>1, <3>1, <3>3, StateSettled
  <2>3. CASE o # s
    BY <1>e, <2>1, <2>3 DEF HasBegun
  <2>4. QED
    BY <2>2, <2>3
<1>7. ASSUME NEW s \in Source, StopAcquisition(s) \/ EmitEndRun(s) PROVE StateInv(o)'
  <2>1. gui = "ending" /\ todo = Source /\ run' = run
    BY <1>a, <1>7, EndSteps DEF BeforeStop
  <2>2. QED
    BY <1>d, <1>e, <2>1 DEF HasBegun
<1>8. ASSUME NEW s \in Source, FlowEndStopped(s) PROVE StateInv(o)'
  <2>1. /\ gui = "ending" /\ s \in todo /\ todo # Source /\ todo' = todo \ {s}
        /\ gui' \in {"ending", "halted"} /\ runNumber'[s] = run /\ run' = run
        /\ statefd[s] \in Pipe
    BY <1>a, <1>8, EndSteps DEF FlowEndStopped, CanWrite, TypeOK
  <2>2. PICK c \in Command : /\ c = [op |-> "end", source |-> s, run |-> run]
                             /\ c = StateCommand("end", s)
    BY <2>1, Commands
  <2>3. Pending' = Pending \cup {c}
    BY <1>8, <1>a, <2>1, <2>2, PutPending DEF FlowEndStopped, FlowTypeOK
  <2>4. CASE HasBegun(o)
    BY <1>e, <2>1, <2>4
  <2>5. CASE ~HasBegun(o)
    <3>1. o \notin todo /\ ~EndWaits(o)
      BY <2>1, <2>5 DEF HasBegun
    <3>2. ~EndWaits(o)'
      BY <2>1, <2>2, <2>3, <3>1 DEF EndWaits
    <3>3. ~HasBegun(o)'
      BY <2>1, <3>1, <3>2 DEF HasBegun
    <3>4. \A k \in 1 .. Len(ring[o]["state"]) : EndItem(o, k) /\ ring[o]["state"][k].run = run
      BY <1>d, <2>1 DEF StateInv, BeginItem, EndItem
    <3>5. \A k \in 1 .. Len(ring'[o]["state"]) : EndItem(o, k)'
      BY <1>b, <1>d, <2>1, <3>1, <3>2, <3>4, StateEnds
    <3>6. QED
      BY <2>1, <3>3, <3>5 DEF StateInv
  <2>6. QED
    BY <2>4, <2>5
<1>9. ASSUME NEW s \in Source, FlowProc(s) PROVE StateInv(o)'
  <2>1. ~FindStarted(s)
    BY <1>a, BeginSteps
  <2>2. QED
    BY <1>4, <1>5, <1>6, <1>7, <1>8, <1>9, <2>1 DEF FlowProc, FlowSleep, FlowWake
<1>10. QED
  BY <1>1, <1>2, <1>3, <1>9

\* insertstatechange: an item that was asked for goes into the state ring, or is lost.
LEMMA StateInsert ==
    ASSUME Known, ShellInv, OutInv, StateRingInv, NEW p \in Pipe, ShellInserts(p)
    PROVE  StateRingInv'
<1>1. PICK c :
         /\ c = Head(shell[p]) /\ c \in Pending /\ c \notin Pending'
         /\ c.source \in Source /\ c = [op |-> c.op, source |-> c.source, run |-> run]
         /\ \/ c.op = "begin" /\ gui = "beginning" /\ c.source = asleep
            \/ c.op = "end" /\ gui = "halted"
            \/ c.op = "end" /\ gui = "ending" /\ todo # Source /\ c.source \notin todo
         /\ Pending' \subseteq Pending /\ Pending \subseteq Pending' \cup {c}
         /\ UNCHANGED <<vars, electronics, frames>>
  BY InsertSteps
<1>2. PICK s \in Source : s = c.source
  BY <1>1
<1>0. PICK n : n = Len(ring[s]["state"])
  OBVIOUS
<1>3. /\ UNCHANGED <<mergers, out>>
      /\ \A o \in Source, i \in Input : o # s \/ i # "state" => ring'[o][i] = ring[o][i]
      /\ \/ UNCHANGED ring /\ failed' = failed \cup {c}
         \/ /\ UNCHANGED failed
            /\ s \notin mergers => UNCHANGED ring
            /\ s \in mergers =>
                  /\ n \in Nat /\ Len(ring'[s]["state"]) = n + 1
                  /\ \A k \in 1 .. n : ring'[s]["state"][k] = ring[s]["state"][k]
                  /\ ring'[s]["state"][n + 1].kind = c.op
                  /\ ring'[s]["state"][n + 1].run = run
  BY <1>0, <1>1, <1>2, InsertRings
<1>4. UNCHANGED <<gui, todo, run, asleep>> /\ "state" \in Input /\ mergers \subseteq Source
  BY <1>1 DEF vars, Input, Known, FlowTypeOK, DataTypeOK
<1> SUFFICES ASSUME NEW o \in mergers PROVE StateInv(o)'
  BY <1>3 DEF StateRingInv
<1>5. o \in Source /\ StateInv(o) /\ failed \subseteq failed'
  BY <1>3, <1>4 DEF StateRingInv
<1>6. \A r : Settled(o, r) => Settled(o, r)'
  BY <1>3, <1>5 DEF Settled, Lost
<1>7. CASE o # s
  <2>1. (BeginWaits(o)' <=> BeginWaits(o)) /\ (EndWaits(o)' <=> EndWaits(o))
    BY <1>1, <1>2, <1>4, <1>7 DEF BeginWaits, EndWaits
  <2>2. QED
    BY <1>3, <1>4, <1>5, <1>7, <2>1, StateFrame
<1>8. CASE o = s /\ c.op = "begin"
  <2>1. /\ gui = "beginning" /\ asleep = o /\ BeginWaits(o) /\ ~BeginWaits(o)'
        /\ ~EndWaits(o) /\ ~EndWaits(o)'
    BY <1>1, <1>2, <1>4, <1>5, <1>8, Waits DEF BeginWaits, EndWaits, Known
  <2>2. \A k \in 1 .. n : EndItem(o, k)
    BY <1>0, <1>5, <1>8, <2>1 DEF StateInv, BeginItem
  <2>3. \A k \in 1 .. n : EndItem(o, k) /\ ring'[o]["state"][k] = ring[o]["state"][k]
                          => EndItem(o, k)'
    BY <1>0, <1>3, <1>4, <1>6, <1>8, <2>1 DEF EndItem
  <2>4. HasBegun(o)' => HasBegun(o)
    BY <1>4, <2>1 DEF HasBegun
  <2>5. CASE UNCHANGED ring /\ failed' = failed \cup {c}
    <3>1. Settled(o, run)'
      BY <1>1, <1>2, <1>4, <1>8, <2>5 DEF Settled, Lost
    <3>2. QED
      BY <1>0, <1>4, <1>5, <1>8, <2>2, <2>3, <2>4, <2>5, <3>1 DEF StateInv
  <2>6. CASE /\ n \in Nat /\ Len(ring'[s]["state"]) = n + 1
             /\ \A k \in 1 .. n : ring'[s]["state"][k] = ring[s]["state"][k]
             /\ ring'[s]["state"][n + 1].kind = c.op /\ ring'[s]["state"][n + 1].run = run
    <3>1. /\ n \in Nat /\ Len(ring'[o]["state"]) = n + 1
          /\ \A k \in 1 .. n : ring'[o]["state"][k] = ring[o]["state"][k]
          /\ ring'[o]["state"][n + 1].kind = "begin" /\ ring'[o]["state"][n + 1].run = run
      BY <1>8, <2>6
    <3>2. BeginItem(o, n + 1)'
      BY <1>4, <2>1, <3>1 DEF BeginItem
    <3>3. \A k \in 1 .. n + 1 : BeginItem(o, k)' \/ EndItem(o, k)'
      <4>1. \A k \in 1 .. n + 1 : k \in 1 .. n \/ k = n + 1
        BY <3>1
      <4>2. QED
        BY <2>2, <2>3, <3>1, <3>2, <4>1
    <3>4. ~HasBegun(o)
      <4>1. asleep \in todo
        BY <1>2, <1>8, <2>1, ConstantsAssumption DEF Known, RunInv, CallInv
      <4>2. QED
        BY <2>1, <4>1 DEF HasBegun
    <3>5. n + 1 \in 1 .. n + 1
      BY <3>1
    <3>6. QED
      BY <2>4, <3>1, <3>2, <3>3, <3>4, <3>5 DEF StateInv
  <2>7. QED
    BY <1>3, <1>8, <2>5, <2>6
<1>9. CASE o = s /\ c.op = "end"
  <2>1. EndWaits(o) /\ ~EndWaits(o)' /\ (gui = "halted" \/ (gui = "ending" /\ o \notin todo))
    BY <1>1, <1>2, <1>4, <1>9 DEF EndWaits
  <2>2. ring[o]["state"] = <<>> /\ Settled(o, run) /\ n = 0
    BY <1>0, <1>5, <1>9, <2>1 DEF StateInv, HasBegun
  <2>3. ~HasBegun(o)'
    BY <1>4, <2>1 DEF HasBegun
  <2>4. CASE UNCHANGED ring
    BY <1>4, <1>5, <2>1, <2>2, <2>3, <2>4 DEF StateInv
  <2>5. CASE /\ Len(ring'[s]["state"]) = 1
             /\ ring'[s]["state"][1].kind = "end" /\ ring'[s]["state"][1].run = run
    <3>1. \A j \in 1 .. Len(out[o]) : out[o][j].run <= run
      BY <1>5 DEF OutInv
    <3>2. EndItem(o, 1)'
      BY <1>3, <1>4, <1>6, <1>9, <2>1, <2>2, <2>5, <3>1 DEF EndItem
    <3>3. \A k \in 1 .. Len(ring'[o]["state"]) : k = 1
      BY <1>9, <2>5
    <3>4. QED
      BY <1>4, <2>1, <2>3, <3>2, <3>3 DEF StateInv
  <2>6. QED
    BY <1>3, <1>9, <2>2, <2>4, <2>5
<1>10. QED
  BY <1>1, <1>7, <1>8, <1>9

\* ringmerge: a begin item opens its run in the output, an end item leaves the state
\* ring, and frames come only while the run is open.
LEMMA StateMerge ==
    ASSUME Known, ShellInv, ProcessInv, TakingInv, DataInv, StateRingInv,
           NEW s \in Source, MergeStep(s), UNCHANGED <<vars, shell, failed>>
    PROVE  StateRingInv'
<1>1. /\ UNCHANGED <<gui, todo, run, asleep, mergers, Pending>>
      /\ "state" \in Input /\ "data" \in Input /\ mergers \subseteq Source
  BY DEF vars, MergeStep, Pending, Input, Known, FlowTypeOK, DataTypeOK
<1> SUFFICES ASSUME NEW o \in mergers PROVE StateInv(o)'
  BY <1>1 DEF StateRingInv
<1>2. o \in Source /\ StateInv(o)
  BY <1>1 DEF StateRingInv
<1>3. (BeginWaits(o)' <=> BeginWaits(o)) /\ (EndWaits(o)' <=> EndWaits(o))
  BY <1>1 DEF BeginWaits, EndWaits
<1>4. HasBegun(o)' <=> HasBegun(o)
  BY <1>1, <1>3 DEF HasBegun
<1>5. CASE ring'[o]["state"] = ring[o]["state"] /\ out'[o] = out[o]
  BY <1>1, <1>2, <1>3, <1>5, StateFrame
<1>6. CASE ~(ring'[o]["state"] = ring[o]["state"] /\ out'[o] = out[o])
  <2> DEFINE q == ring[s][turn[s]]
  <2>1. /\ ~UNCHANGED <<ring, out>> /\ o = s
    BY <1>1, <1>2, <1>6, MergeSteps
  <2>2. /\ turn[s] \in Input /\ q # <<>> /\ Len(q) \in Nat \ {0} /\ q[1] \in Item
        /\ out'[s] = Append(out[s], q[1])
        /\ Len(ring'[s][turn[s]]) = Len(q) - 1
        /\ \A k \in 1 .. Len(q) - 1 : ring'[s][turn[s]][k] = q[k + 1]
        /\ \A i \in Input : i # turn[s] => ring'[s][i] = ring[s][i]
    BY <2>1, MergeSteps
  <2>3. out[s] \in Seq(Item)
    BY DEF Known, FlowTypeOK, DataTypeOK
  <2>4. CASE turn[s] = "data"
    <3>1. q[1].kind = "event" /\ q[1].run = run /\ ring'[o]["state"] = ring[o]["state"]
      BY <1>1, <2>1, <2>2, <2>4 DEF DataInv
    <3>2. \A r : Settled(o, r) => Settled(o, r)'
      BY <2>1, <2>2, <2>3, <3>1, OpenAppend DEF Settled, Lost
    <3>3. gui # "beginning"
      <4>1. ~NoFrames
        BY <1>1, <2>1, <2>2, <2>4 DEF NoFrames
      <4>2. QED
        BY <4>1 DEF TakingInv, Sending, BeforeStop
    <3>4. ASSUME NEW k \in 1 .. Len(ring[o]["state"]) PROVE EndItem(o, k)'
      <4>1. EndItem(o, k) /\ ring[o]["state"][k].run = run
        BY <1>2, <3>3, <3>4 DEF StateInv, BeginItem, EndItem
      <4>2. \A j \in 1 .. Len(out'[o]) : out'[o][j].run <= run
        <5>1. /\ Len(out'[o]) = Len(out[o]) + 1 /\ Len(out[o]) \in Nat
              /\ \A j \in 1 .. Len(out[o]) : out'[o][j] = out[o][j]
              /\ out'[o][Len(out[o]) + 1] = q[1]
          BY <2>1, <2>2, <2>3, D!Appended
        <5>2. \A j \in 1 .. Len(out'[o]) : j \in 1 .. Len(out[o]) \/ j = Len(out[o]) + 1
          BY <5>1
        <5>3. run <= run
          BY DEF Known, FlowTypeOK, TypeOK
        <5>4. QED
          BY <3>1, <4>1, <5>1, <5>2, <5>3 DEF EndItem
      <4>3. QED
        BY <1>1, <1>3, <3>1, <3>2, <4>1, <4>2 DEF EndItem
    <3>5. QED
      BY <1>1, <1>2, <1>4, <3>1, <3>2, <3>3, <3>4 DEF StateInv
  <2>5. CASE turn[s] = "state"
    <3>0. /\ Len(ring'[o]["state"]) = Len(q) - 1 /\ Len(q) \in Nat
          /\ \A k \in 1 .. Len(q) - 1 : ring'[o]["state"][k] = q[k + 1]
      <4> HIDE DEF q
      <4>1. QED
        BY <2>1, <2>2, <2>5
    <3>1. ~HasBegun(o) /\ 1 \in 1 .. Len(q) /\ q = ring[o]["state"]
      BY <1>2, <2>1, <2>2, <2>5 DEF StateInv
    <3>2. CASE BeginItem(o, 1)
      <4>1. OpenIn(out'[s], q[1].run) /\ q[1].run = run
        BY <2>1, <2>2, <2>3, <2>5, <3>2, OpenAppend DEF BeginItem
      <4>2. Settled(o, run)'
        BY <1>1, <2>1, <4>1 DEF Settled
      <4>3. 1 .. Len(ring'[o]["state"]) = {}
        BY <2>1, <2>2, <2>5, <3>2 DEF BeginItem
      <4>4. QED
        BY <1>1, <1>4, <3>1, <4>2, <4>3 DEF StateInv
    <3>3. CASE EndItem(o, 1)
      <4>1. ASSUME NEW k \in 1 .. Len(ring'[o]["state"]) PROVE BeginItem(o, k)'
        <5>1. /\ k + 1 \in 1 .. Len(q) /\ k + 1 # 1 /\ ring'[o]["state"][k] = q[k + 1]
              /\ Len(ring'[o]["state"]) = Len(q) - 1
          <6> HIDE DEF q
          <6>1. k \in 1 .. Len(q) - 1
            BY <3>0, <4>1
          <6>2. QED
            BY <3>0, <6>1
        <5>2. BeginItem(o, k + 1)
          BY <1>2, <3>1, <5>1 DEF StateInv, EndItem
        <5>3. k = Len(ring'[o]["state"])
          <6>1. k + 1 = Len(q) /\ k \in Nat
            BY <3>1, <4>1, <5>2 DEF BeginItem
          <6> HIDE DEF q
          <6>2. QED
            BY <3>0, <6>1
        <5>4. QED
          BY <1>1, <1>3, <3>1, <5>1, <5>2, <5>3 DEF BeginItem
      <4>2. ASSUME gui = "beginning", asleep = o
            PROVE  \/ BeginWaits(o)' \/ Settled(o, run)'
                   \/ \E k \in 1 .. Len(ring'[o]["state"]) : BeginItem(o, k)'
        <5>1. CASE BeginWaits(o)
          BY <1>3, <5>1
        <5>2. CASE Settled(o, run)
          <6>1. ring[o]["state"][1].run < run /\ ring[o]["state"][1].run \in Nat
            BY <2>1, <2>2, <2>5, <3>3, <4>2 DEF EndItem, Item
          <6>2. ~OpenIn(out[o], run)
            <7>1. ASSUME NEW j \in 1 .. Len(out[o]), out[o][j].run = run PROVE FALSE
              <8>1. run <= ring[o]["state"][1].run
                BY <3>3, <7>1 DEF EndItem
              <8>2. QED
                BY <6>1, <8>1 DEF Known, FlowTypeOK, TypeOK
            <7>2. QED
              BY <7>1 DEF OpenIn
          <6>3. Lost(o, "begin", run)
            BY <5>2, <6>2 DEF Settled
          <6>4. QED
            BY <1>1, <6>3 DEF Settled, Lost
        <5>3. ASSUME NEW k \in 1 .. Len(q), BeginItem(o, k)
              PROVE  \E j \in 1 .. Len(ring'[o]["state"]) : BeginItem(o, j)'
          <6>1. k # 1
            BY <3>1, <3>3, <5>3 DEF BeginItem, EndItem
          <6>2. k - 1 \in 1 .. Len(ring'[o]["state"])
            BY <2>1, <2>2, <2>5, <5>3, <6>1
          <6>3. QED
            BY <4>1, <6>2
        <5>4. QED
          BY <1>2, <3>1, <4>2, <5>1, <5>2, <5>3 DEF StateInv
      <4>3. QED
        BY <1>1, <1>4, <3>1, <4>1, <4>2 DEF StateInv
    <3>4. QED
      BY <1>2, <3>1, <3>2, <3>3 DEF StateInv
  <2>6. QED
    BY <2>2, <2>4, <2>5 DEF Input
<1>7. QED
  BY <1>5, <1>6

\* StateRingInv is kept by every step.
LEMMA StateRingInvStep ==
    ASSUME Orderly, Known, ShellInv, ShellInv', ProcessInv, TakingInv, DataInv, OutInv,
           StateRingInv, [FlowNext]_flowVars
    PROVE  StateRingInv'
<1>a. /\ TypeOK /\ RunInv /\ FlowTypeOK /\ mergers \subseteq Source
      /\ ring \in [Source -> [Input -> Seq(Item)]]
  BY DEF Known, FlowTypeOK, DataTypeOK
<1>b. Waited => \A p \in Pipe : shell[p] = <<>>
  BY <1>a, NoneWaits DEF Waited, Orderly
<1>c. ASSUME \A p \in Pipe : shell'[p] = <<>>, NEW s \in Source, gui' \in {"notready", "halted"},
             ring'[s]["state"] = <<>>
      PROVE  StateInv(s)'
  <2>1. Pending' = {}
    BY <1>c, ShellsEmptied
  <2>2. ~HasBegun(s)'
    BY <1>c, <2>1 DEF HasBegun, EndWaits
  <2>3. QED
    BY <1>c, <2>2 DEF StateInv
<1>1. ASSUME NEW s \in Source, FlowStart(s) PROVE StateRingInv'
  <2>1. gui = "notready" /\ gui' \in {"notready", "halted"}
    BY <1>a, <1>1, SourceSteps DEF FlowStart
  <2>2. \A p \in Pipe : shell'[p] = <<>>
    BY <1>a, <1>1, <2>1, NoneAwaited, ClosePending DEF FlowStart
  <2>3. /\ mergers' = mergers \cup {s} /\ ring'[s]["state"] = <<>>
        /\ \A o \in Source \ {s} : ring'[o] = ring[o]
    BY <1>a, <1>1 DEF FlowStart, StartProcesses, NoItems, Input
  <2>4. ASSUME NEW o \in mergers PROVE ring[o]["state"] = <<>>
    <3>1. o \in Source /\ StateInv(o) /\ ring[o]["state"] \in Seq(Item)
      BY <1>a, <2>4 DEF StateRingInv, Input
    <3>2. 1 \notin 1 .. Len(ring[o]["state"])
      BY <2>1, <3>1 DEF StateInv, BeginItem, EndItem
    <3>3. QED
      BY <3>1, <3>2, Shortened
  <2>5. \A o \in mergers' : o \in Source /\ ring'[o]["state"] = <<>>
    BY <1>a, <2>3, <2>4
  <2>6. QED
    BY <1>c, <2>1, <2>2, <2>5 DEF StateRingInv
<1>2. ASSUME NEW s \in Source, FlowStop(s) PROVE StateRingInv'
  BY <1>2 DEF FlowStop, Kill, KillProcesses, StateRingInv
<1>3. ASSUME NEW s \in Source, FlowInit(s) PROVE StateRingInv'
  <2>1. gui' = "halted"
    BY <1>a, <1>3, SourceSteps DEF FlowInit
  <2>2. \A p \in Pipe : shell'[p] = <<>>
    BY <1>3, <1>b, ClosePending DEF FlowInit
  <2>3. mergers' = {s} /\ ring'[s]["state"] = <<>>
    BY <1>3 DEF FlowInit, RestartProcesses, NoItems, Input
  <2>4. QED
    BY <1>c, <2>1, <2>2, <2>3 DEF StateRingInv
\* A step that leaves the state rings and the commands for them alone.
<1>4. ASSUME UNCHANGED <<gui, todo, run, asleep, mergers, out, failed>>,
             \A o \in mergers : ring'[o]["state"] = ring[o]["state"],
             \A c : c.op \in {"begin", "end"} => (c \in Pending' <=> c \in Pending)
      PROVE  StateRingInv'
  <2> SUFFICES ASSUME NEW o \in mergers PROVE StateInv(o)'
    BY <1>4 DEF StateRingInv
  <2>1. (BeginWaits(o)' <=> BeginWaits(o)) /\ (EndWaits(o)' <=> EndWaits(o))
    BY <1>4 DEF BeginWaits, EndWaits
  <2>2. o \in Source /\ StateInv(o)
    BY <1>a DEF StateRingInv
  <2>3. QED
    BY <1>4, <2>1, <2>2, StateFrame
<1>5. ASSUME NEW s \in Source, CoboSends(s) PROVE StateRingInv'
  <2>1. UNCHANGED <<gui, todo, run, asleep, mergers, out, failed, ring, Pending>>
    BY <1>5 DEF CoboSends, SendFrame, vars, ringVars, Pending
  <2>2. QED
    BY <1>4, <2>1
<1>6. ASSUME NEW s \in Source, ProcessFrame(s), UNCHANGED <<vars, shell, failed>>
      PROVE  StateRingInv'
  <2>1. UNCHANGED <<gui, todo, run, asleep, mergers, out, failed, Pending>>
    BY <1>6 DEF ProcessFrame, vars, Pending
  <2>2. \A o \in mergers : ring'[o]["state"] = ring[o]["state"]
    <3>1. PICK r \in 1 .. MaxRun : Commit(s, "data", "event", r)
      BY <1>6, FrameSteps
    <3>2. "data" \in Input /\ "state" \in Input /\ "event" \in ItemKind
      BY DEF Input, ItemKind
    <3>3. \A o \in Source, i \in Input : o # s \/ i # "data" => ring'[o][i] = ring[o][i]
      BY <3>1, <3>2, CommitSteps
    <3>4. QED
      BY <1>a, <3>2, <3>3
  <2>3. QED
    BY <1>4, <2>1, <2>2
<1>7. ASSUME NEW s \in Source, FlowData(s) PROVE StateRingInv'
  BY <1>6, <1>7, StateMerge DEF FlowData
<1>8. ASSUME NEW p \in Pipe, ShellCommands(p) PROVE StateRingInv'
  <2>1. PICK c : /\ c.op \notin {"begin", "end"}
                 /\ Pending' \subseteq Pending /\ Pending \subseteq Pending' \cup {c}
                 /\ UNCHANGED <<vars, pathVars, failed>>
    BY <1>8, CommandSteps
  <2>2. UNCHANGED <<gui, todo, run, asleep, mergers, out, failed, ring>>
    BY <2>1 DEF vars, pathVars
  <2>3. QED
    BY <1>4, <2>1, <2>2
<1>9. CASE UNCHANGED flowVars
  <2>1. UNCHANGED <<gui, todo, run, asleep, mergers, out, failed, ring, Pending>>
    BY <1>9 DEF flowVars, vars, pathVars, Pending
  <2>2. QED
    BY <1>4, <2>1
<1>10. QED
  BY <1>1, <1>2, <1>3, <1>5, <1>7, <1>8, <1>9, StateProvider, StateInsert DEF FlowNext, Shell

-------------------------------------------------------------------------------
(* The output                                                                  *)

\* An item that is not of an earlier run than those before it, and does not open a
\* run, closes or continues the run that is open.
LEMMA OutAppend ==
    ASSUME Known, OutInv, NEW s \in Source, NEW e \in Item,
           out'[s] = Append(out[s], e), \A o \in Source \ {s} : out'[o] = out[o],
           UNCHANGED <<run, failed>>,
           e.run <= run, \A k \in 1 .. Len(out[s]) : out[s][k].run <= e.run,
           e.kind # "begin" => Settled(s, e.run)
    PROVE  OutInv'
<1> DEFINE In(kind) ==
        \A o \in Source : \A k \in 1 .. Len(out[o]) :
            out[o][k].kind = kind => InRun(o, k) \/ Lost(o, "begin", out[o][k].run)
<1>0. PICK n : n = Len(out[s])
  OBVIOUS
<1>1. /\ Len(out'[s]) = n + 1 /\ n \in Nat /\ out'[s][n + 1] = e
      /\ \A k \in 1 .. n : out'[s][k] = out[s][k]
  <2>1. out[s] \in Seq(Item)
    BY DEF Known, FlowTypeOK, DataTypeOK
  <2>2. QED
    BY <1>0, <2>1, D!Appended
<1>2. \A k \in 1 .. Len(out'[s]) : k \in 1 .. n \/ k = n + 1
  BY <1>1
<1>3. \A o \in Source : \A k \in 1 .. Len(out'[o]) : out'[o][k].run <= run'
  <2>1. \A o \in Source : \A k \in 1 .. Len(out[o]) : out[o][k].run <= run
    BY DEF OutInv
  <2>2. \A k \in 1 .. n : out'[s][k].run <= run
    BY <1>0, <1>1, <2>1
  <2>3. QED
    BY <1>1, <1>2, <2>1, <2>2
<1>4. ASSUME NEW k \in 1 .. n, InRun(s, k) PROVE InRun(s, k)'
  <2>1. PICK j \in 1 .. k - 1 :
            /\ out[s][j].kind = "begin" /\ out[s][j].run = out[s][k].run
            /\ \A m \in j + 1 .. k - 1 : out[s][m].kind = "event"
    BY <1>4 DEF InRun
  <2>2. out'[s][k] = out[s][k] /\ \A m \in 1 .. k - 1 : out'[s][m] = out[s][m]
    BY <1>1, <1>4
  <2>3. \A m \in j + 1 .. k - 1 : m \in 1 .. k - 1
    BY <1>1, <1>4, <2>1
  <2>4. QED
    BY <2>1, <2>2, <2>3 DEF InRun
<1>5. ASSUME OpenIn(out[s], e.run) PROVE InRun(s, n + 1)'
  <2>1. PICK j \in 1 .. n :
            /\ out[s][j].kind = "begin" /\ out[s][j].run = e.run
            /\ \A m \in j + 1 .. n : out[s][m].kind = "event"
    BY <1>0, <1>5 DEF OpenIn
  <2>2. j \in 1 .. (n + 1) - 1 /\ (n + 1) - 1 = n /\ \A m \in j + 1 .. n : m \in 1 .. n
    BY <1>1, <2>1
  <2>3. QED
    BY <1>1, <2>1, <2>2 DEF InRun
<1>7. ASSUME NEW kind \in {"event", "end"}, In(kind) PROVE In(kind)'
  <2> SUFFICES ASSUME NEW o \in Source, NEW k \in 1 .. Len(out'[o]), out'[o][k].kind = kind
               PROVE  (InRun(o, k) \/ Lost(o, "begin", out[o][k].run))'
    OBVIOUS
  <2>1. CASE o # s
    BY <1>7, <2>1 DEF InRun, Lost
  <2>2. CASE o = s /\ k \in 1 .. n
    BY <1>0, <1>1, <1>4, <1>7, <2>2 DEF Lost
  <2>3. CASE o = s /\ k = n + 1
    BY <1>1, <1>5, <2>3 DEF Settled, Lost
  <2>4. QED
    BY <1>2, <2>1, <2>2, <2>3
<1>8. EventsInRuns' /\ EndsMatchBegins'
  BY <1>7 DEF OutInv, EventsInRuns, EndsMatchBegins
<1>9. RunsInOrder'
  <2> SUFFICES ASSUME NEW o \in Source, NEW j \in 1 .. Len(out'[o]),
                      NEW k \in 1 .. Len(out'[o]), j < k
               PROVE  out'[o][j].run <= out'[o][k].run
    BY DEF RunsInOrder
  <2>1. CASE o # s
    BY <2>1 DEF OutInv, RunsInOrder
  <2>2. CASE o = s /\ k \in 1 .. n
    <3>1. j \in 1 .. n
      BY <1>1, <2>2
    <3>2. QED
      BY <1>0, <1>1, <2>2, <3>1 DEF OutInv, RunsInOrder
  <2>3. CASE o = s /\ k = n + 1
    <3>1. j \in 1 .. n
      BY <1>1, <2>3
    <3>2. QED
      BY <1>0, <1>1, <2>3, <3>1
  <2>4. QED
    BY <1>2, <2>1, <2>2, <2>3
<1>10. QED
  BY <1>3, <1>8, <1>9 DEF OutInv

\* ringmerge commits what the rings hold in the order of the runs.
LEMMA OutMerge ==
    ASSUME Known, ShellInv, ProcessInv, TakingInv, DataInv, StateRingInv, OutInv,
           NEW s \in Source, MergeStep(s), UNCHANGED <<vars, failed>>
    PROVE  OutInv'
<1> DEFINE q == ring[s][turn[s]]
<1>1. UNCHANGED <<run, failed>> /\ run \in Nat /\ "data" \in Input /\ mergers \subseteq Source
  BY DEF vars, Input, Known, FlowTypeOK, DataTypeOK, TypeOK
<1>2. CASE UNCHANGED out
  BY <1>1, <1>2 DEF OutInv, EventsInRuns, EndsMatchBegins, RunsInOrder, InRun, Lost
<1>3. CASE ~UNCHANGED out
  <2>1. /\ turn[s] \in Input /\ s \in mergers /\ q # <<>> /\ Len(q) \in Nat \ {0}
        /\ q[1] \in Item /\ out'[s] = Append(out[s], q[1])
        /\ \A o \in Source \ {s} : out'[o] = out[o]
    BY <1>3, MergeSteps
  <2>2. StateInv(s) /\ 1 \in 1 .. Len(q)
    BY <2>1 DEF StateRingInv
  <2>3. \A k \in 1 .. Len(out[s]) : out[s][k].run <= run
    BY DEF OutInv
  <2>4. /\ q[1].run <= run /\ \A k \in 1 .. Len(out[s]) : out[s][k].run <= q[1].run
        /\ q[1].kind # "begin" => Settled(s, q[1].run)
    <3>1. CASE turn[s] = "data"
      <4>1. q[1].kind = "event" /\ q[1].run = run
        BY <2>1, <2>2, <3>1 DEF DataInv
      <4>2. Sending /\ gui # "failed"
        <5>1. ~NoFrames
          BY <2>1, <3>1 DEF NoFrames
        <5>2. QED
          BY <2>1, <5>1 DEF TakingInv, ProcessInv
      <4>3. Settled(s, run)
        BY <2>2, <4>2 DEF Sending, BeforeStop, StateInv, HasBegun
      <4>4. QED
        BY <1>1, <2>3, <4>1, <4>3
    <3>2. CASE turn[s] = "state"
      <4>1. CASE BeginItem(s, 1)
        BY <1>1, <2>3, <3>2, <4>1 DEF BeginItem
      <4>2. CASE EndItem(s, 1)
        <5>1. q[1].run <= run
          BY <1>1, <2>1, <3>2, <4>2 DEF EndItem, Item
        <5>2. QED
          BY <3>2, <4>2, <5>1 DEF EndItem
      <4>3. QED
        BY <2>2, <3>2, <4>1, <4>2 DEF StateInv
    <3>3. QED
      BY <2>1, <3>1, <3>2 DEF Input
  <2> HIDE DEF q
  <2>5. QED
    BY <1>1, <2>1, <2>4, OutAppend
<1>4. QED
  BY <1>2, <1>3

\* OutInv is kept by every step.
LEMMA OutInvStep ==
    ASSUME Known, ShellInv, ProcessInv, TakingInv, DataInv, StateRingInv, OutInv,
           [FlowNext]_flowVars
    PROVE  OutInv'
<1>a. TypeOK /\ RunInv /\ run \in Nat /\ out \in [Source -> Seq(Item)]
  BY DEF Known, FlowTypeOK, DataTypeOK, TypeOK
<1>1. ASSUME UNCHANGED out, run' \in {run, run + 1}, failed \subseteq failed' PROVE OutInv'
  <2>1. \A s \in Source : \A k \in 1 .. Len(out'[s]) : out'[s][k].run <= run'
    <3>1. ASSUME NEW s \in Source, NEW k \in 1 .. Len(out[s]) PROVE out[s][k].run <= run'
      <4>1. out[s] \in Seq(Item)
        BY <1>a
      <4>2. out[s][k] \in Item /\ out[s][k].run <= run
        BY <3>1, <4>1 DEF OutInv
      <4>3. QED
        BY <1>a, <1>1, <4>2 DEF Item
    <3>2. QED
      BY <1>1, <3>1
  <2>2. EventsInRuns' /\ EndsMatchBegins' /\ RunsInOrder'
    BY <1>1 DEF OutInv, EventsInRuns, EndsMatchBegins, RunsInOrder, InRun, Lost
  <2>3. QED
    BY <2>1, <2>2 DEF OutInv
<1>2. ASSUME NEW s \in Source, FlowStart(s) \/ FlowStop(s) \/ FlowInit(s) PROVE OutInv'
  <2>1. run' = run
    BY <1>a, <1>2, SourceSteps DEF FlowStart, FlowStop, FlowInit
  <2>2. UNCHANGED <<out, failed>>
    BY <1>2 DEF FlowStart, StartProcesses, FlowStop, Kill, KillProcesses, FlowInit,
                RestartProcesses
  <2>3. QED
    BY <1>1, <2>1, <2>2
<1>3. ASSUME NEW s \in Source, FlowProc(s) PROVE OutInv'
  BY <1>1, <1>3, ProcSteps DEF pathVars
<1>4. ASSUME NEW s \in Source, CoboSends(s) PROVE OutInv'
  BY <1>1, <1>4 DEF CoboSends, SendFrame, vars
<1>5. ASSUME NEW s \in Source, FlowData(s) PROVE OutInv'
  <2>1. ProcessFrame(s) => UNCHANGED out
    BY DEF ProcessFrame
  <2>2. QED
    BY <1>1, <1>5, <2>1, OutMerge DEF FlowData, vars
<1>6. CASE Configure
  BY <1>1, <1>6 DEF Configure, vars, pathVars
<1>7. CASE FlowGuiBegin \/ FlowGuiEnd
  BY <1>1, <1>7, <1>a, SourceSteps, ConstantsAssumption DEF FlowGuiBegin, FlowGuiEnd, pathVars
<1>8. ASSUME NEW p \in Pipe, ShellInserts(p) PROVE OutInv'
  BY <1>1, <1>8, InsertRings DEF ShellInserts, vars
<1>9. ASSUME NEW p \in Pipe, ShellCommands(p) PROVE OutInv'
  BY <1>1, <1>9 DEF ShellCommands, vars, pathVars
<1>10. CASE UNCHANGED flowVars
  BY <1>1, <1>10 DEF flowVars, vars, pathVars
<1>11. QED
  BY <1>2, <1>3, <1>4, <1>5, <1>6, <1>7, <1>8, <1>9, <1>10 DEF FlowNext, Shell

-------------------------------------------------------------------------------
(* The order of the runs in the output                                         *)

\* What is known of every reachable state.
LEMMA KnownInvariant ==
    ASSUME Orderly
    PROVE  FlowSpec => []Known
<1>1. Retry = FALSE
  BY DEF Orderly
<1>2. FlowInv => RunNumberInv
  BY DEF FlowInv
<1>3. QED
  BY <1>1, <1>2, FlowTypesCorrect, RunInvariant, ImplementsProvider, FlowInvariant, PTL
     DEF Known

\* FlowRunInv holds in every reachable state.
LEMMA FlowRunInvariant ==
    ASSUME Orderly
    PROVE  FlowSpec => []FlowRunInv
<1>1. FlowInitial => FlowRunInv
  <2> SUFFICES ASSUME FlowInitial PROVE FlowRunInv
    OBVIOUS
  <2>1. /\ gui = "notready" /\ run = 0 /\ linked = {} /\ mergers = {} /\ routers = {}
        /\ \A p \in Pipe : shell[p] = <<>>
        /\ \A s \in Source : link[s] = <<>> /\ out[s] = <<>>
    BY DEF FlowInitial, Init, DataInit
  <2>2. ShellInv
    BY <2>1, ShellsEmpty
  <2>3. ProcessInv /\ TakingInv /\ DataInv /\ StateRingInv
    BY <2>1 DEF ProcessInv, TakingInv, NoneTaking, NoFrames, BeforeStop, DataInv, StateRingInv
  <2>4. OutInv
    BY <2>1 DEF OutInv, EventsInRuns, EndsMatchBegins, RunsInOrder
  <2>5. QED
    BY <2>2, <2>3, <2>4 DEF FlowRunInv
<1>2. Known /\ FlowRunInv /\ [FlowNext]_flowVars => FlowRunInv'
  <2> SUFFICES ASSUME Known, FlowRunInv, [FlowNext]_flowVars PROVE FlowRunInv'
    OBVIOUS
  <2> USE DEF FlowRunInv
  <2>1. ShellInv'
    BY ShellInvStep
  <2>2. ProcessInv'
    BY ProcessInvStep
  <2>3. TakingInv'
    BY <2>1, <2>2, TakingInvStep
  <2>4. DataInv'
    BY <2>2, DataInvStep
  <2>5. StateRingInv'
    BY <2>1, StateRingInvStep
  <2>6. OutInv'
    BY OutInvStep
  <2>7. QED
    BY <2>1, <2>2, <2>3, <2>4, <2>5, <2>6
<1>3. QED
  BY <1>1, <1>2, KnownInvariant, PTL DEF FlowSpec

\* emitBegin, emitEndRun and the merger together (getProvider.tcl:505 and 583,
\* ringMergeMain.cpp:124-132): however many sources there are, wherever their
\* programs run, and whatever is started, stopped, initialised or lost between the
\* runs, each frame in the output lies between the begin and the end item of its run.
THEOREM FramesLieInTheirRuns ==
    ASSUME Orderly
    PROVE  FlowSpec => []EventsInRuns
<1>1. FlowRunInv => EventsInRuns
  BY DEF FlowRunInv, OutInv
<1>2. QED
  BY <1>1, FlowRunInvariant, PTL

\* emitEndRun (getProvider.tcl:583): the end item in the output closes the run whose
\* begin item is the last state change before it.
THEOREM EndItemsCloseTheirRuns ==
    ASSUME Orderly
    PROVE  FlowSpec => []EndsMatchBegins
<1>1. FlowRunInv => EndsMatchBegins
  BY DEF FlowRunInv, OutInv
<1>2. QED
  BY <1>1, FlowRunInvariant, PTL

\* ringMergeMain.cpp:124-132 with the run numbers of emitBegin: the output has the runs
\* one after the other.
THEOREM RunsFollowOneAnother ==
    ASSUME Orderly
    PROVE  FlowSpec => []RunsInOrder
<1>1. FlowRunInv => RunsInOrder
  BY DEF FlowRunInv, OutInv
<1>2. QED
  BY <1>1, FlowRunInvariant, PTL

-------------------------------------------------------------------------------
(* The invariant of the frames                                                 *)

\* The frames of run r among the first k items.
FramesOf(items, k, r) == {j \in 1 .. k : items[j].kind = "event" /\ items[j].run = r}

\* The frames of the current run in the output of s.
Taken(s) == Cardinality(FramesOf(out[s], Len(out[s]), run))

\* The end item of the run was asked for, or waits in the state ring.
EndComing(s) ==
    \/ EndWaits(s)
    \/ \E k \in 1 .. Len(ring[s]["state"]) :
          ring[s]["state"][k].kind = "end" /\ ring[s]["state"][k].run = run

\* The end item of the run is in the output.
EndSeen(s) == \E k \in 1 .. Len(out[s]) : out[s][k].kind = "end" /\ out[s][k].run = run

\* Every frame that was sent is on the link, in the data ring or in the output.
CountedInv ==
    gui \in {"beginning", "active", "ending"} =>
        \A s \in mergers :
            frames[s] = Taken(s) + Len(ring[s]["data"]) + Len(link[s])

\* When the end item is on its way, the frames are in the output.
RunDownInv == \A s \in mergers : EndComing(s) => frames[s] = Taken(s)

\* Nothing is sent after the end item.
EndSeenInv ==
    \A s \in Source : EndSeen(s) =>
        /\ gui \notin {"beginning", "active"}
        /\ gui = "ending" => s \notin todo
        /\ gui = "failed" => NoneTaking

FrameInv == CountedInv /\ RunDownInv /\ EndSeenInv /\ RunsComplete

-------------------------------------------------------------------------------
(* Counting frames                                                             *)

\* The frames among some items are finitely many.
LEMMA FramesFinite ==
    ASSUME NEW items, NEW k \in Nat, NEW r
    PROVE  /\ IsFiniteSet(FramesOf(items, k, r))
           /\ Cardinality(FramesOf(items, k, r)) \in Nat
<1>1. IsFiniteSet(1 .. k)
  BY FS_Interval
<1>2. FramesOf(items, k, r) \subseteq 1 .. k
  BY DEF FramesOf
<1>3. QED
  BY <1>1, <1>2, FS_Subset, FS_CardinalityType

\* An item that is added counts if it is a frame of the run.
LEMMA FramesAppend ==
    ASSUME NEW items \in Seq(Item), NEW e \in Item, NEW r
    PROVE  LET n == Len(items)
               longer == Append(items, e)
           IN /\ \A k \in 0 .. n : FramesOf(longer, k, r) = FramesOf(items, k, r)
              /\ ~(e.kind = "event" /\ e.run = r) =>
                     FramesOf(longer, n + 1, r) = FramesOf(items, n, r)
              /\ e.kind = "event" /\ e.run = r =>
                     Cardinality(FramesOf(longer, n + 1, r))
                         = Cardinality(FramesOf(items, n, r)) + 1
<1> DEFINE n == Len(items)
           longer == Append(items, e)
<1>1. /\ n \in Nat /\ Len(longer) = n + 1 /\ longer[n + 1] = e
      /\ \A k \in 1 .. n : longer[k] = items[k]
  BY D!Appended
<1> HIDE DEF n, longer
<1>2. ASSUME NEW k \in 0 .. n PROVE FramesOf(longer, k, r) = FramesOf(items, k, r)
  <2>1. 1 .. k \subseteq 1 .. n
    BY <1>1
  <2>2. QED
    BY <1>1, <2>1 DEF FramesOf
<1>3. 1 .. n + 1 = (1 .. n) \cup {n + 1} /\ n + 1 \notin 1 .. n
  BY <1>1
<1>4. ASSUME ~(e.kind = "event" /\ e.run = r)
      PROVE  FramesOf(longer, n + 1, r) = FramesOf(items, n, r)
  BY <1>1, <1>3, <1>4 DEF FramesOf
<1>5. ASSUME e.kind = "event", e.run = r
      PROVE  Cardinality(FramesOf(longer, n + 1, r)) = Cardinality(FramesOf(items, n, r)) + 1
  <2>1. FramesOf(longer, n + 1, r) = FramesOf(items, n, r) \cup {n + 1}
    BY <1>1, <1>3, <1>5 DEF FramesOf
  <2>2. n + 1 \notin FramesOf(items, n, r)
    BY <1>3 DEF FramesOf
  <2>3. QED
    BY <1>1, <2>1, <2>2, FramesFinite, FS_AddElement
<1>6. QED
  BY <1>1, <1>2, <1>4, <1>5 DEF n, longer

\* The output has no frames of a run that is not there yet.
LEMMA NoFramesYet ==
    ASSUME NEW items, NEW k \in Nat, NEW r, \A j \in 1 .. k : items[j].run # r
    PROVE  Cardinality(FramesOf(items, k, r)) = 0
<1>1. FramesOf(items, k, r) = {}
  BY DEF FramesOf
<1>2. QED
  BY <1>1, FS_EmptySet

-------------------------------------------------------------------------------
(* The frames are counted                                                      *)

\* What is counted are natural numbers.
LEMMA CountTypes ==
    ASSUME Known, NEW s \in Source
    PROVE  /\ out[s] \in Seq(Item) /\ Len(out[s]) \in Nat /\ run \in Nat /\ frames[s] \in Nat
           /\ Taken(s) \in Nat /\ Len(ring[s]["data"]) \in Nat /\ Len(link[s]) \in Nat
<1>1. /\ out[s] \in Seq(Item) /\ ring[s]["data"] \in Seq(Item) /\ link[s] \in Seq(1 .. MaxRun)
      /\ run \in Nat /\ frames[s] \in 0 .. MaxFrames /\ MaxFrames \in Nat
  BY RunDataFlowAssumption DEF Known, FlowTypeOK, TypeOK, DataTypeOK, Input
<1>2. QED
  BY <1>1, FramesFinite DEF Taken

\* ringmerge moves a frame from the data ring to the output.
LEMMA TakenMerge ==
    ASSUME Known, DataInv, StateRingInv, NEW s \in Source, MergeStep(s), UNCHANGED run,
           NEW o \in mergers
    PROVE  Taken(o)' + Len(ring'[o]["data"]) = Taken(o) + Len(ring[o]["data"])
<1> DEFINE q == ring[s][turn[s]]
<1>1. mergers \subseteq Source /\ "data" \in Input /\ "state" \in Input
  BY DEF Known, FlowTypeOK, DataTypeOK, Input
<1>2. CASE UNCHANGED <<ring, out>> \/ o # s
  <2>1. out'[o] = out[o] /\ ring'[o] = ring[o]
    <3>1. CASE UNCHANGED <<ring, out>>
      BY <3>1
    <3>2. CASE o # s
      BY <1>1, <3>2 DEF MergeStep, Known, FlowTypeOK, DataTypeOK
    <3>3. QED
      BY <1>2, <3>1, <3>2
  <2>2. QED
    BY <2>1 DEF Taken
<1>3. CASE ~UNCHANGED <<ring, out>> /\ o = s
  <2>1. /\ turn[s] \in Input /\ s \in mergers /\ q # <<>> /\ Len(q) \in Nat \ {0}
        /\ q[1] \in Item /\ out'[s] = Append(out[s], q[1])
        /\ Len(ring'[s][turn[s]]) = Len(q) - 1
        /\ \A i \in Input : i # turn[s] => ring'[s][i] = ring[s][i]
    BY <1>3, MergeSteps
  <2>2. 1 \in 1 .. Len(q)
    BY <2>1
  <2> DEFINE n == Len(out[s])
  <2>3. out[s] \in Seq(Item) /\ n \in Nat /\ Len(out'[s]) = n + 1
        /\ Taken(s) \in Nat /\ Len(ring[s]["data"]) \in Nat
    BY <2>1, CountTypes, D!Appended
  <2>4. Taken(s) = Cardinality(FramesOf(out[s], n, run))
    BY DEF Taken
  <2>5. Taken(s)' = Cardinality(FramesOf(Append(out[s], q[1]), n + 1, run))
    BY <2>1, <2>3 DEF Taken
  <2>6. CASE turn[s] = "data"
    <3>1. q[1].kind = "event" /\ q[1].run = run
      BY <2>1, <2>2, <2>6 DEF DataInv
    <3> HIDE DEF q, n
    <3>2. Taken(s)' = Taken(s) + 1
      BY <2>1, <2>3, <2>4, <2>5, <3>1, FramesAppend DEF n
    <3>3. Len(ring'[s]["data"]) = Len(ring[s]["data"]) - 1
      BY <2>1, <2>6 DEF q
    <3>4. QED
      BY <1>3, <2>3, <3>2, <3>3
  <2>7. CASE turn[s] = "state"
    <3>1. q[1].kind # "event"
      BY <2>1, <2>2, <2>7 DEF StateRingInv, StateInv, BeginItem, EndItem
    <3>2. ring'[s]["data"] = ring[s]["data"]
      BY <1>1, <2>1, <2>7
    <3> HIDE DEF q, n
    <3>3. Taken(s)' = Taken(s)
      BY <2>1, <2>3, <2>4, <2>5, <3>1, FramesAppend DEF n
    <3>4. QED
      BY <1>3, <3>2, <3>3
  <2>8. QED
    BY <2>1, <2>6, <2>7 DEF Input
<1>4. QED
  BY <1>2, <1>3

\* CountedInv is kept by every step.
LEMMA CountedStep ==
    ASSUME Known, ShellInv, ProcessInv, TakingInv, DataInv, StateRingInv, OutInv, CountedInv,
           [FlowNext]_flowVars
    PROVE  CountedInv'
<1>a. TypeOK /\ RunInv /\ mergers \subseteq Source /\ "data" \in Input
  BY DEF Known, FlowTypeOK, DataTypeOK, Input
<1>b. ASSUME UNCHANGED <<run, out, link, frames, mergers>>,
             gui' \in {"beginning", "active", "ending"} =>
                gui \in {"beginning", "active", "ending"},
             \A s \in mergers : ring'[s]["data"] = ring[s]["data"]
      PROVE  CountedInv'
  BY <1>b DEF CountedInv, Taken
<1>1. ASSUME NEW s \in Source, FlowStart(s) \/ FlowStop(s) \/ FlowInit(s) PROVE CountedInv'
  <2>1. gui' \notin {"beginning", "active", "ending"}
    BY <1>1, <1>a, SourceSteps DEF FlowStart, FlowStop, FlowInit
  <2>2. QED
    BY <2>1 DEF CountedInv
<1>2. ASSUME NEW s \in Source, FlowProc(s) PROVE CountedInv'
  BY <1>2, <1>b, ProcSteps DEF pathVars
<1>3. ASSUME NEW s \in Source, CoboSends(s) PROVE CountedInv'
  <2>1. /\ UNCHANGED <<gui, run, out, ring, mergers>>
        /\ link' = [link EXCEPT ![s] = Append(@, taking[EccServer[s]])]
        /\ frames' = [frames EXCEPT ![s] = @ + 1]
    BY <1>3 DEF CoboSends, SendFrame, vars, ringVars
  <2>2. ASSUME NEW o \in mergers
        PROVE  Taken(o)' = Taken(o) /\ ring'[o]["data"] = ring[o]["data"]
    BY <2>1 DEF Taken
  <2>3. ASSUME NEW o \in mergers, o # s PROVE link'[o] = link[o] /\ frames'[o] = frames[o]
    BY <1>a, <2>1, <2>3 DEF Known, FlowTypeOK, DataTypeOK
  <2>4. s \in mergers => Len(link'[s]) = Len(link[s]) + 1 /\ frames'[s] = frames[s] + 1
    BY <1>a, <2>1 DEF Known, FlowTypeOK, DataTypeOK
  <2>5. ASSUME NEW o \in mergers, frames[o] = Taken(o) + Len(ring[o]["data"]) + Len(link[o])
        PROVE  frames'[o] = Taken(o)' + Len(ring'[o]["data"]) + Len(link'[o])
    <3>1. /\ frames[o] \in Nat /\ Taken(o) \in Nat
          /\ Len(ring[o]["data"]) \in Nat /\ Len(link[o]) \in Nat
      BY <1>a, CountTypes
    <3>2. Taken(o)' = Taken(o) /\ ring'[o]["data"] = ring[o]["data"]
      BY <2>2
    <3>3. CASE o = s
      <4>1. Len(link'[o]) = Len(link[o]) + 1 /\ frames'[o] = frames[o] + 1
        BY <2>4, <3>3
      <4>2. PICK n \in Nat, t \in Nat, d \in Nat, l \in Nat :
                /\ frames[o] = n /\ Taken(o)' = t /\ Len(ring'[o]["data"]) = d
                /\ Len(link[o]) = l /\ n = t + d + l
        BY <2>5, <3>1, <3>2
      <4>3. QED
        BY <4>1, <4>2
    <3>4. CASE o # s
      <4>1. link'[o] = link[o] /\ frames'[o] = frames[o]
        BY <2>3, <3>4
      <4>2. QED
        BY <2>5, <3>2, <4>1
    <3>5. QED
      BY <3>3, <3>4
  <2>6. QED
    BY <2>1, <2>5 DEF CountedInv
<1>4. ASSUME NEW s \in Source, ProcessFrame(s), UNCHANGED <<vars, frames>> PROVE CountedInv'
  <2>1. UNCHANGED <<gui, run, frames, out, mergers>>
    BY <1>4, FrameSteps DEF vars
  <2>2. /\ s \in mergers =>
             /\ Len(ring'[s]["data"]) = Len(ring[s]["data"]) + 1
             /\ Len(link'[s]) = Len(link[s]) - 1
        /\ \A o \in mergers \ {s} : ring'[o]["data"] = ring[o]["data"] /\ link'[o] = link[o]
    BY <1>4, <1>a, FrameSteps, CommitSteps DEF ItemKind
  <2>3. ASSUME NEW o \in mergers, frames[o] = Taken(o) + Len(ring[o]["data"]) + Len(link[o])
        PROVE  frames'[o] = Taken(o)' + Len(ring'[o]["data"]) + Len(link'[o])
    <3>1. /\ frames[o] \in Nat /\ Taken(o) \in Nat /\ Taken(o)' = Taken(o)
          /\ Len(ring[o]["data"]) \in Nat /\ Len(link[o]) \in Nat
      BY <1>a, <2>1, CountTypes DEF Taken
    <3>2. frames'[o] = frames[o]
      BY <2>1
    <3>3. CASE o = s
      <4>1. /\ Len(ring'[o]["data"]) = Len(ring[o]["data"]) + 1
            /\ Len(link'[o]) = Len(link[o]) - 1
        BY <2>2, <3>3
      <4>2. PICK n \in Nat, t \in Nat, d \in Nat, l \in Nat :
                /\ frames'[o] = n /\ Taken(o)' = t /\ Len(ring[o]["data"]) = d
                /\ Len(link[o]) = l /\ n = t + d + l
        BY <2>3, <3>1, <3>2
      <4>3. QED
        BY <4>1, <4>2
    <3>4. CASE o # s
      <4>1. ring'[o]["data"] = ring[o]["data"] /\ link'[o] = link[o]
        BY <2>2, <3>4
      <4>2. QED
        BY <2>3, <3>1, <3>2, <4>1
    <3>5. QED
      BY <3>3, <3>4
  <2>4. QED
    BY <2>1, <2>3 DEF CountedInv
<1>5. ASSUME NEW s \in Source, MergeStep(s), UNCHANGED <<vars, frames>> PROVE CountedInv'
  <2>1. UNCHANGED <<gui, run, frames, mergers, link>>
    BY <1>5 DEF vars, MergeStep
  <2>2. ASSUME NEW o \in mergers, frames[o] = Taken(o) + Len(ring[o]["data"]) + Len(link[o])
        PROVE  frames'[o] = Taken(o)' + Len(ring'[o]["data"]) + Len(link'[o])
    <3>1. Taken(o)' + Len(ring'[o]["data"]) = Taken(o) + Len(ring[o]["data"])
      BY <1>5, <2>1, TakenMerge
    <3>2. frames'[o] = Taken(o) + Len(ring[o]["data"]) + Len(link'[o])
      BY <2>1, <2>2
    <3>3. QED
      BY <3>1, <3>2
  <2>3. QED
    BY <2>1, <2>2 DEF CountedInv
<1>6. CASE Configure
  BY <1>6, <1>b DEF Configure, vars, pathVars
<1>7. CASE FlowGuiBegin
  <2>1. /\ gui = "halted" /\ run' = run + 1 /\ frames' = [s \in Source |-> 0]
        /\ UNCHANGED <<out, ring, link, mergers>>
    BY <1>7, <1>a, SourceSteps, ConstantsAssumption DEF FlowGuiBegin, pathVars
  <2>2. NoFrames
    BY <2>1 DEF TakingInv, Sending, BeforeStop
  <2>3. ASSUME NEW s \in mergers
        PROVE  frames'[s] = Taken(s)' + Len(ring'[s]["data"]) + Len(link'[s])
    <3>1. s \in Source
      BY <1>a
    <3>2. out[s] \in Seq(Item) /\ Len(out[s]) \in Nat /\ run \in Nat
      BY <3>1, CountTypes
    <3>3. \A k \in 1 .. Len(out[s]) : out[s][k] \in Item /\ out[s][k].run <= run
      BY <3>1, <3>2 DEF OutInv
    <3>4. \A k \in 1 .. Len(out[s]) : out[s][k].run # run + 1
      BY <3>2, <3>3 DEF Item
    <3>5. Taken(s)' = 0
      BY <2>1, <3>2, <3>4, NoFramesYet DEF Taken
    <3>6. ring'[s]["data"] = <<>> /\ link'[s] = <<>> /\ frames'[s] = 0
      BY <2>1, <2>2, <3>1 DEF NoFrames
    <3>7. QED
      BY <3>5, <3>6
  <2>4. QED
    BY <2>1, <2>3 DEF CountedInv
<1>8. CASE FlowGuiEnd
  <2>1. gui = "active" /\ UNCHANGED <<run, out, link, frames, mergers, ring>>
    BY <1>8, <1>a, SourceSteps, ConstantsAssumption DEF FlowGuiEnd, pathVars
  <2>2. QED
    BY <1>b, <2>1
<1>9. ASSUME NEW p \in Pipe, ShellInserts(p) PROVE CountedInv'
  <2>1. /\ UNCHANGED <<gui, run, out, link, frames, mergers>>
        /\ \A s \in mergers : ring'[s]["data"] = ring[s]["data"]
    BY <1>9, <1>a, InsertRings, InsertSteps DEF vars
  <2>2. QED
    BY <1>b, <2>1
<1>10. ASSUME NEW p \in Pipe, ShellCommands(p) PROVE CountedInv'
  BY <1>10, <1>b DEF ShellCommands, vars, pathVars
<1>11. CASE UNCHANGED flowVars
  BY <1>11, <1>b DEF flowVars, vars, pathVars
<1>12. QED
  BY <1>1, <1>2, <1>3, <1>4, <1>5, <1>6, <1>7, <1>8, <1>9, <1>10, <1>11
     DEF FlowNext, FlowData, Shell

-------------------------------------------------------------------------------
(* The run is down when the end item is on its way                             *)

\* Between the end command of a source and the end item in the output no CoBo takes
\* data and no frame is on its way.
LEMMA EndIsComing ==
    ASSUME Known, ShellInv, TakingInv, StateRingInv, NEW s \in mergers, EndComing(s)
    PROVE  /\ gui = "halted" \/ (gui = "ending" /\ todo # Source /\ s \notin todo)
           /\ NoneTaking /\ NoFrames
<1>0. TypeOK /\ RunInv /\ s \in Source /\ StateInv(s)
  BY DEF Known, FlowTypeOK, DataTypeOK, StateRingInv
<1>1. CASE EndWaits(s)
  BY <1>0, <1>1, Waits DEF Known, TakingInv, Sending, BeforeStop
<1>2. CASE ~EndWaits(s)
  <2>1. PICK k \in 1 .. Len(ring[s]["state"]) :
            ring[s]["state"][k].kind = "end" /\ ring[s]["state"][k].run = run
    BY <1>2 DEF EndComing
  <2>2. EndItem(s, k)
    BY <1>0, <2>1 DEF StateInv, BeginItem
  <2>3. gui = "halted" \/ (gui = "ending" /\ s \notin todo)
    BY <1>0, <2>1, <2>2 DEF EndItem, TypeOK
  <2>4. QED
    BY <1>0, <2>3 DEF TakingInv, Sending, BeforeStop
<1>3. QED
  BY <1>1, <1>2

\* The end command is written when the run is down.
LEMMA EndAsked ==
    ASSUME Orderly, Known, ShellInv, ProcessInv, TakingInv, NEW s \in Source, FlowProc(s),
           NEW o \in Source, EndWaits(o)', ~EndWaits(o)
    PROVE  gui = "ending" /\ NoFrames
<1>1. TypeOK /\ RunInv /\ FlowTypeOK /\ UNCHANGED run
  BY ProcSteps DEF Known, FlowTypeOK
<1> DEFINE end == [op |-> "end", source |-> o, run |-> run]
<1>2. end \in Pending' /\ end \notin Pending
  BY <1>1 DEF EndWaits
<1>3. ASSUME NEW p \in Pipe, NEW c \in Command, c.op # "end", Put(p, c) PROVE FALSE
  <2>1. Pending' = Pending \cup {c}
    BY <1>1, <1>3, PutPending DEF FlowTypeOK
  <2>2. QED
    BY <1>2, <1>3, <2>1
<1>4. ASSUME UNCHANGED shell PROVE FALSE
  BY <1>2, <1>4 DEF Pending
<1>5. ~(EmitBegin(s) /\ Put(statefd[s], StateCommand("begin", s)))
  <2> SUFFICES ASSUME EmitBegin(s), Put(statefd[s], StateCommand("begin", s)) PROVE FALSE
    OBVIOUS
  <2>1. gui = "beginning" /\ runNumber'[s] = run /\ statefd[s] \in Pipe
    BY <1>1, BeginSteps DEF CanWrite, TypeOK
  <2>2. StateCommand("begin", s) \in Command /\ StateCommand("begin", s).op = "begin"
    BY <2>1, Commands
  <2>3. QED
    BY <1>3, <2>1, <2>2
<1>6. ~(StopAcquisition(s) /\ Put(daqcontrolfd[s], EccCommand("stop", s)))
  <2> SUFFICES ASSUME StopAcquisition(s), Put(daqcontrolfd[s], EccCommand("stop", s))
               PROVE  FALSE
    OBVIOUS
  <2>1. daqcontrolfd[s] \in Pipe
    BY <1>1, EndSteps DEF CanWrite, TypeOK
  <2>2. EccCommand("stop", s) \in Command /\ EccCommand("stop", s).op = "stop"
    BY Commands
  <2>3. QED
    BY <1>3, <2>1, <2>2
<1>7. ~(StartAcquisition(s) /\ Put(daqcontrolfd[s], EccCommand("start", s)))
  <2> SUFFICES ASSUME StartAcquisition(s), Put(daqcontrolfd[s], EccCommand("start", s))
               PROVE  FALSE
    OBVIOUS
  <2>1. daqcontrolfd[s] \in Pipe
    BY <1>1, BeginSteps DEF CanWrite, TypeOK
  <2>2. EccCommand("start", s) \in Command /\ EccCommand("start", s).op = "start"
    BY Commands
  <2>3. QED
    BY <1>3, <2>1, <2>2
<1>8. CASE RunDown /\ EmitEndRun(s)
  BY <1>1, <1>8, RunIsDown, EndSteps DEF BeforeStop
<1>9. CASE EndStopped(s)
  <2>1. gui = "ending" /\ todo # Source
    BY <1>1, <1>9, EndSteps
  <2>2. QED
    BY <2>1 DEF TakingInv, Sending, BeforeStop
<1>10. QED
  BY <1>4, <1>5, <1>6, <1>7, <1>8, <1>9 DEF FlowProc, FlowSleep, FlowWake, FlowEndStopped

\* RunDownInv is kept by every step.
LEMMA RunDownStep ==
    ASSUME Orderly, Known, ShellInv, ProcessInv, TakingInv, DataInv, StateRingInv,
           CountedInv, RunDownInv, [FlowNext]_flowVars
    PROVE  RunDownInv'
<1>a. /\ TypeOK /\ RunInv /\ FlowTypeOK /\ mergers \subseteq Source
      /\ "data" \in Input /\ "state" \in Input
  BY DEF Known, FlowTypeOK, DataTypeOK, Input
<1>b. ASSUME UNCHANGED <<run, out, frames, mergers>>, \A o \in mergers : EndComing(o)' => EndComing(o)
      PROVE  RunDownInv'
  BY <1>b DEF RunDownInv, Taken
\* Nothing waits and no item of the run is in the state rings.
<1>c. ASSUME \A p \in Pipe : shell'[p] = <<>>, NEW o, ring'[o]["state"] = <<>>
      PROVE  ~EndComing(o)'
  <2>1. Pending' = {} /\ 1 .. Len(ring'[o]["state"]) = {}
    BY <1>c, ShellsEmptied
  <2>2. QED
    BY <2>1 DEF EndComing, EndWaits
\* A step that leaves the state rings alone and asks for no end item.
<1>d. ASSUME UNCHANGED <<run, out, frames, mergers>>,
             \A o \in mergers : ring'[o]["state"] = ring[o]["state"],
             \A c \in Pending' : c \in Pending \/ c.op # "end"
      PROVE  RunDownInv'
  BY <1>b, <1>d DEF EndComing, EndWaits
<1>1. ASSUME NEW s \in Source, FlowStart(s) PROVE RunDownInv'
  <2>1. gui = "notready"
    BY <1>a, <1>1, SourceSteps DEF FlowStart
  <2>2. \A p \in Pipe : shell'[p] = <<>>
    BY <1>a, <1>1, <2>1, NoneAwaited, ClosePending DEF FlowStart
  <2>3. /\ mergers' = mergers \cup {s} /\ ring'[s]["state"] = <<>>
        /\ \A o \in Source \ {s} : ring'[o] = ring[o]
    BY <1>a, <1>1 DEF FlowStart, StartProcesses, NoItems, Input, Known, FlowTypeOK, DataTypeOK
  <2>4. ASSUME NEW o \in mergers PROVE ring[o]["state"] = <<>>
    <3>1. o \in Source /\ StateInv(o) /\ ring[o]["state"] \in Seq(Item)
      BY <1>a, <2>4 DEF StateRingInv, Known, FlowTypeOK, DataTypeOK
    <3>2. 1 \notin 1 .. Len(ring[o]["state"])
      BY <2>1, <3>1 DEF StateInv, BeginItem, EndItem
    <3>3. QED
      BY <3>1, <3>2, Shortened
  <2>5. \A o \in mergers' : ring'[o]["state"] = <<>>
    BY <1>a, <2>3, <2>4
  <2>6. QED
    BY <1>c, <2>2, <2>5 DEF RunDownInv
<1>2. ASSUME NEW s \in Source, FlowStop(s) PROVE RunDownInv'
  BY <1>2 DEF FlowStop, Kill, KillProcesses, RunDownInv
<1>3. ASSUME NEW s \in Source, FlowInit(s) PROVE RunDownInv'
  <2>1. \A p \in Pipe : shell'[p] = <<>>
    BY <1>3, <1>a, NoneWaits, ClosePending DEF FlowInit, Waited, Orderly
  <2>2. mergers' = {s} /\ ring'[s]["state"] = <<>>
    BY <1>3 DEF FlowInit, RestartProcesses, NoItems, Input
  <2>3. QED
    BY <1>c, <2>1, <2>2 DEF RunDownInv
<1>4. ASSUME NEW s \in Source, FlowProc(s) PROVE RunDownInv'
  <2>1. UNCHANGED <<run, out, frames, mergers, ring, link>>
    BY <1>4, ProcSteps DEF pathVars
  <2>2. ASSUME NEW o \in mergers, EndComing(o)' PROVE frames[o] = Taken(o)
    <3>1. CASE EndComing(o)
      BY <3>1 DEF RunDownInv
    <3>2. CASE ~EndComing(o)
      <4>1. EndWaits(o)' /\ ~EndWaits(o) /\ o \in Source
        BY <1>a, <2>1, <2>2, <3>2 DEF EndComing
      <4>2. gui = "ending" /\ NoFrames
        BY <1>4, <4>1, EndAsked
      <4>3. Len(ring[o]["data"]) = 0 /\ Len(link[o]) = 0
        BY <4>1, <4>2 DEF NoFrames
      <4>4. Taken(o) \in Nat
        BY <4>1, CountTypes
      <4>5. QED
        BY <4>2, <4>3, <4>4 DEF CountedInv
    <3>3. QED
      BY <3>1, <3>2
  <2>3. QED
    BY <2>1, <2>2 DEF RunDownInv, Taken
<1>5. ASSUME NEW s \in Source, CoboSends(s) PROVE RunDownInv'
  <2>1. UNCHANGED <<run, ring, mergers, Pending>>
    BY <1>5 DEF CoboSends, SendFrame, vars, ringVars, Pending
  <2>2. ASSUME NEW o \in mergers, EndComing(o)' PROVE FALSE
    <3>1. EndComing(o)
      BY <2>1, <2>2 DEF EndComing, EndWaits
    <3>2. NoneTaking
      BY <3>1, EndIsComing
    <3>3. QED
      BY <1>5, <3>2 DEF CoboSends, NoneTaking
  <2>3. QED
    BY <2>1, <2>2 DEF RunDownInv
<1>6. ASSUME NEW s \in Source, ProcessFrame(s), UNCHANGED <<vars, shell, frames>>
      PROVE  RunDownInv'
  <2>1. UNCHANGED <<run, out, frames, mergers, Pending>>
    BY <1>6 DEF ProcessFrame, vars, Pending
  <2>2. PICK r \in 1 .. MaxRun : Commit(s, "data", "event", r)
    BY <1>6, FrameSteps
  <2>3. \A o \in Source, i \in Input : o # s \/ i # "data" => ring'[o][i] = ring[o][i]
    BY <1>a, <2>2, CommitSteps DEF ItemKind
  <2>4. QED
    BY <1>a, <1>d, <2>1, <2>3
<1>7. ASSUME NEW s \in Source, MergeStep(s), UNCHANGED <<vars, shell, frames>>
      PROVE  RunDownInv'
  <2>1. UNCHANGED <<run, frames, mergers, Pending>>
    BY <1>7 DEF MergeStep, vars, Pending
  <2>2. ASSUME NEW o \in mergers, EndComing(o)' PROVE frames'[o] = Taken(o)'
    <3>1. EndComing(o)
      <4>1. CASE ring'[o]["state"] = ring[o]["state"]
        BY <2>1, <2>2, <4>1 DEF EndComing, EndWaits
      <4>2. CASE ring'[o]["state"] # ring[o]["state"]
        <5>1. /\ o = s /\ turn[s] = "state" /\ Len(ring[s]["state"]) \in Nat \ {0}
              /\ Len(ring'[s]["state"]) = Len(ring[s]["state"]) - 1
              /\ \A k \in 1 .. Len(ring[s]["state"]) - 1 :
                    ring'[s]["state"][k] = ring[s]["state"][k + 1]
          <6>1. ~UNCHANGED <<ring, out>> /\ o = s /\ turn[s] = "state"
            BY <1>a, <1>7, <2>2, <4>2, MergeSteps
          <6>2. QED
            BY <1>7, <6>1, MergeSteps
        <5>2. CASE EndWaits(o)'
          BY <2>1, <5>2 DEF EndComing, EndWaits
        <5>3. CASE ~EndWaits(o)'
          <6>1. PICK k \in 1 .. Len(ring'[o]["state"]) :
                    ring'[o]["state"][k].kind = "end" /\ ring'[o]["state"][k].run = run
            BY <2>1, <2>2, <5>3 DEF EndComing
          <6>2. /\ k + 1 \in 1 .. Len(ring[o]["state"])
                /\ ring[o]["state"][k + 1] = ring'[o]["state"][k]
            BY <5>1, <6>1
          <6>3. QED
            BY <6>1, <6>2 DEF EndComing
        <5>4. QED
          BY <5>2, <5>3
      <4>3. QED
        BY <4>1, <4>2
    <3>2. NoFrames /\ frames[o] = Taken(o)
      BY <3>1, EndIsComing DEF RunDownInv
    <3>3. Taken(o)' + Len(ring'[o]["data"]) = Taken(o) + Len(ring[o]["data"])
      BY <1>7, <2>1, TakenMerge
    <3>4. ring'[o]["data"] = ring[o]["data"]
      <4>1. turn[s] = "data" => ring[s][turn[s]] = <<>>
        BY <1>7, <3>2 DEF NoFrames, MergeStep
      <4>2. QED
        BY <1>a, <1>7, <4>1, MergeSteps
    <3>5. Len(ring[o]["data"]) = 0
      BY <3>2 DEF NoFrames
    <3>6. Taken(o)' \in Nat /\ Taken(o) \in Nat
      <4>1. out'[o] \in Seq(Item) /\ Len(out'[o]) \in Nat
        <5>1. out[o] \in Seq(Item) /\ o \in Source
          BY <1>a, CountTypes
        <5>2. \/ out'[o] = out[o]
              \/ \E e \in Item : out'[o] = Append(out[o], e)
          BY <1>7, <5>1, MergeSteps
        <5>3. QED
          BY <5>1, <5>2, D!Appended
      <4>2. QED
        BY <1>a, <4>1, FramesFinite, CountTypes DEF Taken
    <3>7. QED
      BY <2>1, <3>2, <3>3, <3>4, <3>5, <3>6
  <2>3. QED
    BY <2>1, <2>2 DEF RunDownInv
<1>8. CASE Configure
  <2>1. /\ UNCHANGED <<run, out, frames, mergers, ring>> /\ daqcontrolfd[PanelSource] \in Pipe
    BY <1>8, <1>a DEF Configure, vars, pathVars, CanWrite, TypeOK
  <2>2. PICK c \in Command : c.op = "configure" /\ Put(daqcontrolfd[PanelSource], c)
    BY <1>8, Commands, RunDataFlowAssumption DEF Configure
  <2>3. Pending' = Pending \cup {c}
    BY <1>a, <2>1, <2>2, PutPending DEF FlowTypeOK
  <2>4. QED
    BY <1>d, <2>1, <2>2, <2>3
<1>9. CASE FlowGuiBegin
  <2>1. gui = "halted" /\ run' = run + 1 /\ UNCHANGED <<ring, mergers>> /\ run \in Nat
    BY <1>9, <1>a, SourceSteps, ConstantsAssumption DEF FlowGuiBegin, pathVars, TypeOK
  <2>2. Pending' = {}
    BY <1>9, <1>a, NoneWaits DEF FlowGuiBegin, Waited, Orderly, Pending
  <2>3. ASSUME NEW o \in mergers, EndComing(o)' PROVE FALSE
    <3>1. PICK k \in 1 .. Len(ring[o]["state"]) : ring[o]["state"][k].run = run + 1
      BY <2>1, <2>2, <2>3 DEF EndComing, EndWaits
    <3>2. ring[o]["state"][k].run = run
      BY <2>1, <2>3 DEF StateRingInv, StateInv, BeginItem, EndItem
    <3>3. QED
      BY <2>1, <3>1, <3>2
  <2>4. QED
    BY <2>1, <2>3 DEF RunDownInv
<1>10. CASE FlowGuiEnd
  <2>1. UNCHANGED <<run, out, frames, mergers, ring, Pending>>
    BY <1>10, <1>a, SourceSteps, ConstantsAssumption DEF FlowGuiEnd, pathVars, Pending
  <2>2. QED
    BY <1>d, <2>1
<1>11. ASSUME NEW p \in Pipe, ShellInserts(p) PROVE RunDownInv'
  <2>1. PICK c : /\ c \in Pending /\ Pending' \subseteq Pending
                 /\ c = Head(shell[p]) /\ c.source \in Source
                 /\ c = [op |-> c.op, source |-> c.source, run |-> run]
                 /\ UNCHANGED <<run, frames>>
    BY <1>11, InsertSteps DEF vars
  <2>2. UNCHANGED <<out, mergers>>
    BY <1>11, InsertRings
  <2>3. ASSUME NEW o \in mergers, EndComing(o)' PROVE EndComing(o)
    <3>1. CASE EndWaits(o)'
      BY <2>1, <3>1 DEF EndComing, EndWaits
    <3>2. CASE ~EndWaits(o)'
      <4>1. PICK k \in 1 .. Len(ring'[o]["state"]) :
                ring'[o]["state"][k].kind = "end" /\ ring'[o]["state"][k].run = run
        BY <2>1, <2>3, <3>2 DEF EndComing
      <4>2. CASE ring'[o]["state"] = ring[o]["state"]
        BY <4>1, <4>2 DEF EndComing
      <4>3. CASE ring'[o]["state"] # ring[o]["state"]
        <5> DEFINE n == Len(ring[o]["state"])
        <5>1. /\ o = c.source /\ n \in Nat /\ Len(ring'[o]["state"]) = n + 1
              /\ \A j \in 1 .. n : ring'[o]["state"][j] = ring[o]["state"][j]
              /\ ring'[o]["state"][n + 1].kind = c.op
          BY <1>a, <1>11, <2>1, <4>3, InsertRings
        <5>2. CASE k = n + 1
          <6>1. c.op = "end"
            BY <4>1, <5>1, <5>2
          <6>2. QED
            BY <2>1, <5>1, <6>1 DEF EndComing, EndWaits
        <5>3. CASE k # n + 1
          <6>1. k \in 1 .. n
            BY <4>1, <5>1, <5>3
          <6>2. QED
            BY <4>1, <5>1, <6>1 DEF EndComing
        <5>4. QED
          BY <5>2, <5>3
      <4>4. QED
        BY <4>2, <4>3
    <3>3. QED
      BY <3>1, <3>2
  <2>4. QED
    BY <1>b, <2>1, <2>2, <2>3
<1>12. ASSUME NEW p \in Pipe, ShellCommands(p) PROVE RunDownInv'
  <2>1. Pending' \subseteq Pending /\ UNCHANGED <<run, out, frames, mergers, ring>>
    BY <1>12, CommandSteps DEF vars, pathVars
  <2>2. QED
    BY <1>d, <2>1
<1>13. CASE UNCHANGED flowVars
  <2>1. UNCHANGED <<run, out, frames, mergers, ring, Pending>>
    BY <1>13 DEF flowVars, vars, pathVars, Pending
  <2>2. QED
    BY <1>d, <2>1
<1>14. QED
  BY <1>1, <1>2, <1>3, <1>4, <1>5, <1>6, <1>7, <1>8, <1>9, <1>10, <1>11, <1>12, <1>13
     DEF FlowNext, FlowData, Shell

-------------------------------------------------------------------------------
(* Nothing is sent after the end item                                          *)

\* EndSeenInv is kept by every step.
LEMMA EndSeenStep ==
    ASSUME Orderly, Known, ShellInv, TakingInv, DataInv, StateRingInv, ProcessInv, OutInv,
           EndSeenInv, [FlowNext]_flowVars
    PROVE  EndSeenInv'
<1>a. TypeOK /\ RunInv /\ mergers \subseteq Source /\ out \in [Source -> Seq(Item)]
  BY DEF Known, FlowTypeOK, DataTypeOK
<1>b. ASSUME UNCHANGED <<gui, todo, run, out, taking, linked>> PROVE EndSeenInv'
  BY <1>b DEF EndSeenInv, EndSeen, NoneTaking
<1>c. ASSUME gui' \notin {"beginning", "active", "ending", "failed"} PROVE EndSeenInv'
  BY <1>c DEF EndSeenInv
<1>1. ASSUME NEW s \in Source, FlowStart(s) \/ FlowInit(s) PROVE EndSeenInv'
  <2>1. gui' \in {"notready", "halted"}
    BY <1>1, <1>a, SourceSteps DEF FlowStart, FlowInit
  <2>2. QED
    BY <1>c, <2>1
<1>2. ASSUME NEW s \in Source, FlowStop(s) PROVE EndSeenInv'
  <2>1. /\ gui \in {"halted", "active", "failed"} /\ gui' \in {"notready", "failed"}
        /\ UNCHANGED <<run, out, taking>> /\ linked' \subseteq linked
    BY <1>2, <1>a, SourceSteps DEF FlowStop, Kill, KillProcesses
  <2>2. ASSUME NEW o \in Source, EndSeen(o) PROVE NoneTaking'
    <3>1. NoneTaking
      BY <2>1, <2>2 DEF EndSeenInv, TakingInv, Sending, BeforeStop
    <3>2. QED
      BY <2>1, <3>1 DEF NoneTaking
  <2>3. QED
    BY <2>1, <2>2 DEF EndSeenInv, EndSeen
<1>3. ASSUME NEW s \in Source, FlowProc(s) PROVE EndSeenInv'
  <2>1. UNCHANGED <<run, out>> /\ gui \in {"beginning", "ending"}
    BY <1>3, ProcSteps DEF pathVars
  <2>2. gui = "ending" => gui' \in {"ending", "halted"} /\ todo' \subseteq todo
    BY <1>3, <1>a, BeginSteps, EndSteps, ConstantsAssumption
       DEF FlowProc, FlowSleep, FlowWake, FlowEndStopped, BeforeStop
  <2>3. QED
    BY <2>1, <2>2 DEF EndSeenInv, EndSeen
<1>4. ASSUME NEW s \in Source, CoboSends(s) \/ ProcessFrame(s),
             CoboSends(s) \/ UNCHANGED <<vars, electronics>>
      PROVE  EndSeenInv'
  BY <1>4, <1>b DEF CoboSends, SendFrame, ProcessFrame, vars, electronics
<1>5. ASSUME NEW s \in Source, MergeStep(s), UNCHANGED <<vars, electronics>> PROVE EndSeenInv'
  <2> DEFINE q == ring[s][turn[s]]
  <2>1. UNCHANGED <<gui, todo, run, taking, linked>> /\ (NoneTaking' <=> NoneTaking)
    BY <1>5 DEF vars, electronics, NoneTaking
  <2>2. ASSUME NEW o \in Source, EndSeen(o)', ~EndSeen(o)
        PROVE  gui = "halted" \/ (gui = "ending" /\ o \notin todo)
    <3>1. out'[o] # out[o]
      BY <2>1, <2>2 DEF EndSeen
    <3>2. /\ o = s /\ s \in mergers /\ turn[s] \in Input /\ q # <<>> /\ Len(q) \in Nat \ {0}
          /\ q[1] \in Item /\ out'[s] = Append(out[s], q[1])
      BY <1>5, <3>1, MergeSteps
    <3> DEFINE n == Len(out[s])
    <3>3. /\ out[s] \in Seq(Item) /\ n \in Nat /\ Len(out'[s]) = n + 1
          /\ out'[s][n + 1] = q[1] /\ \A k \in 1 .. n : out'[s][k] = out[s][k]
      BY <1>a, <3>2, D!Appended
    <3>4. PICK k \in 1 .. n + 1 : out'[s][k].kind = "end" /\ out'[s][k].run = run
      BY <2>1, <2>2, <3>2, <3>3 DEF EndSeen
    <3>5. k \notin 1 .. n
      BY <2>2, <3>2, <3>3, <3>4 DEF EndSeen
    <3>6. q[1].kind = "end" /\ q[1].run = run
      BY <3>3, <3>4, <3>5
    <3>7. 1 \in 1 .. Len(q)
      BY <3>2
    <3>8. turn[s] = "state"
      BY <3>2, <3>6, <3>7 DEF DataInv, Input
    <3>9. EndItem(s, 1)
      BY <3>2, <3>6, <3>7, <3>8 DEF StateRingInv, StateInv, BeginItem
    <3>10. QED
      BY <1>a, <3>2, <3>6, <3>8, <3>9 DEF EndItem, TypeOK
  <2>3. QED
    BY <2>1, <2>2 DEF EndSeenInv
<1>6. CASE Configure
  BY <1>6, <1>b DEF Configure, vars, pathVars, electronics
<1>7. CASE FlowGuiBegin
  <2>1. run' = run + 1 /\ UNCHANGED out /\ run \in Nat
    BY <1>7, <1>a, SourceSteps, ConstantsAssumption
       DEF FlowGuiBegin, pathVars, TypeOK
  <2>2. ASSUME NEW o \in Source, EndSeen(o)' PROVE FALSE
    <3>1. PICK k \in 1 .. Len(out[o]) : out[o][k].run = run + 1
      BY <2>1, <2>2 DEF EndSeen
    <3>2. out[o][k].run <= run
      BY DEF OutInv
    <3>3. QED
      BY <2>1, <3>1, <3>2
  <2>3. QED
    BY <2>2 DEF EndSeenInv
<1>8. CASE FlowGuiEnd
  <2>1. gui = "active" /\ UNCHANGED <<run, out>>
    BY <1>8, <1>a, SourceSteps, ConstantsAssumption DEF FlowGuiEnd, pathVars
  <2>2. QED
    BY <2>1 DEF EndSeenInv, EndSeen
<1>9. ASSUME NEW p \in Pipe, ShellInserts(p) PROVE EndSeenInv'
  BY <1>9, <1>b, InsertRings, InsertSteps DEF vars, electronics
<1>10. ASSUME NEW p \in Pipe, ShellCommands(p) PROVE EndSeenInv'
  <2>1. UNCHANGED <<gui, todo, run, out>> /\ gui \in {"halted", "active", "ending"}
    BY <1>10, CommandSteps DEF vars, pathVars, BeforeStop
  <2>2. QED
    BY <2>1 DEF EndSeenInv, EndSeen
<1>11. CASE UNCHANGED flowVars
  BY <1>11, <1>b DEF flowVars, vars, pathVars, electronics
<1>12. QED
  BY <1>1, <1>2, <1>3, <1>4, <1>5, <1>6, <1>7, <1>8, <1>9, <1>10, <1>11
     DEF FlowNext, FlowData, Shell

-------------------------------------------------------------------------------
(* Complete runs                                                               *)

\* No frame is sent for a source whose end item is in the output.
LEMMA NoneSentAfterEnd ==
    ASSUME Known, TakingInv, EndSeenInv, NEW s \in Source, EndSeen(s)
    PROVE  NoneTaking
<1>1. gui = "ending" => todo # Source
  BY DEF EndSeenInv
<1>2. CASE gui = "failed"
  BY <1>2 DEF EndSeenInv
<1>3. CASE gui # "failed"
  BY <1>1, <1>3 DEF EndSeenInv, TakingInv, Sending, BeforeStop
<1>4. QED
  BY <1>2, <1>3

\* RunsComplete is kept by every step.
LEMMA CompleteStep ==
    ASSUME Known, ShellInv, ProcessInv, TakingInv, DataInv, StateRingInv, OutInv, RunDownInv,
           EndSeenInv, RunsComplete, [FlowNext]_flowVars
    PROVE  RunsComplete'
<1>a. TypeOK /\ RunInv /\ mergers \subseteq Source /\ out \in [Source -> Seq(Item)]
  BY DEF Known, FlowTypeOK, DataTypeOK
<1>b. ASSUME UNCHANGED <<run, out, frames>> PROVE RunsComplete'
  BY <1>b DEF RunsComplete
<1>1. ASSUME NEW s \in Source, FlowStart(s) \/ FlowStop(s) \/ FlowInit(s) PROVE RunsComplete'
  <2>1. run' = run
    BY <1>1, <1>a, SourceSteps DEF FlowStart, FlowStop, FlowInit
  <2>2. UNCHANGED <<out, frames>>
    BY <1>1 DEF FlowStart, StartProcesses, FlowStop, Kill, KillProcesses, FlowInit,
                RestartProcesses
  <2>3. QED
    BY <1>b, <2>1, <2>2
<1>2. ASSUME NEW s \in Source, FlowProc(s) PROVE RunsComplete'
  BY <1>2, <1>b, ProcSteps DEF pathVars
<1>3. ASSUME NEW s \in Source, CoboSends(s) PROVE RunsComplete'
  <2>1. /\ UNCHANGED <<run, out>> /\ ~NoneTaking
        /\ \A o \in Source \ {s} : frames'[o] = frames[o]
    BY <1>3 DEF CoboSends, SendFrame, vars, NoneTaking, Known, FlowTypeOK
  <2>2. ~EndSeen(s)
    BY <2>1, NoneSentAfterEnd
  <2>3. QED
    BY <2>1, <2>2 DEF RunsComplete, EndSeen
<1>4. ASSUME NEW s \in Source, ProcessFrame(s), UNCHANGED <<vars, frames>> PROVE RunsComplete'
  BY <1>4, <1>b DEF ProcessFrame, vars
<1>5. ASSUME NEW s \in Source, MergeStep(s), UNCHANGED <<vars, frames>> PROVE RunsComplete'
  <2> DEFINE q == ring[s][turn[s]]
             n == Len(out[s])
  <2>1. UNCHANGED <<run, frames>>
    BY <1>5 DEF vars
  <2>2. CASE UNCHANGED out
    BY <1>b, <2>1, <2>2
  <2>3. CASE ~UNCHANGED out
    <3>1. /\ s \in mergers /\ turn[s] \in Input /\ q # <<>> /\ Len(q) \in Nat \ {0}
          /\ q[1] \in Item /\ out'[s] = Append(out[s], q[1])
          /\ \A o \in Source \ {s} : out'[o] = out[o]
      BY <1>5, <2>3, MergeSteps
    <3>2. /\ out[s] \in Seq(Item) /\ n \in Nat /\ Len(out'[s]) = n + 1
          /\ out'[s][n + 1] = q[1] /\ \A k \in 1 .. n : out'[s][k] = out[s][k]
      BY <1>a, <3>1, D!Appended
    <3>3. ASSUME NEW k \in 1 .. n PROVE FramesOf(out'[s], k, run) = FramesOf(out[s], k, run)
      <4>1. k \in 0 .. n
        BY <3>2
      <4> HIDE DEF q
      <4>2. \A j \in 0 .. Len(out[s]) :
                FramesOf(Append(out[s], q[1]), j, run) = FramesOf(out[s], j, run)
        BY <3>1, <3>2, FramesAppend
      <4>3. QED
        BY <3>1, <4>1, <4>2
    <3>4. ASSUME q[1].kind = "end", q[1].run = run
          PROVE  Cardinality(FramesOf(out'[s], n + 1, run)) = frames[s]
      <4>1. 1 \in 1 .. Len(q)
        BY <3>1
      <4>2. turn[s] = "state"
        BY <3>1, <3>4, <4>1 DEF DataInv, Input
      <4>3. EndComing(s)
        BY <3>4, <4>1, <4>2 DEF EndComing
      <4>4. frames[s] = Cardinality(FramesOf(out[s], n, run))
        BY <3>1, <4>3 DEF RunDownInv, Taken
      <4> HIDE DEF q, n
      <4>5. FramesOf(out'[s], n + 1, run) = FramesOf(out[s], n, run)
        BY <3>1, <3>2, <3>4, FramesAppend DEF n
      <4>6. QED
        BY <4>4, <4>5
    <3>5. ASSUME NEW o \in Source, NEW k \in 1 .. Len(out'[o]),
                 out'[o][k].kind = "end", out'[o][k].run = run
          PROVE  Cardinality(FramesOf(out'[o], k, run)) = frames[o]
      <4>1. CASE o # s
        BY <3>1, <3>5, <4>1 DEF RunsComplete, FramesOf
      <4>2. CASE o = s /\ k = n + 1
        BY <3>2, <3>4, <3>5, <4>2
      <4>3. CASE o = s /\ k # n + 1
        <5>1. k \in 1 .. n
          BY <3>2, <3>5, <4>3
        <5>2. Cardinality(FramesOf(out[s], k, run)) = frames[s]
          BY <3>2, <3>5, <4>3, <5>1 DEF RunsComplete, FramesOf
        <5>3. QED
          BY <3>3, <4>3, <5>1, <5>2
      <4>4. QED
        BY <4>1, <4>2, <4>3
    <3>6. QED
      BY <2>1, <3>5 DEF RunsComplete, FramesOf
  <2>4. QED
    BY <2>2, <2>3
<1>6. CASE Configure
  BY <1>6, <1>b DEF Configure, vars, pathVars
<1>7. CASE FlowGuiBegin
  <2>1. run' = run + 1 /\ UNCHANGED out /\ run \in Nat
    BY <1>7, <1>a, SourceSteps, ConstantsAssumption
       DEF FlowGuiBegin, pathVars, TypeOK
  <2>2. ASSUME NEW o \in Source, NEW k \in 1 .. Len(out[o]), out[o][k].run = run + 1
        PROVE  FALSE
    <3>1. out[o][k].run <= run
      BY DEF OutInv
    <3>2. QED
      BY <2>1, <2>2, <3>1
  <2>3. QED
    BY <2>1, <2>2 DEF RunsComplete
<1>8. CASE FlowGuiEnd
  BY <1>8, <1>a, <1>b, SourceSteps, ConstantsAssumption DEF FlowGuiEnd, pathVars
<1>9. ASSUME NEW p \in Pipe, ShellInserts(p) PROVE RunsComplete'
  BY <1>9, <1>b, InsertRings, InsertSteps DEF vars
<1>10. ASSUME NEW p \in Pipe, ShellCommands(p) PROVE RunsComplete'
  BY <1>10, <1>b DEF ShellCommands, vars, pathVars
<1>11. CASE UNCHANGED flowVars
  BY <1>11, <1>b DEF flowVars, vars, pathVars
<1>12. QED
  BY <1>1, <1>2, <1>3, <1>4, <1>5, <1>6, <1>7, <1>8, <1>9, <1>10, <1>11
     DEF FlowNext, FlowData, Shell

-------------------------------------------------------------------------------
(* The runs are complete                                                       *)

\* FrameInv holds in every reachable state.
LEMMA FrameInvariant ==
    ASSUME Orderly
    PROVE  FlowSpec => []FrameInv
<1>1. FlowInitial => FrameInv
  BY DEF FlowInitial, Init, DataInit, FrameInv, CountedInv, RunDownInv, EndSeenInv, EndSeen,
         RunsComplete
<1>2. Known /\ FlowRunInv /\ FrameInv /\ [FlowNext]_flowVars => FrameInv'
  <2> SUFFICES ASSUME Known, FlowRunInv, FrameInv, [FlowNext]_flowVars PROVE FrameInv'
    OBVIOUS
  <2> USE DEF FlowRunInv, FrameInv
  <2>1. CountedInv'
    BY CountedStep
  <2>2. RunDownInv'
    BY RunDownStep
  <2>3. EndSeenInv'
    BY EndSeenStep
  <2>4. RunsComplete'
    BY CompleteStep
  <2>5. QED
    BY <2>1, <2>2, <2>3, <2>4
<1>3. QED
  BY <1>1, <1>2, KnownInvariant, FlowRunInvariant, PTL DEF FlowSpec

\* emitEndRun behind `after 5000' (getProvider.tcl:574-589, "Let this run down"): when
\* the end item of a run is in the output of a source, every frame that its router was
\* sent in the run is in the output before it, however many sources and frames there are.
THEOREM RunsAreComplete ==
    ASSUME Orderly
    PROVE  FlowSpec => []RunsComplete
<1>1. FrameInv => RunsComplete
  BY DEF FrameInv
<1>2. QED
  BY <1>1, FrameInvariant, PTL

-------------------------------------------------------------------------------
(* Begin items are seen before data is taken                                   *)

\* No source is initialised after it was started: that would kill the mergers of the
\* others, whose begin items then get nowhere.
NotInitialised == MaxInit = 0

\* Every source that was started has its merger, unless a source was stopped in a run.
MergersInv == gui # "failed" => mergers = active

\* MergersInv holds in every reachable state.
LEMMA MergersInvariant ==
    ASSUME Orderly, NotInitialised
    PROVE  FlowSpec => []MergersInv
<1>1. FlowInitial => MergersInv
  BY DEF FlowInitial, Init, DataInit, MergersInv
<1>2. Known /\ MergersInv /\ [FlowNext]_flowVars => MergersInv'
  <2> SUFFICES ASSUME Known, MergersInv, [FlowNext]_flowVars PROVE MergersInv'
    OBVIOUS
  <2>a. TypeOK /\ RunInv
    BY DEF Known, FlowTypeOK
  <2>b. ASSUME UNCHANGED <<mergers, active>>, gui = "failed" => gui' = "failed"
        PROVE  MergersInv'
    BY <2>b DEF MergersInv
  <2>1. ASSUME NEW s \in Source, FlowStart(s) PROVE MergersInv'
    <3>1. gui = "notready" /\ active' = active \cup {s} /\ mergers' = mergers \cup {s}
      BY <2>1, <2>a, SourceSteps DEF FlowStart, StartProcesses
    <3>2. QED
      BY <3>1 DEF MergersInv
  <2>2. ASSUME NEW s \in Source, FlowStop(s) PROVE MergersInv'
    <3>1. /\ active' = active \ {s} /\ mergers' = {}
          /\ gui' = IF active = {s} THEN "notready" ELSE "failed"
      BY <2>2, <2>a, SourceSteps DEF FlowStop, Kill, KillProcesses
    <3>2. QED
      BY <3>1 DEF MergersInv
  <2>3. ASSUME NEW s \in Source, FlowInit(s) PROVE FALSE
    BY <2>3 DEF FlowInit, NotInitialised, Known, FlowTypeOK
  <2>4. ASSUME NEW s \in Source, FlowProc(s) PROVE MergersInv'
    BY <2>4, <2>b, ProcSteps DEF pathVars
  <2>5. ASSUME NEW s \in Source, CoboSends(s) \/ FlowData(s) PROVE MergersInv'
    BY <2>5, <2>b DEF CoboSends, SendFrame, FlowData, ProcessFrame, MergeStep, vars
  <2>6. CASE Configure
    BY <2>6, <2>b DEF Configure, vars, pathVars
  <2>7. CASE FlowGuiBegin \/ FlowGuiEnd
    BY <2>7, <2>a, <2>b, SourceSteps, ConstantsAssumption DEF FlowGuiBegin, FlowGuiEnd, pathVars
  <2>8. ASSUME NEW p \in Pipe, Shell(p) PROVE MergersInv'
    BY <2>8, <2>b DEF Shell, ShellInserts, InsertStateChange, InsertStateChangeFails,
                      ShellCommands, vars, pathVars, dataVars
  <2>9. CASE UNCHANGED flowVars
    BY <2>9, <2>b DEF flowVars, vars, pathVars
  <2>10. QED
    BY <2>1, <2>2, <2>3, <2>4, <2>5, <2>6, <2>7, <2>8, <2>9 DEF FlowNext
<1>3. QED
  BY <1>1, <1>2, KnownInvariant, PTL DEF FlowSpec

\* A server starts to take data when it executes a start command in an active run.
LEMMA TakingStarts ==
    ASSUME Known, ShellInv, [FlowNext]_flowVars,
           NEW e \in Server, taking[e] = 0, taking'[e] # 0
    PROVE  gui = "active" /\ taking'[e] = run /\ UNCHANGED <<out, failed>>
<1>1. ASSUME NEW s \in Source, \/ FlowStart(s) \/ FlowStop(s) \/ FlowInit(s) \/ FlowProc(s)
                               \/ CoboSends(s) \/ FlowData(s)
      PROVE  UNCHANGED taking
  BY <1>1, ProcSteps DEF FlowStart, FlowStop, Kill, FlowInit, CoboSends, FlowData, electronics
<1>2. ASSUME Configure \/ FlowGuiBegin \/ FlowGuiEnd \/ UNCHANGED flowVars PROVE UNCHANGED taking
  BY <1>2 DEF Configure, FlowGuiBegin, FlowGuiEnd, flowVars, electronics
<1>3. ASSUME NEW p \in Pipe, ShellInserts(p) PROVE UNCHANGED taking
  BY <1>3 DEF ShellInserts, electronics
<1>4. PICK p \in Pipe : ShellCommands(p)
  BY <1>1, <1>2, <1>3 DEF FlowNext, Shell
<1>5. taking \in [Server -> 0 .. MaxRun]
  BY DEF Known, FlowTypeOK
<1>6. PICK c : /\ c = Head(shell[p]) /\ c.server \in Server
               /\ c.op = "start" => gui = "active"
               /\ UNCHANGED <<out, failed>>
  BY <1>4, CommandSteps DEF pathVars
<1>7. \/ c.op # "start" /\ (taking' = taking \/ taking' = [taking EXCEPT ![c.server] = 0])
      \/ c.op = "start" /\ (taking' = taking \/ taking' = [taking EXCEPT ![c.server] = run])
  BY <1>4, <1>6 DEF ShellCommands, EccConfigure, EccStart, EccStop, electronics
<1>8. QED
  BY <1>5, <1>6, <1>7

\* startAcquisition (getProvider.tcl:549-563): when the CoBos of a server start to take
\* data, the begin items of all of its sources "have been seen by the merge program"
\* and are in the outputs, or insertstatechange failed to insert them.
THEOREM BeginItemsComeFirst ==
    ASSUME Orderly, NotInitialised
    PROVE  FlowSpec => BeginsSeen
<1>1. Known /\ FlowRunInv /\ MergersInv /\ [FlowNext]_flowVars =>
          [\A e \in Server : taking[e] = 0 /\ taking'[e] # 0 =>
              \A s \in active : EccServer[s] = e =>
                  \/ Lost(s, "begin", taking'[e])
                  \/ \E k \in 1 .. Len(out[s]) :
                        out[s][k].kind = "begin" /\ out[s][k].run = taking'[e]]_flowVars
  <2> SUFFICES ASSUME Known, FlowRunInv, MergersInv, [FlowNext]_flowVars,
                      NEW e \in Server, taking[e] = 0, taking'[e] # 0,
                      NEW s \in active, EccServer[s] = e
               PROVE  \/ Lost(s, "begin", taking'[e])
                      \/ \E k \in 1 .. Len(out[s]) :
                            out[s][k].kind = "begin" /\ out[s][k].run = taking'[e]
    OBVIOUS
  <2>1. gui = "active" /\ taking'[e] = run
    BY TakingStarts DEF FlowRunInv
  <2>2. s \in mergers
    BY <2>1 DEF MergersInv
  <2>3. Settled(s, run)
    BY <2>1, <2>2 DEF FlowRunInv, StateRingInv, StateInv, HasBegun
  <2>4. QED
    BY <2>1, <2>3 DEF Settled, OpenIn
<1>2. QED
  BY <1>1, KnownInvariant, FlowRunInvariant, MergersInvariant, PTL DEF FlowSpec, BeginsSeen

=============================================================================
