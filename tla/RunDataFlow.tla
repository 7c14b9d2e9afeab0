------------------------------ MODULE RunDataFlow ------------------------------
(***************************************************************************)
(* The provider of RunControl and the processes of DataPath together.      *)
(*                                                                         *)
(* What the provider writes to a channel is executed later, one command    *)
(* after the other, by the bash at the other end: insertstatechange puts a *)
(* begin or end item into a state ring, and getEccSoapClient tells an ECC  *)
(* server to configure, start or stop the CoBos.  Nothing tells the        *)
(* provider when, or whether, a command was executed.  `after 500' and     *)
(* `after 5000' are its only synchronisation with the data path.           *)
(***************************************************************************)
EXTENDS RunControl, Sequences, FiniteSets, Functions

CONSTANTS
    ServerHost,   \* ServerHost[e] is the host part (eccip) of ECC server e
    PanelSource,  \* the source with id 0, the one the Configure button uses
    RingSize,     \* items that fit in a ring
    MaxFrames,    \* BOUND: the frames of each source in each run
    MaxLost,      \* BOUND: the items that insertstatechange fails to insert into
                  \* a ring of the host it runs on
    MaxInit,      \* BOUND: the times sources are initialised between runs
    Prompt        \* whether the waits of the provider, and of the operator
                  \* before the next click, are long enough

ASSUME RunDataFlowAssumption ==
    /\ ServerHost \in [Server -> Host]
    /\ PanelSource \in Source
    /\ RingSize \in Nat \ {0}
    /\ MaxFrames \in Nat /\ MaxLost \in Nat /\ MaxInit \in Nat
    /\ Prompt \in BOOLEAN

VARIABLES
    link, routers, mergers, ring, turn, out, sent, base,  \* see DataPath
    shell,    \* shell[p]: commands the bash behind channel p has not executed
    ecc,      \* the state of each ECC server
    taking,   \* run in which the CoBos of each server take data (0: they do not)
    linked,   \* sources whose CoBo has a connection to the router
    frames,   \* frames each source's router was sent in this run
    failed,   \* the insertstatechange commands that inserted nothing
    inits     \* the number of times a source was initialised

INSTANCE DataPath WITH RunNumber <- 1 .. MaxRun, InsertsFail <- TRUE

pathVars == <<link, routers, mergers, ring, turn, out, sent, base>>
electronics == <<ecc, taking, linked>>
flowVars == <<vars, pathVars, shell, electronics, frames, failed, inits>>

-------------------------------------------------------------------------------
(* Commands                                                                    *)

\* Mutant: the run number is read before it is set.
StateCommandStale(kind, s) == [op |-> kind, source |-> s, run |-> runNumber[s]]

StateCommand(kind, s) == [op |-> kind, source |-> s, run |-> runNumber'[s]]
EccCommand(op, s) == [op |-> op, server |-> EccServer[s]]

\* puts to a channel
Put(p, command) == shell' = [shell EXCEPT ![p] = Append(@, command)]

\* The shells when the channels other than those in kept were closed: a bash whose
\* channel was closed executes what it has read or nothing more, and a new bash,
\* which may have the name of a closed channel, has nothing to execute.
ShellsAfter(kept) ==
    \E lost \in SUBSET (open \ kept) :
        shell' = [p \in Pipe |->
                     IF p \in lost \cup (open' \ kept) THEN <<>> ELSE shell[p]]

ShellsDone == \A p \in open : shell[p] = <<>>
Waited == Prompt => ShellsDone

-------------------------------------------------------------------------------
(* The processes that come and go with a source                                *)

\* killProcess kills every process with the program's name on the host, not
\* only the source's: the ECC servers and the routers on the spdaq, and the
\* mergers of all sources, which run on the host of the ReadoutGUI.
KilledRouters(s) == {o \in routers : DaqHost[o] = DaqHost[s]}
KilledServers(s) == {e \in Server : ServerHost[e] = DaqHost[s]}
KillServers(s) == [e \in Server |-> IF e \in KilledServers(s) THEN "down" ELSE ecc[e]]

\* Mutant: the connections of the routers are thought to survive them.
KillKeepsLinks(s) ==
    /\ KillProcesses(KilledRouters(s), mergers)
    /\ ecc' = KillServers(s)
    /\ UNCHANGED <<taking, linked, frames, failed, inits>>

Kill(s) ==
    /\ KillProcesses(KilledRouters(s), mergers)
    /\ linked' = linked \ KilledRouters(s)
    /\ ecc' = KillServers(s)
    /\ UNCHANGED <<taking, frames, failed, inits>>

\* startEccSoapServer starts no server when another source has the same one.
StartServer(s, servers) ==
    IF ServerPeers(s) = {} /\ servers[EccServer[s]] = "down"
    THEN [servers EXCEPT ![EccServer[s]] = "idle"]
    ELSE servers

FlowStart(s) ==
    /\ StartSource(s)
    /\ StartProcesses(s)
    /\ ecc' = StartServer(s, ecc)
    /\ ShellsAfter(open)
    /\ UNCHANGED <<taking, linked, frames, failed, inits>>

FlowStop(s) ==
    /\ Waited
    /\ StopSource(s)
    /\ Kill(s)
    /\ ShellsAfter(AfterKill(s))

\* The processes of all sources are killed, and those of s are started.
FlowInit(s) ==
    /\ Waited
    /\ inits < MaxInit /\ inits' = inits + 1
    /\ InitSource(s)
    /\ RestartProcesses(s, KilledRouters(s), mergers)
    /\ linked' = linked \ KilledRouters(s)
    /\ ecc' = StartServer(s, KillServers(s))
    /\ ShellsAfter(AfterKill(s))
    /\ UNCHANGED <<taking, frames, failed>>

-------------------------------------------------------------------------------
(* The transitions of a run                                                    *)

\* The Configure button: describe, prepare and configure of the panel's source.
\* BOUND: it is not clicked again before the first click was executed.
Configure ==
    /\ gui = "halted" /\ Waited
    /\ PanelSource \in active
    /\ CanWrite(daqcontrolfd[PanelSource])
    /\ EccCommand("configure", PanelSource) \notin Range(shell[daqcontrolfd[PanelSource]])
    /\ Put(daqcontrolfd[PanelSource], EccCommand("configure", PanelSource))
    /\ UNCHANGED <<vars, pathVars, electronics, frames, failed, inits>>

FlowGuiBegin ==
    /\ Waited
    /\ GuiBegin
    /\ frames' = [s \in Source |-> 0]
    /\ UNCHANGED <<pathVars, shell, electronics, failed, inits>>

FlowGuiEnd ==
    /\ Waited
    /\ GuiEnd
    /\ UNCHANGED <<pathVars, shell, electronics, frames, failed, inits>>

\* emitBegin and stopAcquisition before their `after'.
FlowSleep(s) ==
    /\ \/ EmitBegin(s) /\ Put(statefd[s], StateCommand("begin", s))
       \/ StopAcquisition(s) /\ Put(daqcontrolfd[s], EccCommand("stop", s))
    /\ UNCHANGED <<pathVars, electronics, frames, failed, inits>>

\* Mutants: there is no `after 500', and no `after 5000'.
BeginNotAwaited(s) == TRUE
EndNotAwaited == TRUE

\* `after 500' lets the begin item get into the output ring.
BeginPercolated(s) ==
    Prompt => ShellsDone /\ (s \in mergers => ring[s]["state"] = <<>>)

\* `after 5000' lets the data that was taken get into the output rings.
RunDown ==
    Prompt => /\ ShellsDone
              /\ \A s \in routers : link[s] = <<>>
              /\ \A s \in mergers : ring[s]["data"] = <<>>

FlowWake(s) ==
    /\ \/ /\ BeginPercolated(s)
          /\ LeaveStartToOthers(s) \/ FindStarted(s)
          /\ UNCHANGED shell
       \/ /\ BeginPercolated(s)
          /\ StartAcquisition(s)
          /\ Put(daqcontrolfd[s], EccCommand("start", s))
       \/ /\ RunDown
          /\ EmitEndRun(s)
          /\ Put(statefd[s], StateCommand("end", s))
    /\ UNCHANGED <<pathVars, electronics, frames, failed, inits>>

FlowEndStopped(s) ==
    /\ EndStopped(s)
    /\ Put(statefd[s], StateCommand("end", s))
    /\ UNCHANGED <<pathVars, electronics, frames, failed, inits>>

-------------------------------------------------------------------------------
(* The rest of the world                                                       *)

\* Mutant: a bash forgets what it has read while a command runs.
DoneDropsQueue(p) == shell' = [shell EXCEPT ![p] = <<>>]

Done(p) == shell' = [shell EXCEPT ![p] = Tail(@)]

\* insertstatechange, run by the bash behind p, which looks for the ring on the host
\* it runs on.
ShellInserts(p) ==
    /\ shell[p] # <<>> /\ Head(shell[p]).op \in {"begin", "end"}
    /\ LET c == Head(shell[p])
           there == remote[p] = StateHost[c.source]
       IN \/ there /\ InsertStateChange(c.source, c.op, c.run) /\ UNCHANGED failed
          \/ /\ there => Cardinality(failed) < MaxLost
             /\ InsertStateChangeFails /\ failed' = failed \cup {c}
    /\ Done(p)
    /\ UNCHANGED <<vars, electronics, frames, inits>>

\* What an ECC server does with a command: nothing in a state that has no such
\* transition.  It (re)connects the CoBos to the routers when it prepares them.
EccConfigure(e) ==
    /\ ecc[e] \in {"idle", "ready", "running"}
    /\ ecc' = [ecc EXCEPT ![e] = "ready"]
    /\ taking' = [taking EXCEPT ![e] = 0]
    /\ linked' = linked \cup {s \in routers : EccServer[s] = e}

EccStart(e) ==
    /\ ecc[e] = "ready"
    /\ ecc' = [ecc EXCEPT ![e] = "running"]
    /\ taking' = [taking EXCEPT ![e] = run]
    /\ UNCHANGED linked

EccStop(e) ==
    /\ ecc[e] = "running"
    /\ ecc' = [ecc EXCEPT ![e] = "ready"]
    /\ taking' = [taking EXCEPT ![e] = 0]
    /\ UNCHANGED linked

\* getEccSoapClient, run by the bash behind p.
ShellCommands(p) ==
    /\ shell[p] # <<>> /\ Head(shell[p]).op \in {"configure", "start", "stop"}
    /\ LET c == Head(shell[p])
           accepted == \/ c.op = "configure" /\ ecc[c.server] # "down"
                       \/ c.op = "start" /\ ecc[c.server] = "ready"
                       \/ c.op = "stop" /\ ecc[c.server] = "running"
       IN \/ c.op = "configure" /\ EccConfigure(c.server)
          \/ c.op = "start" /\ EccStart(c.server)
          \/ c.op = "stop" /\ EccStop(c.server)
          \/ ~accepted /\ UNCHANGED electronics
    /\ Done(p)
    /\ UNCHANGED <<vars, pathVars, frames, failed, inits>>

\* A CoBo that takes data sends a frame to its router.
CoboSends(s) ==
    /\ s \in linked /\ taking[EccServer[s]] # 0
    /\ frames[s] < MaxFrames
    /\ SendFrame(s, taking[EccServer[s]])
    /\ frames' = [frames EXCEPT ![s] = @ + 1]
    /\ UNCHANGED <<vars, shell, electronics, failed, inits>>

FlowData(s) ==
    /\ ProcessFrame(s) \/ MergeStep(s)
    /\ UNCHANGED <<vars, shell, electronics, frames, failed, inits>>

-------------------------------------------------------------------------------
(* The specification                                                           *)

FlowInitial ==
    /\ Init /\ DataInit
    /\ shell = [p \in Pipe |-> <<>>]
    /\ ecc = [e \in Server |-> "down"]
    /\ taking = [e \in Server |-> 0]
    /\ linked = {}
    /\ frames = [s \in Source |-> 0]
    /\ failed = {} /\ inits = 0

\* Starts that fail and channels that break are left to RunControl.
FlowProc(s) == FlowSleep(s) \/ FlowWake(s) \/ FlowEndStopped(s)
Shell(p) == ShellInserts(p) \/ ShellCommands(p)

FlowNext ==
    \/ \E s \in Source :
          \/ FlowStart(s) \/ FlowStop(s) \/ FlowInit(s)
          \/ FlowProc(s) \/ CoboSends(s) \/ FlowData(s)
    \/ Configure \/ FlowGuiBegin \/ FlowGuiEnd
    \/ \E p \in Pipe : Shell(p)

FlowSpec == FlowInitial /\ [][FlowNext]_flowVars

\* The procs, the shells, the routers and the mergers go on by themselves.
FlowFairness ==
    /\ \A s \in Source : WF_flowVars(FlowProc(s)) /\ WF_flowVars(FlowData(s))
    /\ \A p \in Pipe : WF_flowVars(Shell(p))

FairFlowSpec == FlowSpec /\ FlowFairness

-------------------------------------------------------------------------------
(* Properties                                                                  *)

Command ==
    [op : {"begin", "end"}, source : Source, run : 1 .. MaxRun]
        \cup [op : {"configure", "start", "stop"}, server : Server]

\* The type of the state.
FlowTypeOK ==
    /\ TypeOK /\ DataTypeOK
    /\ shell \in [Pipe -> Seq(Command)]
    /\ ecc \in [Server -> {"down", "idle", "ready", "running"}]
    /\ taking \in [Server -> 0 .. MaxRun]
    /\ linked \subseteq routers
    /\ frames \in [Source -> 0 .. MaxFrames]
    /\ failed \subseteq Command /\ inits \in Nat

\* Item k of the output ring of s comes after the begin item of its run, with
\* no other state change between the two.
InRun(s, k) ==
    \E j \in 1 .. k - 1 :
        /\ out[s][j].kind = "begin" /\ out[s][j].run = out[s][k].run
        /\ \A m \in j + 1 .. k - 1 : out[s][m].kind = "event"

\* The items that insertstatechange failed to insert for a source.
Lost(s, kind, r) == [op |-> kind, source |-> s, run |-> r] \in failed

\* The output ring holds "properly formatted NSCLDAQ runs"
\* (docs/nsclgetdocs.xml:496): each frame of a run lies between the begin and
\* the end item of the run it was taken in, unless the begin item was lost.
EventsInRuns ==
    \A s \in Source : \A k \in 1 .. Len(out[s]) :
        out[s][k].kind = "event" => InRun(s, k) \/ Lost(s, "begin", out[s][k].run)

\* emitEndRun: the end item that reaches the output ring closes the run whose
\* begin item is the last state change before it, unless that one was lost.
EndsMatchBegins ==
    \A s \in Source : \A k \in 1 .. Len(out[s]) :
        out[s][k].kind = "end" => InRun(s, k) \/ Lost(s, "begin", out[s][k].run)

\* end: what the router of a source was sent in a run is complete in the output
\* ring when the end item of the run is (`after 5000': "Let this run down").
RunsComplete ==
    \A s \in Source : \A k \in 1 .. Len(out[s]) :
        out[s][k].kind = "end" /\ out[s][k].run = run =>
            Cardinality({j \in 1 .. k : out[s][j].kind = "event" /\ out[s][j].run = run})
                = frames[s]

\* Runs follow one another in the output ring even when state changes are lost
\* or sources are stopped and started: no item of a run comes after one of a later run.
RunsInOrder ==
    \A s \in Source : \A j, k \in 1 .. Len(out[s]) :
        j < k => out[s][j].run <= out[s][k].run

\* startAcquisition: when the CoBos of a server start to take data the begin
\* items of all of its sources have "been seen by the merge program"
\* (getProvider.tcl:558).
BeginsSeen ==
    [][\A e \in Server : taking[e] = 0 /\ taking'[e] # 0 =>
          \A s \in active : EccServer[s] = e =>
              \/ Lost(s, "begin", taking'[e])
              \/ \E k \in 1 .. Len(out[s]) :
                    out[s][k].kind = "begin" /\ out[s][k].run = taking'[e]]_flowVars

\* A begin or end item that was asked for gets into the output ring, unless its
\* insertion failed, or the merger or the channel of its source is closed.
ItemsArrive ==
    \A s \in Source, r \in 1 .. MaxRun, kind \in {"begin", "end"}, n \in 0 .. MaxInit :
        LET asked == [op |-> kind, source |-> s, run |-> r]
        IN inits = n /\ (\E p \in Pipe : asked \in Range(shell[p])) ~>
              \/ \E k \in 1 .. Len(out[s]) : out[s][k].kind = kind /\ out[s][k].run = r
              \/ asked \in failed
              \/ s \notin mergers \/ statefd[s] \notin open \/ inits # n

===============================================================================
