------------------------------ MODULE RunControl ------------------------------
(***************************************************************************)
(* Run coordination by the ReadoutGUI data source provider                 *)
(* readoutgui/getProvider.tcl.  Several GET data sources take part in one  *)
(* run: each one emits its own begin and end items, and one of them, the   *)
(* last to begin and the first to end, commands the GET electronics.       *)
(*                                                                         *)
(* The provider runs in a single Tcl interpreter, so a proc is one step    *)
(* unless it sleeps: `after 500' in emitBegin and `after 5000' in          *)
(* stopAcquisition split begin and end into two steps, between which only  *)
(* the world outside the interpreter (the ssh pipes) moves.                *)
(*                                                                         *)
(* The caller of the provider, the state manager of the ReadoutGUI, is not *)
(* part of the repository.  It is modelled as the loop its callers expect: *)
(* a transition calls the proc of every source once, in any order, and the *)
(* first error abandons the transition.                                    *)
(***************************************************************************)
EXTENDS Naturals

CONSTANTS
    Source,      \* the ids of the GET data sources of the experiment
    Host,        \* the computers the ssh pipes lead to
    Server,      \* the ECC servers, one for each eccip:eccservice pair
    DaqHost,     \* DaqHost[s] is the parameter spdaq of source s
    StateHost,   \* StateHost[s] is the host part of the parameter stateuri of s
    EccServer,   \* EccServer[s] is the pair eccip:eccservice of source s
    Pipe,        \* the names of channels in the interpreter (Tcl names a channel
                 \* after its file descriptor, and uses a name again once it is closed)
    NoPipe,      \* stands for a dict without the key of the channel
    NoHost,      \* no channel of a name was ever opened
    NoSource,    \* no proc of the provider is asleep
    MaxRun,      \* BOUND: the number of runs that are attempted
    PipesBreak,  \* whether an ssh pipe may die by itself
    StartsFail,  \* whether opening an ssh pipe may fail
    Retry        \* whether the operator may go on after an error
                 \* without first stopping every source

ASSUME ConstantsAssumption ==
    /\ DaqHost \in [Source -> Host]
    /\ StateHost \in [Source -> Host]
    /\ EccServer \in [Source -> Server]
    /\ Source # {}
    /\ NoPipe \notin Pipe
    /\ NoHost \notin Host
    /\ NoSource \notin Source
    /\ MaxRun \in Nat
    /\ {PipesBreak, StartsFail, Retry} \subseteq BOOLEAN

VARIABLES
    gui,            \* state of the ReadoutGUI
    todo,           \* sources its current transition has not finished with
    run,            \* number of the last run that was begun
    active,         \* the indices of the array activeProviders
    runStatus,      \* sources whose dict has runStatus 1
    beginEmitted,   \* sources whose dict has beginEmitted 1
    runNumber,      \* the runNumber in the dict of each source, 0 when unset
    daqcontrolfd,   \* the dict's channel to the bash on the spdaq
    statefd,        \* the dict's channel to the bash on the state ring's host
    open,           \* the names of the channels that were not closed
    dead,           \* those of them whose ssh client died
    remote,         \* the host of the bash last opened under each name
    asleep,         \* the source whose begin or end is inside an `after'
    commanded,      \* servers whose last acquisition command was start
    starts, stops,  \* start and stop commands written in this run
    ended           \* sources whose end item was emitted in this run

vars == <<gui, todo, run, active, runStatus, beginEmitted, runNumber,
          daqcontrolfd, statefd, open, dead, remote, asleep, commanded, starts,
          stops, ended>>

channels == <<open, dead, remote>>
fds == <<daqcontrolfd, statefd, channels>>
flags == <<runStatus, beginEmitted, runNumber>>
commands == <<commanded, starts, stops, ended>>

GuiState == {"notready", "halted", "beginning", "active", "ending", "failed"}

-------------------------------------------------------------------------------
(* Steps of the ReadoutGUI around a call                                       *)

\* The proc of source s returned: the loop goes on with the other sources, and
\* after the last one the GUI is in the state the transition leads to.
Returns(s, final) ==
    /\ todo' = todo \ {s}
    /\ gui' = IF todo = {s} THEN final ELSE gui
    /\ asleep' = NoSource
    /\ UNCHANGED <<run, active>>

\* Mutant: an error leads to a state the GUI does not know.
RaisesUnknown ==
    /\ gui' = "error"
    /\ todo' = {}
    /\ asleep' = NoSource
    /\ UNCHANGED <<run, active>>

\* The proc raised an error, which ends the transition.
Raises ==
    /\ gui' = "failed"
    /\ todo' = {}
    /\ asleep' = NoSource
    /\ UNCHANGED <<run, active>>

\* The proc called for s went to sleep.
Sleeps(s) ==
    /\ asleep' = s
    /\ UNCHANGED <<gui, todo, run, active>>

Called(s, state) == gui = state /\ s \in todo /\ asleep = NoSource

-------------------------------------------------------------------------------
(* Channels                                                                    *)

\* Mutant: the other source's parameter is always spdaq.
PeersBySpdaq(s, host) == {o \in active \ {s} : DaqHost[o] = host[s]}

\* The other sources whose parameter leads to the same host as that of s.
Peers(s, host) == {o \in active \ {s} : host[o] = host[s]}

\* startPipe: the channel of a source that already has one to that host, which
\* is NoPipe (dict get raises an error) when that source never finished its
\* start, and a new channel only when no other source uses the host.  A channel
\* taken over is not looked at: it may be closed, and its name in use again.
StartPipe(s, fd, host, free) ==
    IF Peers(s, host) = {} THEN free
                           ELSE {fd[o] : o \in Peers(s, host)}

\* A new channel can have any name that is not in use.
FreePipes(inUse) == Pipe \ inUse

\* startEccSoapServer copies the server of a source that has the same one: it
\* can fail when that source never finished its start.
ServerPeers(s) == Peers(s, EccServer)
HasServer(o) == daqcontrolfd[o] # NoPipe

\* The names of the channels that startPipe opens for s rather than copies.
Opened(s, host, p) == IF Peers(s, host) = {} THEN {p} ELSE {}

\* startPersistentProcesses: first the channel to the spdaq, then the other one;
\* the dict is written back only after all of the processes were started.  (ECC
\* server, router and merger processes have no state of their own here; a
\* channel opened before a later step fails is lost to the provider and not
\* modelled.)
StartPersistentProcesses(s, stillOpen) ==
    /\ ServerPeers(s) = {} \/ \E o \in ServerPeers(s) : HasServer(o)
    /\ \E d \in StartPipe(s, daqcontrolfd, DaqHost, FreePipes(stillOpen)) :
       \E t \in StartPipe(s, statefd, StateHost,
                          FreePipes(stillOpen \cup Opened(s, DaqHost, d))) :
         /\ d # NoPipe /\ t # NoPipe
         /\ daqcontrolfd' = [daqcontrolfd EXCEPT ![s] = d]
         /\ statefd' = [statefd EXCEPT ![s] = t]
         /\ open' = stillOpen \cup Opened(s, DaqHost, d) \cup Opened(s, StateHost, t)
         /\ dead' = dead \cap stillOpen
         /\ remote' = [p \in Pipe |->
                          CASE p \in Opened(s, DaqHost, d) -> DaqHost[s]
                            [] p \in Opened(s, StateHost, t) -> StateHost[s]
                            [] OTHER -> remote[p]]

\* What can make startPersistentProcesses raise an error.
StartCanFail(s) ==
    \/ StartsFail
    \/ \E o \in ServerPeers(s) \cup Peers(s, DaqHost) \cup Peers(s, StateHost) :
          ~HasServer(o)

\* killPersistentProcesses closes the channels of both names in the dict of the
\* source, shared or not.  Errors are caught, and the keys stay in the dict.
AfterKill(s) == open \ {daqcontrolfd[s], statefd[s]}

CloseChannels(s) ==
    /\ open' = AfterKill(s)
    /\ dead' = dead \cap AfterKill(s)
    /\ UNCHANGED remote

CanWrite(fd) == fd \in open \ dead

-------------------------------------------------------------------------------
(* start, stop and init                                                        *)

\* start: a new dict with both flags 0, then the persistent processes.
StartSource(s) ==
    /\ gui = "notready" /\ s \notin active
    /\ StartPersistentProcesses(s, open)
    /\ active' = active \cup {s}
    /\ gui' = IF active' = Source THEN "halted" ELSE gui
    /\ runStatus' = runStatus \ {s}
    /\ beginEmitted' = beginEmitted \ {s}
    /\ runNumber' = [runNumber EXCEPT ![s] = 0]
    /\ UNCHANGED <<todo, run, asleep, commands>>

\* A start that raises an error leaves a dict without channels behind.
StartSourceRaises(s) ==
    /\ gui = "notready" /\ s \notin active
    /\ StartCanFail(s)
    /\ active' = active \cup {s}
    /\ gui' = "failed"
    /\ runStatus' = runStatus \ {s}
    /\ beginEmitted' = beginEmitted \ {s}
    /\ runNumber' = [runNumber EXCEPT ![s] = 0]
    /\ daqcontrolfd' = [daqcontrolfd EXCEPT ![s] = NoPipe]
    /\ statefd' = [statefd EXCEPT ![s] = NoPipe]
    /\ UNCHANGED <<todo, run, asleep, channels, commands>>

\* stop: the channels are closed and the dict is removed.  The GUI stops the
\* sources one by one, in whatever state it is when it gives up on them.
StopSource(s) ==
    /\ gui \in {"halted", "active", "failed"} /\ s \in active
    /\ CloseChannels(s)
    /\ active' = active \ {s}
    /\ gui' = IF active = {s} THEN "notready" ELSE "failed"
    /\ runStatus' = runStatus \ {s}
    /\ beginEmitted' = beginEmitted \ {s}
    /\ runNumber' = [runNumber EXCEPT ![s] = 0]
    /\ daqcontrolfd' = [daqcontrolfd EXCEPT ![s] = NoPipe]
    /\ statefd' = [statefd EXCEPT ![s] = NoPipe]
    /\ UNCHANGED <<todo, run, asleep, commands>>

\* init: kill, then start; the flags of the dict are kept.
InitSource(s) ==
    /\ gui = "halted" /\ s \in active
    /\ StartPersistentProcesses(s, AfterKill(s))
    /\ UNCHANGED <<gui, todo, run, active, flags, asleep, commands>>

InitSourceRaises(s) ==
    /\ gui = "halted" /\ s \in active
    /\ StartCanFail(s)
    /\ CloseChannels(s)
    /\ Raises
    /\ UNCHANGED <<flags, daqcontrolfd, statefd, commands>>

-------------------------------------------------------------------------------
(* begin                                                                       *)

\* The operator begins a run; every attempt gets a run number of its own.
GuiBegin ==
    /\ gui = "halted" /\ run < MaxRun
    /\ gui' = "beginning"
    /\ run' = run + 1
    /\ todo' = active
    /\ starts' = 0 /\ stops' = 0 /\ ended' = {}
    /\ UNCHANGED <<active, flags, fds, asleep, commanded>>

\* emitBegin, up to its `after 500'.
EmitBegin(s) ==
    /\ Called(s, "beginning")
    /\ CanWrite(statefd[s])
    /\ runNumber' = [runNumber EXCEPT ![s] = run]
    /\ beginEmitted' = beginEmitted \cup {s}
    /\ Sleeps(s)
    /\ UNCHANGED <<runStatus, fds, commands>>

\* Mutant: a write to a dead channel blocks.
EmitBeginBlocks(s) == FALSE /\ UNCHANGED vars

EmitBeginRaises(s) ==
    /\ Called(s, "beginning")
    /\ ~CanWrite(statefd[s])
    /\ Raises
    /\ UNCHANGED <<flags, fds, commands>>

Others(s) == active \ {s}

\* Mutant: the flags of the other sources are not looked at.
ReadyToStartAlways(s) == TRUE

ReadyToStart(s) == Others(s) \subseteq beginEmitted
AlreadyStarted(s) == Others(s) \cap runStatus # {}

BeginWoken(s) == gui = "beginning" /\ asleep = s

\* startAcquisition when a source that has not begun yet is left.
LeaveStartToOthers(s) ==
    /\ BeginWoken(s)
    /\ ~ReadyToStart(s)
    /\ Returns(s, "active")
    /\ UNCHANGED <<flags, fds, commands>>

\* startAcquisition when the runStatus of another source is already 1.
FindStarted(s) ==
    /\ BeginWoken(s)
    /\ ReadyToStart(s) /\ AlreadyStarted(s)
    /\ runStatus' = runStatus \cup Others(s)
    /\ Returns(s, "active")
    /\ UNCHANGED <<beginEmitted, runNumber, fds, commands>>

\* Mutants: the other sources are not told that the run has started, and the
\* beginEmitted flags are not cleared.
StartAcquisitionAlone(s) ==
    /\ BeginWoken(s)
    /\ ReadyToStart(s) /\ ~AlreadyStarted(s)
    /\ CanWrite(daqcontrolfd[s])
    /\ commanded' = commanded \cup {EccServer[s]}
    /\ starts' = starts + 1
    /\ runStatus' = runStatus \cup {s}
    /\ beginEmitted' = beginEmitted \ active
    /\ Returns(s, "active")
    /\ UNCHANGED <<runNumber, fds, stops, ended>>

StartAcquisitionKeepsFlags(s) ==
    /\ BeginWoken(s)
    /\ ReadyToStart(s) /\ ~AlreadyStarted(s)
    /\ CanWrite(daqcontrolfd[s])
    /\ commanded' = commanded \cup {EccServer[s]}
    /\ starts' = starts + 1
    /\ runStatus' = runStatus \cup active
    /\ Returns(s, "active")
    /\ UNCHANGED <<beginEmitted, runNumber, fds, stops, ended>>

\* startAcquisition sends the start command to the ECC server of s.
StartAcquisition(s) ==
    /\ BeginWoken(s)
    /\ ReadyToStart(s) /\ ~AlreadyStarted(s)
    /\ CanWrite(daqcontrolfd[s])
    /\ commanded' = commanded \cup {EccServer[s]}
    /\ starts' = starts + 1
    /\ runStatus' = runStatus \cup active
    /\ beginEmitted' = beginEmitted \ active
    /\ Returns(s, "active")
    /\ UNCHANGED <<runNumber, fds, stops, ended>>

\* The write fails after the runStatus of the other sources was set.
StartAcquisitionRaises(s) ==
    /\ BeginWoken(s)
    /\ ReadyToStart(s) /\ ~AlreadyStarted(s)
    /\ ~CanWrite(daqcontrolfd[s])
    /\ runStatus' = runStatus \cup Others(s)
    /\ Raises
    /\ UNCHANGED <<beginEmitted, runNumber, fds, commands>>

-------------------------------------------------------------------------------
(* end                                                                         *)

GuiEnd ==
    /\ gui = "active"
    /\ gui' = "ending"
    /\ todo' = active
    /\ UNCHANGED <<run, active, flags, fds, asleep, commands>>

\* Mutant: every source sends the stop command.
AlreadyStoppedNever(s) == FALSE

AlreadyStopped(s) == ~(Others(s) \subseteq runStatus)

\* emitEndRun needs the run number and a channel.
CanEmitEnd(s) == runNumber[s] # 0 /\ CanWrite(statefd[s])

\* stopAcquisition sends the stop command, up to its `after 5000'.
StopAcquisition(s) ==
    /\ Called(s, "ending")
    /\ ~AlreadyStopped(s)
    /\ CanWrite(daqcontrolfd[s])
    /\ commanded' = commanded \ {EccServer[s]}
    /\ stops' = stops + 1
    /\ runStatus' = runStatus \ active
    /\ Sleeps(s)
    /\ UNCHANGED <<beginEmitted, runNumber, fds, starts, ended>>

StopAcquisitionRaises(s) ==
    /\ Called(s, "ending")
    /\ ~AlreadyStopped(s)
    /\ ~CanWrite(daqcontrolfd[s])
    /\ runStatus' = runStatus \ Others(s)
    /\ Raises
    /\ UNCHANGED <<beginEmitted, runNumber, fds, commands>>

\* emitEndRun of the source that sent the stop command.
EmitEndRun(s) ==
    /\ gui = "ending" /\ asleep = s
    /\ CanEmitEnd(s)
    /\ ended' = ended \cup {s}
    /\ Returns(s, "halted")
    /\ UNCHANGED <<flags, fds, commanded, starts, stops>>

EmitEndRunRaises(s) ==
    /\ gui = "ending" /\ asleep = s
    /\ ~CanEmitEnd(s)
    /\ Raises
    /\ UNCHANGED <<flags, fds, commands>>

\* end when stopAcquisition finds that another source was stopped.
EndStopped(s) ==
    /\ Called(s, "ending")
    /\ AlreadyStopped(s)
    /\ runStatus' = runStatus \ Others(s)
    /\ CanEmitEnd(s)
    /\ ended' = ended \cup {s}
    /\ Returns(s, "halted")
    /\ UNCHANGED <<beginEmitted, runNumber, fds, commanded, starts, stops>>

EndStoppedRaises(s) ==
    /\ Called(s, "ending")
    /\ AlreadyStopped(s)
    /\ runStatus' = runStatus \ Others(s)
    /\ ~CanEmitEnd(s)
    /\ Raises
    /\ UNCHANGED <<beginEmitted, runNumber, fds, commands>>

-------------------------------------------------------------------------------
(* Errors                                                                      *)

\* The operator goes on without stopping the sources.
GuiRetry ==
    /\ Retry
    /\ gui = "failed" /\ active = Source
    /\ gui' = "halted"
    /\ UNCHANGED <<todo, run, active, flags, fds, asleep, commands>>

\* The ssh client behind a channel dies.  handleOutput leaves it to "other code"
\* to close the channel, so its name stays in use.
PipeBreaks(p) ==
    /\ PipesBreak
    /\ p \in open \ dead
    /\ dead' = dead \cup {p}
    /\ UNCHANGED <<gui, todo, run, active, flags, daqcontrolfd, statefd, open,
                   remote, asleep, commands>>

-------------------------------------------------------------------------------
(* The specification                                                           *)

Init ==
    /\ gui = "notready"
    /\ todo = {} /\ run = 0 /\ active = {}
    /\ runStatus = {} /\ beginEmitted = {}
    /\ runNumber = [s \in Source |-> 0]
    /\ daqcontrolfd = [s \in Source |-> NoPipe]
    /\ statefd = [s \in Source |-> NoPipe]
    /\ open = {} /\ dead = {} /\ remote = [p \in Pipe |-> NoHost]
    /\ asleep = NoSource
    /\ commanded = {} /\ starts = 0 /\ stops = 0 /\ ended = {}

\* The provider's part in a transition that was begun.
BeginProc(s) ==
    \/ EmitBegin(s) \/ EmitBeginRaises(s)
    \/ LeaveStartToOthers(s) \/ FindStarted(s)
    \/ StartAcquisition(s) \/ StartAcquisitionRaises(s)

EndProc(s) ==
    \/ StopAcquisition(s) \/ StopAcquisitionRaises(s)
    \/ EmitEndRun(s) \/ EmitEndRunRaises(s)
    \/ EndStopped(s) \/ EndStoppedRaises(s)

Next ==
    \/ \E s \in Source :
          \/ StartSource(s) \/ StartSourceRaises(s) \/ StopSource(s)
          \/ InitSource(s) \/ InitSourceRaises(s)
          \/ BeginProc(s) \/ EndProc(s)
    \/ GuiBegin \/ GuiEnd \/ GuiRetry
    \/ \E p \in Pipe : PipeBreaks(p)

Spec == Init /\ [][Next]_vars

\* The GUI's loop calls the source it has not called yet, and a proc that
\* sleeps is resumed by the interpreter: a transition does not stop half way.
Fairness == \A s \in Source : WF_vars(BeginProc(s) \/ EndProc(s))

FairSpec == Spec /\ Fairness

-------------------------------------------------------------------------------
(* Properties                                                                  *)

\* The type of the state.
TypeOK ==
    /\ gui \in GuiState
    /\ todo \subseteq Source /\ active \subseteq Source
    /\ run \in Nat
    /\ runStatus \subseteq Source /\ beginEmitted \subseteq Source
    /\ runNumber \in [Source -> Nat]
    /\ daqcontrolfd \in [Source -> Pipe \cup {NoPipe}]
    /\ statefd \in [Source -> Pipe \cup {NoPipe}]
    /\ open \subseteq Pipe /\ dead \subseteq open
    /\ remote \in [Pipe -> Host \cup {NoHost}]
    /\ asleep \in Source \cup {NoSource}
    /\ commanded \subseteq Server
    /\ starts \in Nat /\ stops \in Nat
    /\ ended \subseteq Source

\* startAcquisition: the electronics are told to start only when every source
\* has emitted the begin item of this run.  The comment on startAcquisition
\* (getProvider.tcl:557) states it as the assumption the proc works under.
StartNeedsAllBegins ==
    [][starts' > starts => \A s \in active : runNumber[s] = run]_vars

\* The flags elect one source in each run, whatever the order of the calls: a
\* run that is active has had one start command and no stop.
OneStart ==
    /\ gui = "active" => starts = 1 /\ stops = 0
    /\ starts <= 1 /\ stops <= starts

\* stopAcquisition precedes emitEndRun: a source emits its end item only after
\* the one stop command that answers the one start command of the run.
EndNeedsStop ==
    ended # {} => starts = 1 /\ stops = 1

\* startPersistentProcesses (getProvider.tcl:388-391) keeps a "SSH pipe to spdaq host
\* [...] to submit DAQ start/stop" and one "to this host [...] to emit begin/end RingItem
\* to rings": what is written to a channel of a dict gets to the host its
\* parameters name.  (In general this fails: an init can make it false.)
CommandsReachTheirHosts ==
    \A s \in active :
        /\ CanWrite(daqcontrolfd[s]) => remote[daqcontrolfd[s]] = DaqHost[s]
        /\ CanWrite(statefd[s]) => remote[statefd[s]] = StateHost[s]

\* The other sources whose dicts name a channel that the init of s closes, or
\* that an earlier one closed.
NamesClosed(s, o) == ~({daqcontrolfd[o], statefd[o]} \subseteq AfterKill(s) \cup {NoPipe})

\* startPipe and killProcess (getProvider.tcl:759, 982): there is one way only by
\* which a dict comes to name a channel to a wrong host, an init while the dict
\* of another source names a channel that this or an earlier init closed.  Starts,
\* stops and errors in any order, channels that die, and sharing do not lead there.
OnlyStaleNamesMislead ==
    [][CommandsReachTheirHosts /\ ~CommandsReachTheirHosts' =>
          \E s \in Source : InitSource(s) /\ \E o \in Others(s) : NamesClosed(s, o)]_vars

\* init "kills off the persistent processes and restarts them"
\* (getProvider.tcl:255-256): afterwards the source's channels can be written to.
InitReopensPipes ==
    [][\A s \in Source : InitSource(s) =>
          CanWrite(daqcontrolfd[s])' /\ CanWrite(statefd[s])']_vars

\* A begin or an end that was asked for comes to a conclusion: every source is
\* called, and the GUI is not left waiting half way.
TransitionsConclude ==
    /\ gui = "beginning" ~> gui \in {"active", "failed"}
    /\ gui = "ending" ~> gui \in {"halted", "failed"}
===============================================================================
