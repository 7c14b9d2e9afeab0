--------------------------- MODULE RunControlProofs ---------------------------
(***************************************************************************)
(* Theorems about RunControl for every set of sources and every assignment *)
(* of hosts and servers to them.                                           *)
(***************************************************************************)
EXTENDS RunControlRefinement, TLAPS

-------------------------------------------------------------------------------
(* Strengthenings                                                              *)

\* Until every source was started no dict names a channel that was closed.
NamesInv ==
    gui = "notready" => \A s \in active : {daqcontrolfd[s], statefd[s]} \subseteq open

\* What the provider's flags say of a run in each state of the GUI, when every
\* error is answered by stopping all the sources.
IdleInv ==
    gui \in {"notready", "halted"} => runStatus = {} /\ beginEmitted = {}

CallInv ==
    /\ gui \notin {"beginning", "ending"} => todo = {} /\ asleep = NoSource
    /\ gui \in {"beginning", "ending"} => todo # {}
    /\ asleep # NoSource => asleep \in todo
    /\ gui \in {"halted", "beginning", "active", "ending"} => active = Source
    /\ runStatus \subseteq active /\ beginEmitted \subseteq active

BeginningInv ==
    gui = "beginning" =>
        /\ runStatus = {} /\ ended = {} /\ starts = 0 /\ stops = 0
        /\ run > 0
        /\ \A s \in Source :
              /\ s \in beginEmitted <=> s \notin todo \/ s = asleep
              /\ s \in beginEmitted <=> runNumber[s] = run

AllBegun == run > 0 /\ beginEmitted = {} /\ \A s \in Source : runNumber[s] = run

ActiveInv ==
    gui = "active" =>
        AllBegun /\ runStatus = Source /\ starts = 1 /\ stops = 0 /\ ended = {}

Taking ==
    /\ stops = 0 /\ runStatus = Source /\ ended = {}
    /\ todo = Source /\ asleep = NoSource

Closing ==
    /\ stops = 1 /\ runStatus = {} /\ ended = Source \ todo
    /\ asleep = NoSource <=> todo # Source

EndingInv == gui = "ending" => AllBegun /\ starts = 1 /\ (Taking \/ Closing)

CountInv ==
    /\ starts <= 1 /\ stops <= starts
    /\ EndNeedsStop
    /\ \A s \in Source : runNumber[s] <= run

RunInv ==
    /\ IdleInv /\ CallInv /\ BeginningInv /\ ActiveInv /\ EndingInv /\ CountInv

-------------------------------------------------------------------------------
(* Types                                                                      *)

\* startPipe returns a channel, or nothing when it copies from a source that
\* has none.
LEMMA StartPipeType ==
    ASSUME TypeOK, NEW s \in Source, NEW host,
           NEW fd \in [Source -> Pipe \cup {NoPipe}], NEW free \in SUBSET Pipe
    PROVE  StartPipe(s, fd, host, free) \subseteq Pipe \cup {NoPipe}
  BY DEF StartPipe, Peers, TypeOK

\* startPersistentProcesses: each channel of the dict is either new, or one that
\* another source names for the same host.
LEMMA StartPicks ==
    ASSUME TypeOK, NEW s \in Source, NEW stillOpen \in SUBSET open,
           StartPersistentProcesses(s, stillOpen)
    PROVE  \E d, t \in Pipe :
             /\ daqcontrolfd' = [daqcontrolfd EXCEPT ![s] = d]
             /\ statefd' = [statefd EXCEPT ![s] = t]
             /\ \/ d \in open' \ stillOpen /\ remote'[d] = DaqHost[s]
                \/ \E o \in active \ {s} : d = daqcontrolfd[o] /\ DaqHost[o] = DaqHost[s]
             /\ \/ t \in open' \ stillOpen /\ remote'[t] = StateHost[s]
                \/ \E o \in active \ {s} : t = statefd[o] /\ StateHost[o] = StateHost[s]
             /\ stillOpen \subseteq open' /\ open' \subseteq stillOpen \cup {d, t}
             /\ dead' = dead \cap stillOpen
             /\ \A p \in stillOpen : remote'[p] = remote[p]
             /\ remote' \in [Pipe -> Host \cup {NoHost}]
<1> DEFINE newD == FreePipes(stillOpen)
<1>1. PICK d \in StartPipe(s, daqcontrolfd, DaqHost, newD) :
         \E t \in StartPipe(s, statefd, StateHost,
                            FreePipes(stillOpen \cup Opened(s, DaqHost, d))) :
         /\ d # NoPipe /\ t # NoPipe
         /\ daqcontrolfd' = [daqcontrolfd EXCEPT ![s] = d]
         /\ statefd' = [statefd EXCEPT ![s] = t]
         /\ open' = stillOpen \cup Opened(s, DaqHost, d) \cup Opened(s, StateHost, t)
         /\ dead' = dead \cap stillOpen
         /\ remote' = [p \in Pipe |->
                          CASE p \in Opened(s, DaqHost, d) -> DaqHost[s]
                            [] p \in Opened(s, StateHost, t) -> StateHost[s]
                            [] OTHER -> remote[p]]
  BY DEF StartPersistentProcesses
<1> DEFINE newT == FreePipes(stillOpen \cup Opened(s, DaqHost, d))
<1>2. PICK t \in StartPipe(s, statefd, StateHost, newT) :
         /\ d # NoPipe /\ t # NoPipe
         /\ daqcontrolfd' = [daqcontrolfd EXCEPT ![s] = d]
         /\ statefd' = [statefd EXCEPT ![s] = t]
         /\ open' = stillOpen \cup Opened(s, DaqHost, d) \cup Opened(s, StateHost, t)
         /\ dead' = dead \cap stillOpen
         /\ remote' = [p \in Pipe |->
                          CASE p \in Opened(s, DaqHost, d) -> DaqHost[s]
                            [] p \in Opened(s, StateHost, t) -> StateHost[s]
                            [] OTHER -> remote[p]]
  BY <1>1
<1>3. newD \in SUBSET Pipe /\ newT \in SUBSET Pipe
  BY DEF FreePipes
<1>4. d \in Pipe /\ t \in Pipe
  <2>1. daqcontrolfd \in [Source -> Pipe \cup {NoPipe}]
        /\ statefd \in [Source -> Pipe \cup {NoPipe}]
    BY DEF TypeOK
  <2> HIDE DEF newD, newT
  <2>2. /\ StartPipe(s, daqcontrolfd, DaqHost, newD) \subseteq Pipe \cup {NoPipe}
        /\ StartPipe(s, statefd, StateHost, newT) \subseteq Pipe \cup {NoPipe}
    BY <1>3, <2>1, StartPipeType
  <2>3. QED
    BY <1>2, <2>2
<1>5. /\ Opened(s, DaqHost, d) \subseteq {d} \ stillOpen
      /\ Opened(s, StateHost, t) \subseteq {t} \ (stillOpen \cup Opened(s, DaqHost, d))
  BY <1>2 DEF Opened, StartPipe, FreePipes
<1>6. \/ d \in open' \ stillOpen /\ remote'[d] = DaqHost[s]
      \/ \E o \in active \ {s} : d = daqcontrolfd[o] /\ DaqHost[o] = DaqHost[s]
  <2>1. CASE Peers(s, DaqHost) = {}
    BY <1>2, <1>4, <1>5, <2>1 DEF Opened
  <2>2. CASE Peers(s, DaqHost) # {}
    BY <1>2, <2>2 DEF StartPipe, Peers
  <2>3. QED
    BY <2>1, <2>2
<1>7. \/ t \in open' \ stillOpen /\ remote'[t] = StateHost[s]
      \/ \E o \in active \ {s} : t = statefd[o] /\ StateHost[o] = StateHost[s]
  <2>1. CASE Peers(s, StateHost) = {}
    <3>1. t \in Opened(s, StateHost, t) /\ t \notin Opened(s, DaqHost, d)
      BY <1>5, <2>1 DEF Opened
    <3>2. QED
      BY <1>2, <1>4, <1>5, <3>1
  <2>2. CASE Peers(s, StateHost) # {}
    BY <1>2, <2>2 DEF StartPipe, Peers
  <2>3. QED
    BY <2>1, <2>2
<1>8. \A p \in stillOpen : remote'[p] = remote[p]
  BY <1>2, <1>5 DEF TypeOK
<1>9. remote' \in [Pipe -> Host \cup {NoHost}]
  BY <1>2, ConstantsAssumption DEF TypeOK
<1>10. stillOpen \subseteq open' /\ open' \subseteq stillOpen \cup {d, t}
  BY <1>2, <1>5
<1> QED
  BY <1>2, <1>4, <1>6, <1>7, <1>8, <1>9, <1>10

\* So the channels keep their types.
LEMMA StartTypes ==
    ASSUME TypeOK, NEW s \in Source, NEW stillOpen \in SUBSET open,
           StartPersistentProcesses(s, stillOpen)
    PROVE  /\ daqcontrolfd' \in [Source -> Pipe \cup {NoPipe}]
           /\ statefd' \in [Source -> Pipe \cup {NoPipe}]
           /\ open' \subseteq Pipe /\ dead' \subseteq open'
           /\ remote' \in [Pipe -> Host \cup {NoHost}]
<1>1. PICK d, t \in Pipe :
         /\ daqcontrolfd' = [daqcontrolfd EXCEPT ![s] = d]
         /\ statefd' = [statefd EXCEPT ![s] = t]
         /\ stillOpen \subseteq open' /\ open' \subseteq stillOpen \cup {d, t}
         /\ dead' = dead \cap stillOpen
         /\ remote' \in [Pipe -> Host \cup {NoHost}]
  BY StartPicks
<1> QED
  BY <1>1 DEF TypeOK

\* Every step preserves the types of the state.
LEMMA TypeStep == TypeOK /\ [Next]_vars => TypeOK'
<1> SUFFICES ASSUME TypeOK, [Next]_vars PROVE TypeOK'
  OBVIOUS
<1> USE ConstantsAssumption DEF TypeOK, GuiState, channels, CloseChannels
<1>1. ASSUME NEW s \in Source, StartSource(s) PROVE TypeOK'
  <2>1. /\ daqcontrolfd' \in [Source -> Pipe \cup {NoPipe}]
        /\ statefd' \in [Source -> Pipe \cup {NoPipe}]
        /\ open' \subseteq Pipe /\ dead' \subseteq open'
        /\ remote' \in [Pipe -> Host \cup {NoHost}]
    BY <1>1, StartTypes DEF StartSource, AfterKill
  <2>2. QED
    BY <1>1, <2>1 DEF StartSource, flags, commands
<1>2. ASSUME NEW s \in Source, StartSourceRaises(s) PROVE TypeOK'
  BY <1>2 DEF StartSourceRaises, fds, commands
<1>3. ASSUME NEW s \in Source, StopSource(s) PROVE TypeOK'
  BY <1>3 DEF StopSource, AfterKill, fds, commands
<1>4. ASSUME NEW s \in Source, InitSource(s) PROVE TypeOK'
  <2>1. /\ daqcontrolfd' \in [Source -> Pipe \cup {NoPipe}]
        /\ statefd' \in [Source -> Pipe \cup {NoPipe}]
        /\ open' \subseteq Pipe /\ dead' \subseteq open'
        /\ remote' \in [Pipe -> Host \cup {NoHost}]
    BY <1>4, StartTypes DEF InitSource, AfterKill
  <2>2. QED
    BY <1>4, <2>1 DEF InitSource, flags, commands
<1>5. ASSUME NEW s \in Source, InitSourceRaises(s) PROVE TypeOK'
  BY <1>5 DEF InitSourceRaises, AfterKill, Raises, flags, commands
<1>6. ASSUME NEW s \in Source, EmitBegin(s) PROVE TypeOK'
  BY <1>6 DEF EmitBegin, Called, Sleeps, fds, commands
<1>7. ASSUME NEW s \in Source, EmitBeginRaises(s) PROVE TypeOK'
  BY <1>7 DEF EmitBeginRaises, Raises, flags, fds, commands
<1>8. ASSUME NEW s \in Source, LeaveStartToOthers(s) PROVE TypeOK'
  BY <1>8 DEF LeaveStartToOthers, Returns, flags, fds, commands
<1>9. ASSUME NEW s \in Source, FindStarted(s) PROVE TypeOK'
  BY <1>9 DEF FindStarted, Returns, Others, fds, commands
<1>10. ASSUME NEW s \in Source, StartAcquisition(s) PROVE TypeOK'
  BY <1>10 DEF StartAcquisition, Returns, fds
<1>11. ASSUME NEW s \in Source, StartAcquisitionRaises(s) PROVE TypeOK'
  BY <1>11 DEF StartAcquisitionRaises, Raises, Others, fds, commands
<1>12. ASSUME NEW s \in Source, StopAcquisition(s) PROVE TypeOK'
  BY <1>12 DEF StopAcquisition, Called, Sleeps, fds
<1>13. ASSUME NEW s \in Source, StopAcquisitionRaises(s) PROVE TypeOK'
  BY <1>13 DEF StopAcquisitionRaises, Raises, fds, commands
<1>14. ASSUME NEW s \in Source, EmitEndRun(s) PROVE TypeOK'
  BY <1>14 DEF EmitEndRun, Returns, flags, fds
<1>15. ASSUME NEW s \in Source, EmitEndRunRaises(s) PROVE TypeOK'
  BY <1>15 DEF EmitEndRunRaises, Raises, flags, fds, commands
<1>16. ASSUME NEW s \in Source, EndStopped(s) PROVE TypeOK'
  BY <1>16 DEF EndStopped, Returns, Others, fds
<1>17. ASSUME NEW s \in Source, EndStoppedRaises(s) PROVE TypeOK'
  BY <1>17 DEF EndStoppedRaises, Raises, Others, fds, commands
<1>18. CASE GuiBegin
  BY <1>18 DEF GuiBegin, flags, fds
<1>19. CASE GuiEnd
  BY <1>19 DEF GuiEnd, flags, fds, commands
<1>20. CASE GuiRetry
  BY <1>20 DEF GuiRetry, flags, fds, commands
<1>21. ASSUME NEW p \in Pipe, PipeBreaks(p) PROVE TypeOK'
  BY <1>21 DEF PipeBreaks, flags, commands
<1>22. CASE UNCHANGED vars
  BY <1>22 DEF vars
<1> QED
  BY <1>1, <1>2, <1>3, <1>4, <1>5, <1>6, <1>7, <1>8, <1>9, <1>10, <1>11, <1>12, <1>13, <1>14, <1>15, <1>16, <1>17, <1>18, <1>19, <1>20, <1>21, <1>22 DEF Next, BeginProc, EndProc

\* The state always has the types the provider gives it (the namespace
\* variables of getProvider.tcl and the keys of the dicts).
THEOREM TypesCorrect == Spec => []TypeOK
<1>1. Init => TypeOK
  BY ConstantsAssumption DEF Init, TypeOK, GuiState
<1>2. QED
  BY <1>1, TypeStep, PTL DEF Spec

-------------------------------------------------------------------------------
(* Channels                                                                   *)

\* startPersistentProcesses gives s a channel to the right host if the dicts it
\* copies from name channels that are open.
LEMMA StartKeepsReach ==
    ASSUME TypeOK, CommandsReachTheirHosts, NEW s \in Source,
           NEW stillOpen \in SUBSET open, StartPersistentProcesses(s, stillOpen),
           active' = active \cup {s},
           \A o \in active \ {s} :
              {daqcontrolfd[o], statefd[o]} \subseteq stillOpen \cup {NoPipe}
    PROVE  CommandsReachTheirHosts'
<1> USE ConstantsAssumption DEF TypeOK
<1>1. PICK d, t \in Pipe :
         /\ daqcontrolfd' = [daqcontrolfd EXCEPT ![s] = d]
         /\ statefd' = [statefd EXCEPT ![s] = t]
         /\ \/ d \in open' \ stillOpen /\ remote'[d] = DaqHost[s]
            \/ \E o \in active \ {s} : d = daqcontrolfd[o] /\ DaqHost[o] = DaqHost[s]
         /\ \/ t \in open' \ stillOpen /\ remote'[t] = StateHost[s]
            \/ \E o \in active \ {s} : t = statefd[o] /\ StateHost[o] = StateHost[s]
         /\ stillOpen \subseteq open' /\ open' \subseteq stillOpen \cup {d, t}
         /\ dead' = dead \cap stillOpen
         /\ \A p \in stillOpen : remote'[p] = remote[p]
  BY StartPicks
<1>2. NoPipe \notin open'
  BY <1>1
<1>3. ASSUME NEW p, p \in open' \ dead', p \in stillOpen \cup {NoPipe}
      PROVE  p \in open \ dead /\ remote'[p] = remote[p]
  BY <1>1, <1>2, <1>3
<1>4. ASSUME NEW o \in active \ {s}
      PROVE  /\ daqcontrolfd[o] \in open' \ dead' => remote'[daqcontrolfd[o]] = DaqHost[o]
             /\ statefd[o] \in open' \ dead' => remote'[statefd[o]] = StateHost[o]
  <2>1. {daqcontrolfd[o], statefd[o]} \subseteq stillOpen \cup {NoPipe}
    OBVIOUS
  <2>2. QED
    BY <1>3, <2>1 DEF CommandsReachTheirHosts, CanWrite
<1>5. /\ d \in open' \ dead' => remote'[d] = DaqHost[s]
      /\ t \in open' \ dead' => remote'[t] = StateHost[s]
  BY <1>1, <1>4
<1>6. ASSUME NEW a \in active'
      PROVE  /\ daqcontrolfd'[a] \in open' \ dead' => remote'[daqcontrolfd'[a]] = DaqHost[a]
             /\ statefd'[a] \in open' \ dead' => remote'[statefd'[a]] = StateHost[a]
  <2>1. CASE a = s
    BY <1>1, <1>5, <2>1
  <2>2. CASE a # s
    <3>1. a \in active \ {s} /\ daqcontrolfd'[a] = daqcontrolfd[a] /\ statefd'[a] = statefd[a]
      BY <1>1, <2>2
    <3>2. QED
      BY <1>4, <3>1
  <2>3. QED
    BY <2>1, <2>2
<1> QED
  BY <1>6 DEF CommandsReachTheirHosts, CanWrite

\* A step that opens no channel keeps those that can be written to where they are.
LEMMA ReachFrame ==
    ASSUME TypeOK, CommandsReachTheirHosts, active' \subseteq active, UNCHANGED remote,
           open' \ dead' \subseteq open \ dead,
           \A s \in active' : daqcontrolfd'[s] = daqcontrolfd[s] /\ statefd'[s] = statefd[s]
    PROVE  CommandsReachTheirHosts'
  BY DEF CommandsReachTheirHosts, CanWrite

\* Begin and end, and the steps of the GUI, leave the channels alone.
LEMMA ProcsKeepChannels ==
    ASSUME NEW s \in Source, BeginProc(s) \/ EndProc(s) \/ GuiBegin \/ GuiEnd \/ GuiRetry
    PROVE  UNCHANGED <<active, fds>> /\ gui' # "notready"
<1>1. CASE BeginProc(s)
  BY <1>1 DEF BeginProc, EmitBegin, EmitBeginRaises, LeaveStartToOthers, FindStarted,
         StartAcquisition, StartAcquisitionRaises, BeginWoken, Called, Sleeps, Raises, Returns
<1>2. CASE EndProc(s)
  BY <1>2 DEF EndProc, StopAcquisition, StopAcquisitionRaises, EmitEndRun,
         EmitEndRunRaises, EndStopped, EndStoppedRaises, Called, Sleeps, Raises, Returns
<1>3. CASE GuiBegin \/ GuiEnd \/ GuiRetry
  BY <1>3 DEF GuiBegin, GuiEnd, GuiRetry
<1> QED
  BY <1>1, <1>2, <1>3

\* Every step preserves NamesInv.
LEMMA NamesStep == TypeOK /\ NamesInv /\ [Next]_vars => NamesInv'
<1> SUFFICES ASSUME TypeOK, NamesInv, [Next]_vars PROVE NamesInv'
  OBVIOUS
<1> USE ConstantsAssumption DEF TypeOK, NamesInv
<1>1. ASSUME NEW s \in Source, StartSource(s) PROVE NamesInv'
  <2>1. PICK d, t \in Pipe :
           /\ daqcontrolfd' = [daqcontrolfd EXCEPT ![s] = d]
           /\ statefd' = [statefd EXCEPT ![s] = t]
           /\ \/ d \in open' \ open \/ \E o \in active \ {s} : d = daqcontrolfd[o]
           /\ \/ t \in open' \ open \/ \E o \in active \ {s} : t = statefd[o]
           /\ open \subseteq open'
    <3>1. StartPersistentProcesses(s, open)
      BY <1>1 DEF StartSource
    <3>2. QED
      BY <3>1, StartPicks
  <2>2. gui = "notready" /\ active' = active \cup {s}
    BY <1>1 DEF StartSource
  <2>3. \A o \in active : daqcontrolfd[o] \in open /\ statefd[o] \in open
    BY <2>2
  <2>4. d \in open' /\ t \in open'
    BY <2>1, <2>3
  <2>5. \A o \in active' : daqcontrolfd'[o] \in open' /\ statefd'[o] \in open'
    BY <2>1, <2>2, <2>3, <2>4
  <2>6. QED
    BY <2>5
<1>2. ASSUME NEW s \in Source,
             StartSourceRaises(s) \/ InitSource(s) \/ InitSourceRaises(s)
      PROVE  NamesInv'
  BY <1>2 DEF StartSourceRaises, InitSource, InitSourceRaises, Raises
<1>3. ASSUME NEW s \in Source, StopSource(s) PROVE NamesInv'
  BY <1>3 DEF StopSource
<1>4. ASSUME NEW s \in Source, BeginProc(s) \/ EndProc(s) PROVE NamesInv'
  BY <1>4, ProcsKeepChannels
<1>5. CASE GuiBegin \/ GuiEnd \/ GuiRetry
  BY <1>5, ProcsKeepChannels
<1>6. CASE UNCHANGED vars \/ \E p \in Pipe : PipeBreaks(p)
  BY <1>6 DEF vars, channels, PipeBreaks
<1> QED
  BY <1>1, <1>2, <1>3, <1>4, <1>5, <1>6 DEF Next

\* A step after which a command can get to a wrong host is an init that leaves a
\* closed channel in another dict.
LEMMA MisleadingStep ==
    ASSUME TypeOK, NamesInv, [Next]_vars,
           CommandsReachTheirHosts, ~CommandsReachTheirHosts'
    PROVE  \E s \in Source : InitSource(s) /\ \E o \in Others(s) : NamesClosed(s, o)
<1> USE ConstantsAssumption DEF TypeOK
<1>1. ASSUME NEW s \in Source, StartSource(s) PROVE FALSE
  <2>1. /\ StartPersistentProcesses(s, open) /\ active' = active \cup {s}
        /\ gui = "notready"
    BY <1>1 DEF StartSource
  <2>2. \A o \in active \ {s} :
           {daqcontrolfd[o], statefd[o]} \subseteq open \cup {NoPipe}
    BY <2>1 DEF NamesInv
  <2>3. QED
    BY <2>1, <2>2, StartKeepsReach
<1>2. ASSUME NEW s \in Source, StartSourceRaises(s) PROVE FALSE
  <2>1. ASSUME NEW a \in active'
        PROVE  /\ daqcontrolfd'[a] \in {daqcontrolfd[a], NoPipe} /\ statefd'[a] \in {statefd[a], NoPipe}
               /\ a = s => daqcontrolfd'[a] = NoPipe /\ statefd'[a] = NoPipe
               /\ a # s => a \in active
    BY <1>2 DEF StartSourceRaises
  <2>2. UNCHANGED channels
    BY <1>2 DEF StartSourceRaises
  <2>3. QED
    BY <2>1, <2>2 DEF CommandsReachTheirHosts, CanWrite, channels
<1>3. ASSUME NEW s \in Source, StopSource(s) PROVE FALSE
  BY <1>3, ReachFrame DEF StopSource, CloseChannels, AfterKill
<1>4. ASSUME NEW s \in Source, InitSource(s), \A o \in Others(s) : ~NamesClosed(s, o)
      PROVE  FALSE
  <2>1. StartPersistentProcesses(s, AfterKill(s)) /\ active' = active \cup {s}
    BY <1>4 DEF InitSource
  <2>2. AfterKill(s) \in SUBSET open
    BY DEF AfterKill
  <2>3. \A o \in active \ {s} :
           {daqcontrolfd[o], statefd[o]} \subseteq AfterKill(s) \cup {NoPipe}
    BY <1>4 DEF Others, NamesClosed
  <2>4. QED
    BY <2>1, <2>2, <2>3, StartKeepsReach
<1>5. ASSUME NEW s \in Source, InitSourceRaises(s) PROVE FALSE
  BY <1>5, ReachFrame DEF InitSourceRaises, CloseChannels, AfterKill, Raises
<1>6. ASSUME NEW s \in Source, BeginProc(s) \/ EndProc(s) PROVE FALSE
  BY <1>6, ProcsKeepChannels, ReachFrame DEF fds, channels
<1>7. CASE GuiBegin \/ GuiEnd \/ GuiRetry
  BY <1>7, ProcsKeepChannels, ReachFrame DEF fds, channels
<1>8. ASSUME NEW p \in Pipe, PipeBreaks(p) PROVE FALSE
  BY <1>8, ReachFrame DEF PipeBreaks
<1>9. CASE UNCHANGED vars
  BY <1>9, ReachFrame DEF vars
<1> QED
  BY <1>1, <1>2, <1>3, <1>4, <1>5, <1>6, <1>7, <1>8, <1>9 DEF Next

\* getProvider.tcl:759, 982: whatever sources share, whatever fails and whichever
\* names Tcl gives to channels, commands get to the hosts they are meant for until
\* a source is initialised while another dict names a channel that was closed.
THEOREM CommandsStayOnTheirHosts == Spec => OnlyStaleNamesMislead
<1>1. Init => NamesInv
  BY DEF Init, NamesInv
<1>2. TypeOK /\ NamesInv /\ [Next]_vars =>
         [CommandsReachTheirHosts /\ ~CommandsReachTheirHosts' =>
            \E s \in Source : InitSource(s) /\ \E o \in Others(s) : NamesClosed(s, o)]_vars
  BY MisleadingStep
<1>3. QED
  BY <1>1, <1>2, NamesStep, TypesCorrect, PTL DEF Spec, OnlyStaleNamesMislead

-------------------------------------------------------------------------------
(* Runs                                                                       *)

\* Every step preserves RunInv, unless the operator may go on after an error.
LEMMA RunInvStep ==
    ASSUME Retry = FALSE
    PROVE  TypeOK /\ RunInv /\ [Next]_vars => RunInv'
<1> SUFFICES ASSUME TypeOK, RunInv, [Next]_vars PROVE RunInv'
  OBVIOUS
<1> USE ConstantsAssumption DEF TypeOK, GuiState, RunInv, IdleInv, CallInv, BeginningInv, ActiveInv, EndingInv, CountInv, AllBegun,
      Taking, Closing, EndNeedsStop
<1>1. ASSUME NEW s \in Source, StartSource(s) PROVE RunInv'
  BY <1>1 DEF StartSource, fds, flags, commands
<1>2. ASSUME NEW s \in Source, StartSourceRaises(s) PROVE RunInv'
  BY <1>2 DEF StartSourceRaises, fds, commands
<1>3. ASSUME NEW s \in Source, StopSource(s) PROVE RunInv'
  BY <1>3 DEF StopSource, AfterKill, fds, commands
<1>4. ASSUME NEW s \in Source, InitSource(s) PROVE RunInv'
  BY <1>4 DEF InitSource, flags, commands
<1>5. ASSUME NEW s \in Source, InitSourceRaises(s) PROVE RunInv'
  BY <1>5 DEF InitSourceRaises, Raises, flags, commands
<1>6. ASSUME NEW s \in Source, EmitBegin(s) PROVE RunInv'
  BY <1>6 DEF EmitBegin, Called, Sleeps, fds, commands
<1>7. ASSUME NEW s \in Source, EmitBeginRaises(s) PROVE RunInv'
  BY <1>7 DEF EmitBeginRaises, Called, Raises, flags, fds, commands
<1>8. ASSUME NEW s \in Source, LeaveStartToOthers(s) PROVE RunInv'
  BY <1>8 DEF LeaveStartToOthers, BeginWoken, ReadyToStart, Others, Returns, flags, fds, commands
<1>9. ASSUME NEW s \in Source, FindStarted(s) PROVE RunInv'
  BY <1>9 DEF FindStarted, BeginWoken, AlreadyStarted, Others, Returns, fds, commands
<1>10. ASSUME NEW s \in Source, StartAcquisition(s) PROVE RunInv'
  BY <1>10 DEF StartAcquisition, BeginWoken, ReadyToStart, Others, Returns, fds
<1>11. ASSUME NEW s \in Source, StartAcquisitionRaises(s) PROVE RunInv'
  BY <1>11 DEF StartAcquisitionRaises, BeginWoken, Raises, Others, fds, commands
<1>12. ASSUME NEW s \in Source, StopAcquisition(s) PROVE RunInv'
  BY <1>12 DEF StopAcquisition, Called, AlreadyStopped, Others, Sleeps, fds
<1>13. ASSUME NEW s \in Source, StopAcquisitionRaises(s) PROVE RunInv'
  BY <1>13 DEF StopAcquisitionRaises, Called, Raises, Others, fds, commands
<1>14. ASSUME NEW s \in Source, EmitEndRun(s) PROVE RunInv'
  BY <1>14 DEF EmitEndRun, Returns, flags, fds
<1>15. ASSUME NEW s \in Source, EmitEndRunRaises(s) PROVE RunInv'
  BY <1>15 DEF EmitEndRunRaises, Raises, flags, fds, commands
<1>16. ASSUME NEW s \in Source, EndStopped(s) PROVE RunInv'
  BY <1>16 DEF EndStopped, Called, AlreadyStopped, Others, Returns, fds
<1>17. ASSUME NEW s \in Source, EndStoppedRaises(s) PROVE RunInv'
  BY <1>17 DEF EndStoppedRaises, Called, Raises, Others, fds, commands
<1>18. CASE GuiBegin
  BY <1>18 DEF GuiBegin, flags, fds
<1>19. CASE GuiEnd
  BY <1>19 DEF GuiEnd, flags, fds, commands
<1>20. ~GuiRetry
  BY Retry = FALSE DEF GuiRetry
<1>21. ASSUME NEW p \in Pipe, PipeBreaks(p) PROVE RunInv'
  BY <1>21 DEF PipeBreaks, flags, commands
<1>22. CASE UNCHANGED vars
  BY <1>22 DEF vars
<1> QED
  BY <1>1, <1>2, <1>3, <1>4, <1>5, <1>6, <1>7, <1>8, <1>9, <1>10, <1>11, <1>12, <1>13, <1>14, <1>15, <1>16, <1>17, <1>18, <1>19, <1>20, <1>21, <1>22 DEF Next, BeginProc, EndProc
\* The invariant holds in every reachable state.
LEMMA RunInvariant ==
    ASSUME Retry = FALSE
    PROVE  Spec => []RunInv
<1>1. Init => RunInv
  BY ConstantsAssumption
     DEF Init, RunInv, IdleInv, CallInv, BeginningInv, ActiveInv, EndingInv,
         CountInv, EndNeedsStop
<1>2. QED
  BY <1>1, RunInvStep, TypesCorrect, PTL DEF Spec

\* startAcquisition (getProvider.tcl:564): the flags elect exactly one source
\* to start the electronics, for any number of sources in any order.
THEOREM OneStartPerRun ==
    ASSUME Retry = FALSE
    PROVE  Spec => []OneStart
<1>1. RunInv => OneStart
  BY DEF RunInv, ActiveInv, CountInv, OneStart
<1>2. QED
  BY <1>1, RunInvariant, PTL

\* end (getProvider.tcl:246): no end item before the one stop command.
THEOREM EndItemsFollowStop ==
    ASSUME Retry = FALSE
    PROVE  Spec => []EndNeedsStop
<1>1. RunInv => EndNeedsStop
  BY DEF RunInv, CountInv
<1>2. QED
  BY <1>1, RunInvariant, PTL

\* A step that counts a start command is a startAcquisition that commands.
LEMMA OnlyStartAcquisitionStarts ==
    ASSUME TypeOK, [Next]_vars, starts' > starts
    PROVE  \E s \in Source : StartAcquisition(s)
<1> USE DEF TypeOK, commands
<1>1. ASSUME NEW s \in Source, BeginProc(s), ~StartAcquisition(s)
      PROVE  starts' = starts
  BY <1>1 DEF BeginProc, EmitBegin, EmitBeginRaises, LeaveStartToOthers, FindStarted,
              StartAcquisitionRaises
<1>2. ASSUME NEW s \in Source, EndProc(s) PROVE starts' = starts
  BY <1>2 DEF EndProc, StopAcquisition, StopAcquisitionRaises, EmitEndRun,
              EmitEndRunRaises, EndStopped, EndStoppedRaises
<1>3. ASSUME NEW s \in Source,
             \/ StartSource(s) \/ StartSourceRaises(s) \/ StopSource(s)
             \/ InitSource(s) \/ InitSourceRaises(s)
      PROVE  starts' = starts
  BY <1>3 DEF StartSource, StartSourceRaises, StopSource, InitSource, InitSourceRaises
<1>4. CASE GuiBegin \/ GuiEnd \/ GuiRetry
  BY <1>4 DEF GuiBegin, GuiEnd, GuiRetry
<1>5. ASSUME NEW p \in Pipe, PipeBreaks(p) PROVE starts' = starts
  BY <1>5 DEF PipeBreaks
<1>6. CASE UNCHANGED vars
  BY <1>6 DEF vars
<1> QED
  BY <1>1, <1>2, <1>3, <1>4, <1>5, <1>6 DEF Next

\* startAcquisition (getProvider.tcl:557): the electronics start only after
\* every source has emitted its begin item.
THEOREM StartFollowsBegins ==
    ASSUME Retry = FALSE
    PROVE  Spec => StartNeedsAllBegins
<1>1. TypeOK /\ RunInv /\ [Next]_vars
        => [starts' > starts => \A s \in active : runNumber[s] = run]_vars
  <2> SUFFICES ASSUME TypeOK, RunInv, [Next]_vars, starts' > starts
               PROVE  \A s \in active : runNumber[s] = run
    OBVIOUS
  <2>1. PICK s \in Source : StartAcquisition(s)
    BY OnlyStartAcquisitionStarts
  <2>2. gui = "beginning" /\ asleep = s /\ Others(s) \subseteq beginEmitted
    BY <2>1 DEF StartAcquisition, BeginWoken, ReadyToStart
  <2>3. \A o \in active : o \in beginEmitted
    BY <2>2 DEF RunInv, BeginningInv, Others, TypeOK
  <2>4. QED
    BY <2>2, <2>3 DEF RunInv, BeginningInv, TypeOK
<1>2. QED
  BY <1>1, RunInvariant, TypesCorrect, PTL DEF Spec, StartNeedsAllBegins

-------------------------------------------------------------------------------
(* Refinement                                                                 *)

\* The mapped state in each state of the GUI.
LEMMA Mapping ==
    ASSUME TypeOK, RunInv
    PROVE  /\ Stage = "idle" => Begun = {} /\ Closed = {}
           /\ gui = "beginning" => Stage = "arming" /\ Begun = beginEmitted /\ Closed = {}
           /\ gui = "active" => Stage = "taking" /\ Begun = Source /\ Closed = {}
           /\ gui = "ending" => Begun = Source /\ Closed = ended
           /\ gui = "ending" /\ Taking => Stage = "taking"
           /\ gui = "ending" /\ Closing => Stage = "closing"
           /\ gui \notin {"beginning", "active", "ending"} => Stage = "idle"
  BY DEF TypeOK, GuiState, RunInv, BeginningInv, ActiveInv, EndingInv, AllBegun,
         Taking, Closing, Stage, Begun, Closed

\* Every step of RunControl is a step of AcquisitionRun, or leaves it alone.
LEMMA RefinementStep ==
    ASSUME Retry = FALSE
    PROVE  TypeOK /\ TypeOK' /\ RunInv /\ RunInv' /\ [Next]_vars => [A!Next]_A!vars
<1> SUFFICES ASSUME TypeOK, TypeOK', RunInv, RunInv', [Next]_vars
             PROVE  [A!Next]_A!vars
  OBVIOUS
<1> DEFINE Idle == gui \notin {"beginning", "active", "ending"}
<1>a. /\ Stage = "idle" => Begun = {} /\ Closed = {}
      /\ gui = "beginning" => Stage = "arming" /\ Begun = beginEmitted /\ Closed = {}
      /\ gui = "active" => Stage = "taking" /\ Begun = Source /\ Closed = {}
      /\ gui = "ending" => Begun = Source /\ Closed = ended
      /\ gui = "ending" /\ Taking => Stage = "taking"
      /\ gui = "ending" /\ Closing => Stage = "closing"
      /\ Idle => Stage = "idle"
  BY Mapping
<1>b. /\ (Stage = "idle" => Begun = {} /\ Closed = {})'
      /\ (gui = "beginning" => Stage = "arming" /\ Begun = beginEmitted /\ Closed = {})'
      /\ (gui = "active" => Stage = "taking" /\ Begun = Source /\ Closed = {})'
      /\ (gui = "ending" => Begun = Source /\ Closed = ended)'
      /\ (gui = "ending" /\ Taking => Stage = "taking")'
      /\ (gui = "ending" /\ Closing => Stage = "closing")'
      /\ (Idle => Stage = "idle")'
  BY Mapping, PTL
<1> HIDE DEF Idle
<1>c. \/ UNCHANGED <<Stage, Begun, Closed>>
      \/ Stage = "idle" /\ Stage' = "arming" /\ UNCHANGED <<Begun, Closed>>
      \/ Stage = "taking" /\ Stage' = "closing" /\ UNCHANGED <<Begun, Closed>>
      => [A!Next]_A!vars
  BY DEF A!Next, A!vars, A!Arm, A!Halt
<1>d. Stage' = "idle" => [A!Next]_A!vars
  <2>1. CASE Stage = "idle"
    BY <1>a, <1>b, <2>1 DEF A!vars
  <2>2. CASE Stage # "idle"
    BY <1>b, <2>2 DEF A!Next, A!Abandon
  <2>3. QED
    BY <2>1, <2>2
<1> USE ConstantsAssumption DEF Idle, GuiState
<1>1. ASSUME NEW s \in Source,
             \/ StartSource(s) \/ StartSourceRaises(s) \/ StopSource(s)
             \/ InitSource(s) \/ InitSourceRaises(s)
      PROVE  [A!Next]_A!vars
  <2>1. Idle'
    BY <1>1 DEF StartSource, StartSourceRaises, StopSource, InitSource,
                InitSourceRaises, Raises
  <2>2. QED
    BY <1>b, <1>d, <2>1
<1>2. ASSUME NEW s \in Source,
             \/ EmitBeginRaises(s) \/ StartAcquisitionRaises(s)
             \/ StopAcquisitionRaises(s) \/ EmitEndRunRaises(s) \/ EndStoppedRaises(s)
      PROVE  [A!Next]_A!vars
  <2>1. Idle'
    BY <1>2 DEF EmitBeginRaises, StartAcquisitionRaises, StopAcquisitionRaises,
                EmitEndRunRaises, EndStoppedRaises, Raises
  <2>2. QED
    BY <1>b, <1>d, <2>1
<1>3. ASSUME NEW s \in Source, EmitBegin(s) PROVE [A!Next]_A!vars
  <2>1. gui = "beginning" /\ gui' = "beginning" /\ beginEmitted' = beginEmitted \cup {s}
    BY <1>3 DEF EmitBegin, Called, Sleeps
  <2>2. s \notin beginEmitted
    BY <1>3 DEF EmitBegin, Called, RunInv, BeginningInv
  <2>3. A!Begin(s)
    BY <1>a, <1>b, <2>1, <2>2 DEF A!Begin
  <2>4. QED
    BY <2>3 DEF A!Next
<1>4. ASSUME NEW s \in Source, LeaveStartToOthers(s) PROVE [A!Next]_A!vars
  <2>1. gui = "beginning" /\ beginEmitted' = beginEmitted
    BY <1>4 DEF LeaveStartToOthers, BeginWoken, flags
  <2>2. todo # {s}
    BY <1>4 DEF LeaveStartToOthers, BeginWoken, ReadyToStart, Others, RunInv,
                BeginningInv, CallInv, TypeOK
  <2>3. gui' = "beginning"
    BY <1>4, <2>1, <2>2 DEF LeaveStartToOthers, Returns
  <2>4. QED
    BY <1>a, <1>b, <1>c, <2>1, <2>3
<1>5. ASSUME NEW s \in Source PROVE ~FindStarted(s)
  BY DEF FindStarted, BeginWoken, AlreadyStarted, RunInv, BeginningInv
<1>6. ASSUME NEW s \in Source, StartAcquisition(s) PROVE [A!Next]_A!vars
  <2>1. gui = "beginning" /\ asleep = s /\ Others(s) \subseteq beginEmitted
    BY <1>6 DEF StartAcquisition, BeginWoken, ReadyToStart
  <2>2. beginEmitted = Source /\ todo = {s}
    <3>1. active = Source /\ s \in todo /\ todo \subseteq Source /\ beginEmitted \subseteq Source
      BY <2>1, NoSource \notin Source DEF RunInv, CallInv, TypeOK
    <3>2. \A o \in Source : o \in beginEmitted <=> o \notin todo \/ o = asleep
      BY <2>1 DEF RunInv, BeginningInv
    <3>3. QED
      BY <2>1, <3>1, <3>2 DEF Others
  <2>3. gui' = "active"
    BY <1>6, <2>2 DEF StartAcquisition, Returns
  <2>4. A!Take
    BY <1>a, <1>b, <2>1, <2>2, <2>3 DEF A!Take
  <2>5. QED
    BY <2>4 DEF A!Next
<1>7. ASSUME NEW s \in Source, StopAcquisition(s) PROVE [A!Next]_A!vars
  <2>1. gui = "ending" /\ gui' = "ending" /\ ended' = ended /\ stops' = stops + 1
    BY <1>7 DEF StopAcquisition, Called, Sleeps
  <2>2. Taking /\ Closing'
    BY <2>1 DEF RunInv, EndingInv, CountInv, Taking, Closing, TypeOK
  <2>3. Stage = "taking" /\ Stage' = "closing" /\ UNCHANGED <<Begun, Closed>>
    BY <1>a, <1>b, <2>1, <2>2
  <2>4. QED
    BY <1>c, <2>3
<1>8. ASSUME NEW s \in Source, EmitEndRun(s) \/ EndStopped(s) PROVE [A!Next]_A!vars
  <2>1. /\ gui = "ending" /\ s \in todo /\ Closing
        /\ ended' = ended \cup {s} /\ todo' = todo \ {s} /\ UNCHANGED stops
    BY <1>8 DEF EmitEndRun, EndStopped, Called, AlreadyStopped, Others, Returns,
                RunInv, CallInv, EndingInv, Taking, Closing, TypeOK
  <2>2. CASE todo = {s}
    <3>1. gui' = "halted"
      BY <1>8, <2>2 DEF EmitEndRun, EndStopped, Returns
    <3>2. QED
      BY <1>b, <1>d, <3>1
  <2>3. CASE todo # {s}
    <3>1. gui' = "ending"
      BY <1>8, <2>1, <2>3 DEF EmitEndRun, EndStopped, Returns
    <3>2. s \notin ended /\ ended \cup {s} # Source /\ stops = 1
      BY <2>1, <2>3 DEF Closing, TypeOK
    <3>3. Closing'
      BY <2>1, <3>1, <3>2 DEF RunInv, EndingInv, Taking
    <3>4. A!End(s)
      BY <1>a, <1>b, <2>1, <3>1, <3>2, <3>3 DEF A!End
    <3>5. QED
      BY <3>4 DEF A!Next
  <2>4. QED
    BY <2>2, <2>3
<1>9. CASE GuiBegin
  <2>1. Idle /\ gui' = "beginning" /\ beginEmitted' = {}
    BY <1>9 DEF GuiBegin, flags, RunInv, IdleInv
  <2>2. QED
    BY <1>a, <1>b, <1>c, <2>1
<1>10. CASE GuiEnd
  <2>1. gui = "active" /\ gui' = "ending" /\ stops' = 0 /\ ended' = {}
    BY <1>10 DEF GuiEnd, commands, RunInv, ActiveInv
  <2>2. Taking'
    BY <2>1 DEF RunInv, EndingInv, Closing
  <2>3. QED
    BY <1>a, <1>b, <1>c, <2>1, <2>2
<1>11. ~GuiRetry
  BY Retry = FALSE DEF GuiRetry
<1>12. CASE UNCHANGED vars \/ \E p \in Pipe : PipeBreaks(p)
  <2>1. UNCHANGED <<gui, starts, stops, run, runNumber, ended>>
    BY <1>12 DEF vars, PipeBreaks, flags, commands
  <2>2. UNCHANGED <<Stage, Begun, Closed>>
    BY <2>1 DEF Stage, Begun, Closed
  <2>3. QED
    BY <1>c, <2>2
<1> QED
  BY <1>1, <1>2, <1>3, <1>4, <1>5, <1>6, <1>7, <1>8, <1>9, <1>10, <1>11, <1>12
     DEF Next, BeginProc, EndProc

\* The provider implements the abstract run: begin items, one start, one stop,
\* end items, in this order, with any failure abandoning the run.
THEOREM Implementation ==
    ASSUME Retry = FALSE
    PROVE  Spec => ImplementsAcquisitionRun
<1>1. Init => A!Init
  BY DEF Init, A!Init, Stage, Begun, Closed
<1>2. QED
  BY <1>1, RefinementStep, RunInvariant, TypesCorrect, PTL
     DEF Spec, A!Spec, ImplementsAcquisitionRun

===============================================================================
