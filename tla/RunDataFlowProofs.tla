------------------------- MODULE RunDataFlowProofs -------------------------
(***************************************************************************)
(* The composition of RunDataFlow restricted to the provider is the        *)
(* provider of RunControl, and restricted to the rings it is the data path *)
(* of DataPath: what is proved of each of them holds of the composition.   *)
(***************************************************************************)
EXTENDS RunDataFlow, RunControlProofs

-------------------------------------------------------------------------------
(* The provider                                                                *)

\* A step of the composition is a step of the provider or leaves it alone.
LEMMA ProviderStep == [FlowNext]_flowVars => [Next]_vars
<1> SUFFICES ASSUME [FlowNext]_flowVars PROVE [Next]_vars
  OBVIOUS
<1>1. ASSUME NEW s \in Source, FlowStart(s) \/ FlowStop(s) \/ FlowInit(s)
      PROVE  Next
  BY <1>1 DEF FlowStart, FlowStop, FlowInit, Next
<1>2. ASSUME NEW s \in Source, FlowProc(s) PROVE Next
  BY <1>2 DEF FlowProc, FlowSleep, FlowWake, FlowEndStopped, Next, BeginProc, EndProc
<1>3. ASSUME NEW s \in Source, CoboSends(s) \/ FlowData(s) PROVE UNCHANGED vars
  BY <1>3 DEF CoboSends, FlowData
<1>4. CASE Configure
  BY <1>4 DEF Configure
<1>5. CASE FlowGuiBegin \/ FlowGuiEnd
  BY <1>5 DEF FlowGuiBegin, FlowGuiEnd, Next
<1>6. ASSUME NEW p \in Pipe, Shell(p) PROVE UNCHANGED vars
  BY <1>6 DEF Shell, ShellInserts, ShellCommands
<1>7. CASE UNCHANGED flowVars
  BY <1>7 DEF flowVars
<1>8. QED
  BY <1>1, <1>2, <1>3, <1>4, <1>5, <1>6, <1>7 DEF FlowNext

\* The composition implements the specification of the provider, so that the
\* theorems of RunControlProofs hold of it.
THEOREM ImplementsProvider == FlowSpec => Spec
<1>1. FlowInitial => Init
  BY DEF FlowInitial
<1>2. QED
  BY <1>1, ProviderStep, PTL DEF FlowSpec, Spec

-------------------------------------------------------------------------------
(* Run numbers and commands                                                    *)

\* The run number in a dict is that of a run that was begun.
RunNumberInv ==
    /\ run <= MaxRun
    /\ gui = "beginning" => run # 0
    /\ \A s \in Source : runNumber[s] <= MaxRun

\* A step of the provider keeps the run numbers in the range of the items.
LEMMA RunNumberStep == TypeOK /\ RunNumberInv /\ [Next]_vars => RunNumberInv'
<1> SUFFICES ASSUME TypeOK, RunNumberInv, [Next]_vars PROVE RunNumberInv'
  OBVIOUS
<1> USE ConstantsAssumption DEF TypeOK, RunNumberInv, flags, fds, commands
<1>1. ASSUME NEW s \in Source, StartSource(s) PROVE RunNumberInv'
  BY <1>1 DEF StartSource
<1>2. ASSUME NEW s \in Source, StartSourceRaises(s) PROVE RunNumberInv'
  BY <1>2 DEF StartSourceRaises
<1>3. ASSUME NEW s \in Source, StopSource(s) PROVE RunNumberInv'
  BY <1>3 DEF StopSource
<1>4. ASSUME NEW s \in Source, InitSource(s) \/ InitSourceRaises(s)
      PROVE  RunNumberInv'
  BY <1>4 DEF InitSource, InitSourceRaises, Raises
<1>5. ASSUME NEW s \in Source, BeginProc(s) PROVE RunNumberInv'
  BY <1>5 DEF BeginProc, EmitBegin, EmitBeginRaises, LeaveStartToOthers, FindStarted,
              StartAcquisition, StartAcquisitionRaises, Called, Sleeps, Returns, Raises
<1>6. ASSUME NEW s \in Source, EndProc(s) PROVE RunNumberInv'
  BY <1>6 DEF EndProc, StopAcquisition, StopAcquisitionRaises, EmitEndRun,
              EmitEndRunRaises, EndStopped, EndStoppedRaises, Called, Sleeps, Returns,
              Raises
<1>7. CASE GuiBegin
  BY <1>7 DEF GuiBegin
<1>8. CASE GuiEnd \/ GuiRetry
  BY <1>8 DEF GuiEnd, GuiRetry
<1>9. CASE UNCHANGED vars \/ \E p \in Pipe : PipeBreaks(p)
  BY <1>9 DEF vars, PipeBreaks
<1>10. QED
  BY <1>1, <1>2, <1>3, <1>4, <1>5, <1>6, <1>7, <1>8, <1>9 DEF Next

\* What the composition needs to know of its own state to stay in the data path's
\* actions: run numbers, commands and processes are those of the model.
FlowInv ==
    /\ RunNumberInv
    /\ shell \in [Pipe -> Seq(Command)]
    /\ taking \in [Server -> 0 .. MaxRun]
    /\ routers \subseteq Source /\ mergers \subseteq Source

\* The commands a step writes, and those that are left, are commands.
LEMMA ShellStep ==
    ASSUME TypeOK, RunNumberInv', FlowInv, [FlowNext]_flowVars
    PROVE  shell' \in [Pipe -> Seq(Command)]
<1> USE DEF TypeOK, FlowInv
<1>1. ASSUME NEW p, NEW c \in Command, Put(p, c) PROVE shell' \in [Pipe -> Seq(Command)]
  <2>1. CASE p \in Pipe
    <3>1. Append(shell[p], c) \in Seq(Command)
      BY <2>1
    <3>2. QED
      BY <1>1, <3>1 DEF Put
  <2>2. CASE p \notin Pipe
    BY <1>1, <2>2 DEF Put
  <2>3. QED
    BY <2>1, <2>2
<1>2. ASSUME NEW p \in Pipe, shell[p] # <<>>, Done(p)
      PROVE  shell' \in [Pipe -> Seq(Command)]
  <2>1. Tail(shell[p]) \in Seq(Command)
    BY <1>2
  <2>2. QED
    BY <1>2, <2>1 DEF Done
<1>3. ASSUME NEW kept, ShellsAfter(kept) PROVE shell' \in [Pipe -> Seq(Command)]
  <2>1. <<>> \in Seq(Command)
    OBVIOUS
  <2>2. QED
    BY <1>3, <2>1 DEF ShellsAfter
<1>4. ASSUME NEW s \in Source, NEW op \in {"configure", "start", "stop"}
      PROVE  EccCommand(op, s) \in Command
  BY ConstantsAssumption DEF EccCommand, Command
<1>5. ASSUME NEW s \in Source, FlowSleep(s) PROVE shell' \in [Pipe -> Seq(Command)]
  <2>1. CASE EmitBegin(s) /\ Put(statefd[s], StateCommand("begin", s))
    <3>1. runNumber'[s] \in 1 .. MaxRun
      BY <2>1, ConstantsAssumption DEF EmitBegin, Called, RunNumberInv
    <3>2. StateCommand("begin", s) \in Command
      BY <3>1 DEF StateCommand, Command
    <3>3. QED
      BY <1>1, <2>1, <3>2
  <2>2. CASE Put(daqcontrolfd[s], EccCommand("stop", s))
    BY <1>1, <1>4, <2>2
  <2>3. QED
    BY <1>5, <2>1, <2>2 DEF FlowSleep
<1>6. ASSUME NEW s \in Source, UNCHANGED runNumber, CanEmitEnd(s),
             Put(statefd[s], StateCommand("end", s))
      PROVE  shell' \in [Pipe -> Seq(Command)]
  <2>1. runNumber'[s] \in 1 .. MaxRun
    BY <1>6, ConstantsAssumption DEF CanEmitEnd, RunNumberInv
  <2>2. StateCommand("end", s) \in Command
    BY <2>1 DEF StateCommand, Command
  <2>3. QED
    BY <1>1, <1>6, <2>2
<1>7. ASSUME NEW s \in Source, FlowWake(s) PROVE shell' \in [Pipe -> Seq(Command)]
  <2>1. CASE UNCHANGED shell
    BY <2>1
  <2>2. CASE Put(daqcontrolfd[s], EccCommand("start", s))
    BY <1>1, <1>4, <2>2
  <2>3. CASE EmitEndRun(s) /\ Put(statefd[s], StateCommand("end", s))
    BY <1>6, <2>3 DEF EmitEndRun, flags
  <2>4. QED
    BY <1>7, <2>1, <2>2, <2>3 DEF FlowWake
<1>8. ASSUME NEW s \in Source, FlowEndStopped(s) PROVE shell' \in [Pipe -> Seq(Command)]
  BY <1>6, <1>8 DEF FlowEndStopped, EndStopped
<1>9. ASSUME NEW s \in Source, FlowStart(s) \/ FlowStop(s) \/ FlowInit(s)
      PROVE  shell' \in [Pipe -> Seq(Command)]
  BY <1>3, <1>9 DEF FlowStart, FlowStop, FlowInit
<1>10. CASE Configure
  <2>1. PanelSource \in Source
    BY RunDataFlowAssumption
  <2>2. QED
    BY <1>1, <1>4, <1>10, <2>1 DEF Configure
<1>11. ASSUME NEW p \in Pipe, Shell(p) PROVE shell' \in [Pipe -> Seq(Command)]
  BY <1>2, <1>11 DEF Shell, ShellInserts, ShellCommands
<1>12. CASE UNCHANGED shell
  BY <1>12
<1>13. QED
  BY <1>5, <1>7, <1>8, <1>9, <1>10, <1>11, <1>12
     DEF FlowNext, FlowProc, FlowGuiBegin, FlowGuiEnd, CoboSends, FlowData, flowVars


\* The servers take data in a run that was begun.
LEMMA TakingStep ==
    ASSUME TypeOK, FlowInv, [FlowNext]_flowVars
    PROVE  taking' \in [Server -> 0 .. MaxRun]
<1> USE ConstantsAssumption DEF TypeOK, FlowInv, RunNumberInv
<1>1. ASSUME NEW p \in Pipe, ShellCommands(p) PROVE taking' \in [Server -> 0 .. MaxRun]
  <2>1. \/ UNCHANGED taking
        \/ \E e, r : taking' = [taking EXCEPT ![e] = r] /\ r \in {0, run}
    BY <1>1 DEF ShellCommands, EccConfigure, EccStart, EccStop, electronics
  <2>2. CASE UNCHANGED taking
    BY <2>2
  <2>3. ASSUME NEW e, NEW r \in {0, run}, taking' = [taking EXCEPT ![e] = r]
        PROVE  taking' \in [Server -> 0 .. MaxRun]
    <3>1. r \in 0 .. MaxRun
      OBVIOUS
    <3>2. QED
      BY <2>3, <3>1
  <2>4. QED
    BY <2>1, <2>2, <2>3
<1>2. ASSUME NEW p \in Pipe, ShellInserts(p) PROVE UNCHANGED taking
  BY <1>2 DEF ShellInserts, electronics
<1>3. ASSUME NEW s \in Source,
             \/ FlowStart(s) \/ FlowStop(s) \/ FlowInit(s)
             \/ FlowProc(s) \/ CoboSends(s) \/ FlowData(s)
      PROVE  UNCHANGED taking
  BY <1>3 DEF FlowStart, FlowStop, Kill, FlowInit, FlowProc, FlowSleep, FlowWake,
              FlowEndStopped, CoboSends, FlowData, electronics
<1>4. CASE Configure \/ FlowGuiBegin \/ FlowGuiEnd \/ UNCHANGED flowVars
  BY <1>4 DEF Configure, FlowGuiBegin, FlowGuiEnd, flowVars, electronics
<1>5. QED
  BY <1>1, <1>2, <1>3, <1>4 DEF FlowNext, Shell

-------------------------------------------------------------------------------
(* The data path                                                               *)

\* A step of the composition is a step of the data path or leaves it alone.
LEMMA PathStep ==
    ASSUME FlowInv, [FlowNext]_flowVars
    PROVE  [DataNext]_pathVars
<1> USE DEF FlowInv
<1>1. ASSUME NEW s \in Source, FlowStart(s) PROVE DataNext
  BY <1>1 DEF FlowStart, DataNext
<1>2. ASSUME NEW s \in Source, FlowStop(s) PROVE DataNext
  <2>1. KilledRouters(s) \in SUBSET Source /\ mergers \in SUBSET Source
    BY DEF KilledRouters
  <2>2. KillProcesses(KilledRouters(s), mergers)
    BY <1>2 DEF FlowStop, Kill
  <2>3. QED
    BY <2>1, <2>2 DEF DataNext
<1>3. ASSUME NEW s \in Source, FlowInit(s) PROVE DataNext
  <2>1. KilledRouters(s) \in SUBSET Source /\ mergers \in SUBSET Source
    BY DEF KilledRouters
  <2>2. RestartProcesses(s, KilledRouters(s), mergers)
    BY <1>3 DEF FlowInit
  <2>3. QED
    BY <2>1, <2>2 DEF DataNext
<1>4. ASSUME NEW s \in Source, FlowProc(s) PROVE UNCHANGED pathVars
  BY <1>4 DEF FlowProc, FlowSleep, FlowWake, FlowEndStopped
<1>5. ASSUME NEW s \in Source, CoboSends(s) PROVE DataNext
  <2>1. taking[EccServer[s]] \in 1 .. MaxRun
    BY <1>5, ConstantsAssumption DEF CoboSends
  <2>2. SendFrame(s, taking[EccServer[s]])
    BY <1>5 DEF CoboSends
  <2>3. QED
    BY <2>1, <2>2 DEF DataNext
<1>6. ASSUME NEW s \in Source, FlowData(s) PROVE DataNext
  BY <1>6 DEF FlowData, DataNext
<1>7. CASE Configure \/ FlowGuiBegin \/ FlowGuiEnd
  BY <1>7 DEF Configure, FlowGuiBegin, FlowGuiEnd
<1>8. ASSUME NEW p \in Pipe, ShellInserts(p) PROVE [DataNext]_pathVars
  <2> DEFINE c == Head(shell[p])
  <2>1. c \in Command /\ c.op \in {"begin", "end"}
    BY <1>8 DEF ShellInserts
  <2>2. c.source \in Source /\ c.run \in 1 .. MaxRun /\ c.op \in ItemKind
    BY <2>1 DEF Command, ItemKind
  <2>3. InsertStateChange(c.source, c.op, c.run) \/ InsertStateChangeFails
    BY <1>8 DEF ShellInserts
  <2>4. QED
    BY <2>2, <2>3 DEF DataNext
<1>9. ASSUME NEW p \in Pipe, ShellCommands(p) PROVE UNCHANGED pathVars
  BY <1>9 DEF ShellCommands
<1>10. CASE UNCHANGED flowVars
  BY <1>10 DEF flowVars
<1>11. QED
  BY <1>1, <1>2, <1>3, <1>4, <1>5, <1>6, <1>7, <1>8, <1>9, <1>10 DEF FlowNext, Shell

\* No process of a source that does not exist is ever started.
LEMMA ProcessStep ==
    ASSUME routers \subseteq Source, mergers \subseteq Source, [DataNext]_pathVars
    PROVE  routers' \subseteq Source /\ mergers' \subseteq Source
  BY DEF DataNext, StartProcesses, SendFrame, InsertStateChange, ProcessFrame, MergeStep,
         KillProcesses, RestartProcesses, InsertStateChangeFails, dataVars, pathVars

\* FlowInv holds in every reachable state.
LEMMA FlowInvariant == FlowSpec => []FlowInv
<1>1. FlowInitial => FlowInv
  BY ConstantsAssumption
     DEF FlowInitial, Init, DataInit, FlowInv, RunNumberInv
<1>2. TypeOK /\ FlowInv /\ [FlowNext]_flowVars => FlowInv'
  <2> SUFFICES ASSUME TypeOK, FlowInv, [FlowNext]_flowVars PROVE FlowInv'
    OBVIOUS
  <2>1. RunNumberInv'
    BY ProviderStep, RunNumberStep DEF FlowInv
  <2>2. shell' \in [Pipe -> Seq(Command)]
    BY <2>1, ShellStep
  <2>3. taking' \in [Server -> 0 .. MaxRun]
    BY TakingStep
  <2>4. routers' \subseteq Source /\ mergers' \subseteq Source
    BY PathStep, ProcessStep DEF FlowInv
  <2>5. QED
    BY <2>1, <2>2, <2>3, <2>4 DEF FlowInv
<1>3. QED
  BY <1>1, <1>2, ImplementsProvider, TypesCorrect, PTL DEF FlowSpec

\* What happens to the rings is a behaviour of the data path.
LEMMA ImplementsPath == FlowSpec => DataInit /\ [][DataNext]_pathVars
<1>1. FlowInitial => DataInit
  BY DEF FlowInitial
<1>2. FlowInv /\ [FlowNext]_flowVars => [DataNext]_pathVars
  BY PathStep
<1>3. QED
  BY <1>1, <1>2, FlowInvariant, PTL DEF FlowSpec


-------------------------------------------------------------------------------
(* What is proved of the data path                                             *)

D == INSTANCE DataPathProofs WITH RunNumber <- 1 .. MaxRun, InsertsFail <- TRUE

\* The two instances of DataPath say the same.
LEMMA SameInit == DataInit <=> D!DataInit
  BY DEF DataInit, D!DataInit, NoItems, D!NoItems, Input, D!Input, FirstInput,
         D!FirstInput

\* So do their steps.
LEMMA SameNext == [DataNext]_pathVars <=> [D!DataNext]_(D!dataVars)
  BY DEF DataNext, D!DataNext, pathVars, D!dataVars, dataVars, ringVars, D!ringVars,
         StartProcesses, D!StartProcesses, SendFrame, D!SendFrame,
         InsertStateChange, D!InsertStateChange, ProcessFrame, D!ProcessFrame,
         MergeStep, D!MergeStep, KillProcesses, D!KillProcesses,
         RestartProcesses, D!RestartProcesses,
         InsertStateChangeFails, D!InsertStateChangeFails,
         NoItems, D!NoItems, Input, D!Input, FirstInput, D!FirstInput,
         ItemKind, D!ItemKind, Commit, D!Commit, HasRoom, D!HasRoom,
         NextInput, D!NextInput

\* The composition is a behaviour of the data path that DataPathProofs is about.
LEMMA SamePath == FlowSpec => D!DataSpec
  BY SameInit, SameNext, ImplementsPath, PTL DEF D!DataSpec

\* ringMergeMain.cpp:124-132 under everything the provider does to the mergers:
\* whatever is started, stopped, initialised and killed, the output ring of each
\* source has the items of each of its rings in order and none of them twice.
THEOREM FlowKeepsOrder == FlowSpec => []MergeKeepsOrder
<1>1. D!MergeKeepsOrder => MergeKeepsOrder
  BY DEF MergeKeepsOrder, D!MergeKeepsOrder, InputOf, D!InputOf
<1>2. QED
  BY <1>1, SamePath, D!OrderIsKept, PTL

\* ringMergeMain.cpp:124-132 under everything the provider does to the mergers:
\* what was committed since its merger was started is in the ring or in the output.
THEOREM FlowLosesNothing == FlowSpec => []MergeLosesNothing
<1>1. D!MergeLosesNothing => MergeLosesNothing
  BY DEF MergeLosesNothing, D!MergeLosesNothing, InputOf, D!InputOf, Input, D!Input
<1>2. QED
  BY <1>1, SamePath, D!NothingIsLost, PTL

-------------------------------------------------------------------------------
(* Types                                                                       *)

\* The parts of FlowTypeOK that neither module nor FlowInv has.
WorldType ==
    /\ ecc \in [Server -> {"down", "idle", "ready", "running"}]
    /\ linked \subseteq routers
    /\ frames \in [Source -> 0 .. MaxFrames]
    /\ failed \subseteq Command /\ inits \in Nat

\* The electronics, the routers they are connected to and the history keep their types.
LEMMA WorldStep == FlowInv /\ WorldType /\ [FlowNext]_flowVars => WorldType'
<1> SUFFICES ASSUME FlowInv, WorldType, [FlowNext]_flowVars PROVE WorldType'
  OBVIOUS
<1> USE ConstantsAssumption, RunDataFlowAssumption DEF WorldType, pathVars, electronics
<1>1. ASSUME NEW s \in Source, FlowStart(s) PROVE WorldType'
  BY <1>1 DEF FlowStart, StartServer, StartProcesses
<1>2. ASSUME NEW s \in Source, FlowStop(s) PROVE WorldType'
  BY <1>2 DEF FlowStop, Kill, KillServers, KillProcesses
<1>3. ASSUME NEW s \in Source, FlowInit(s) PROVE WorldType'
  <2>1. ecc' \in [Server -> {"down", "idle", "ready", "running"}]
    BY <1>3 DEF FlowInit, StartServer, KillServers
  <2>2. QED
    BY <1>3, <2>1 DEF FlowInit, RestartProcesses
<1>4. ASSUME NEW s \in Source, FlowProc(s) PROVE WorldType'
  BY <1>4 DEF FlowProc, FlowSleep, FlowWake, FlowEndStopped
<1>5. ASSUME NEW s \in Source, CoboSends(s) PROVE WorldType'
  BY <1>5 DEF CoboSends, SendFrame
<1>6. ASSUME NEW s \in Source, FlowData(s) PROVE WorldType'
  BY <1>6 DEF FlowData, ProcessFrame, MergeStep
<1>7. CASE Configure \/ FlowGuiBegin \/ FlowGuiEnd
  BY <1>7 DEF Configure, FlowGuiBegin, FlowGuiEnd
<1>8. ASSUME NEW p \in Pipe, ShellInserts(p) PROVE WorldType'
  <2>1. Head(shell[p]) \in Command
    BY <1>8 DEF ShellInserts, FlowInv
  <2>2. QED
    BY <1>8, <2>1 DEF ShellInserts, InsertStateChange, InsertStateChangeFails, dataVars
<1>9. ASSUME NEW p \in Pipe, ShellCommands(p) PROVE WorldType'
  BY <1>9 DEF ShellCommands, EccConfigure, EccStart, EccStop
<1>10. CASE UNCHANGED flowVars
  BY <1>10 DEF flowVars
<1>11. QED
  BY <1>1, <1>2, <1>3, <1>4, <1>5, <1>6, <1>7, <1>8, <1>9, <1>10 DEF FlowNext, Shell

\* Every reachable state has the types FlowTypeOK states.
THEOREM FlowTypesCorrect == FlowSpec => []FlowTypeOK
<1>1. FlowInitial => WorldType
  BY RunDataFlowAssumption DEF FlowInitial, DataInit, WorldType
<1>2. D!DataTypeOK => DataTypeOK
  BY DEF DataTypeOK, D!DataTypeOK, Item, D!Item, ItemKind, D!ItemKind, Input, D!Input
<1>3. TypeOK /\ DataTypeOK /\ FlowInv /\ WorldType => FlowTypeOK
  BY DEF FlowInv, WorldType, FlowTypeOK
<1>4. QED
  BY <1>1, <1>2, <1>3, WorldStep, FlowInvariant, ImplementsProvider, TypesCorrect,
     SamePath, D!DataTypesCorrect, PTL DEF FlowSpec

=============================================================================
