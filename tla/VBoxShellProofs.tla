--------------------------- MODULE VBoxShellProofs ---------------------------
(***************************************************************************)
(* Proofs about VBoxShell for every set of machines and every bound on the *)
(* event pump: type correctness, the release of the Session Manager's      *)
(* sessions at the prompt, the release of the Event Monitor's callback,    *)
(* the settings file of every registered machine, and the refinement of    *)
(* ShellSessions.                                                          *)
(*                                                                         *)
(* None of these is inductive as it stands: a session or a registration    *)
(* opened by one step is released several steps later, so the invariant   *)
(* IInv says, for every place of the shell thread, which sessions and      *)
(* registrations it may hold there, and on which machine.                  *)
(***************************************************************************)
EXTENDS VBoxShell, TLAPS

\* Where the shell may stand while it holds a session of each kind: from
\* the call that opens it to the close, or past an escaping interrupt.
Holding(k) ==
    IF k = "remote"
    THEN {"start_wait", "start_perf", "start_close", "teardown", "exited"}
    ELSE {"op", "close", "mon_reg", "mon_wait", "mon_unreg", "teardown", "exited"}

MonPCs == {"mon_reg", "mon_wait", "mon_unreg"}

\* While a command works on a machine, tgt names it; a monitor knows its kind.
FrameOK ==
    /\ pc \in {"start_wait", "start_perf", "start_close", "op", "close",
               "rm_detach", "rm_close", "rm_unreg"} => tgt \in Machines
    /\ pc \in MonPCs => mon \in {"guest", "vbox"}
    /\ (pc \in MonPCs /\ mon = "guest") => tgt \in Machines

\* A creation or attach session is on the current machine and held only
\* between its open and its close.
SessionsPlaced ==
    \A s \in sessions :
        s[2] # "direct" => s[1] = tgt /\ pc \in Holding(s[2])

\* monitorVbox runs from the prompt, so it holds no such session.
VboxMonitorHoldsNone ==
    (pc \in MonPCs /\ mon = "vbox") => \A s \in sessions : s[2] = "direct"

\* The callback is registered exactly while the pump runs or unregisters.
CallbacksPlaced ==
    callbacks = IF pc \in {"mon_wait", "mon_unreg"} THEN {Source} ELSE {}

\* While removeVm detaches the disks, it holds the direct session.
DirectPlaced == pc = "rm_detach" => <<tgt, "direct">> \in sessions

IInv ==
    /\ TypeOK
    /\ FrameOK
    /\ SessionsPlaced
    /\ VboxMonitorHoldsNone
    /\ CallbacksPlaced
    /\ RegisteredPersisted
    /\ DirectPlaced

-----------------------------------------------------------------------------
USE ConstantsAssumption, VBoxSourceAssumption

\* The initial states: no session, no callback, the shell at "boot".
LEMMA InitIInv == Init => IInv
<1> SUFFICES ASSUME Init PROVE IInv
    OBVIOUS
<1>1. mstate \in [Machines -> MStates]
    BY DEF Init
<1>2. sessionState \in [Machines -> SStates]
    BY <1>1 DEF Init, SStates
<1>3. /\ pc = "boot" /\ tgt = NoMachine /\ op = "none" /\ mon = "none"
      /\ slices = 0 /\ verbose = TRUE /\ hostPerf = FALSE
      /\ registered \subseteq Machines /\ sessions = {} /\ callbacks = {}
      /\ settings = registered /\ detached = {}
    BY DEF Init
<1>4. TypeOK
  <2>1. pc \in PCs /\ tgt \in Machines \cup {NoMachine} /\ op \in Ops \cup {"none"}
      BY <1>3 DEF PCs, Ops
  <2>2. mon \in {"none", "guest", "vbox"} /\ slices \in 0..MaxSlices
      BY <1>3
  <2>3. verbose \in BOOLEAN /\ hostPerf \in BOOLEAN
      BY <1>3
  <2>4. sessions \subseteq Machines \X Kinds
        /\ callbacks \subseteq Machines \cup {VBoxSource}
      BY <1>3
  <2>5. QED
      BY <1>1, <1>2, <1>3, <2>1, <2>2, <2>3, <2>4 DEF TypeOK
<1>5. QED
    BY <1>3, <1>4 DEF IInv, FrameOK, SessionsPlaced, VboxMonitorHoldsNone,
                CallbacksPlaced, MonPCs, RegisteredPersisted, DirectPlaced

\* Every step of the shell, of the user and of the other clients keeps IInv.
LEMMA NextIInv == IInv /\ [Next]_vars => IInv'
<1> SUFFICES ASSUME IInv, [Next]_vars PROVE IInv'
    OBVIOUS
<1> USE DEF IInv, TypeOK, FrameOK, SessionsPlaced, VboxMonitorHoldsNone,
            CallbacksPlaced, Holding, MonPCs, PCs, Ops, MStates, SStates,
            Kinds, Raise, Source, Invoked, frame, disk, RegisteredPersisted,
            DirectPlaced
<1>1. CASE Boot BY <1>1 DEF Boot
<1>2. CASE BootFails BY <1>2 DEF BootFails
<1>3. CASE ReadEnd BY <1>3 DEF ReadEnd
<1>4. CASE Teardown BY <1>4 DEF Teardown
<1>5. CASE NoCommand \/ HelpCmd \/ AliasesCmd \/ ListCmd \/ InfoCmd \/ HostCmd
           \/ EvalCmd \/ SetvarCmd
    BY <1>5 DEF NoCommand, HelpCmd, AliasesCmd, ListCmd, InfoCmd, HostCmd,
                EvalCmd, SetvarCmd, Returns, notPc, vars
<1>6. CASE VerboseCmd BY <1>6 DEF VerboseCmd
<1>7. CASE QuitCmd BY <1>7 DEF QuitCmd
<1>8. CASE CreateCmd BY <1>8 DEF CreateCmd, CreateVm
<1>9. CASE StartCmd BY <1>9 DEF StartCmd
<1>10. CASE StartWait BY <1>10 DEF StartWait
<1>11. CASE StartPerf BY <1>11 DEF StartPerf
<1>12. CASE StartClose BY <1>12 DEF StartClose
<1>13. CASE ExistingCmd BY <1>13 DEF ExistingCmd
<1>14. CASE RunOp BY <1>14 DEF RunOp, OpEffect
<1>15. CASE StartMonitorGuest BY <1>15 DEF StartMonitorGuest
<1>16. CASE Close BY <1>16 DEF Close
<1>17. CASE MonitorVboxCmd BY <1>17 DEF MonitorVboxCmd
<1>18. CASE MonReg BY <1>18 DEF MonReg
<1>19. CASE MonWait BY <1>19 DEF MonWait
<1>20. CASE MonUnreg BY <1>20 DEF MonUnreg
<1>21. CASE RemoveCmd BY <1>21 DEF RemoveCmd
<1>22. CASE RmDetach BY <1>22 DEF RmDetach
<1>23. CASE RmClose BY <1>23 DEF RmClose
<1>24. CASE RmUnreg BY <1>24 DEF RmUnreg
<1>25. CASE Environment BY <1>25 DEF Environment, OtherStart, OtherPowerOff
<1>26. CASE Exited \/ UNCHANGED vars BY <1>26 DEF Exited, vars
<1>27. QED
    BY <1>1, <1>2, <1>3, <1>4, <1>5, <1>6, <1>7, <1>8, <1>9, <1>10, <1>11,
       <1>12, <1>13, <1>14, <1>15, <1>16, <1>17, <1>18, <1>19, <1>20, <1>21,
       <1>22, <1>23, <1>24, <1>25, <1>26
    DEF Next, UserStep, ShellStep

THEOREM IInvariant == Spec => []IInv
BY InitIInv, NextIInv, PTL DEF Spec

\* Type correctness of the shell and of its view of the service.
THEOREM TypeCorrect == Spec => []TypeOK
BY IInvariant, PTL DEF IInv

\* Session Manager: back at the prompt, the shell holds no creation or
\* attach session, whatever startVm and cmdExistingVm met on the way.
THEOREM SessionsReleased == Spec => []SessionReleasedAtPrompt
<1>1. IInv => SessionReleasedAtPrompt
    BY DEF IInv, SessionsPlaced, Holding, SessionReleasedAtPrompt
<1>2. QED BY <1>1, IInvariant, PTL

\* Event Monitor: at the prompt and after the shell ends, no callback stays
\* registered, however the pump loop ended.
THEOREM CallbacksReleased == Spec => []CallbackReleased
<1>1. IInv => CallbackReleased
    BY DEF IInv, CallbacksPlaced, CallbackReleased
<1>2. QED BY <1>1, IInvariant, PTL

\* removeVm: no step detaches a machine's disks unless the shell holds the
\* direct session that locks the machine.
THEOREM DetachLocked == Spec => DetachUnderLock
<1>1. IInv /\ [Next]_vars =>
        [\A m \in detached' \ detached : <<m, "direct">> \in sessions]_vars
  <2> SUFFICES ASSUME IInv, [Next]_vars
               PROVE  \A m \in detached' \ detached : <<m, "direct">> \in sessions
      OBVIOUS
  <2>1. CASE RmDetach
      BY <2>1 DEF RmDetach, IInv, DirectPlaced
  <2>2. CASE ~RmDetach
    <3>1. detached' \subseteq detached
        BY <2>2 DEF Next, UserStep, ShellStep, vars, disk, Boot, BootFails,
           ReadEnd, Teardown, Exited, NoCommand, HelpCmd, AliasesCmd, ListCmd,
           InfoCmd, HostCmd, EvalCmd, SetvarCmd, VerboseCmd, QuitCmd, CreateCmd,
           StartCmd, StartWait, StartPerf, StartClose, ExistingCmd, RunOp,
           StartMonitorGuest, Close, MonitorVboxCmd, MonReg, MonWait, MonUnreg,
           RemoveCmd, RmClose, RmUnreg, Environment, OtherStart, OtherPowerOff,
           Returns, notPc, frame
    <3>2. QED BY <3>1
  <2>3. QED BY <2>1, <2>2
<1>2. QED
    BY <1>1, IInvariant, PTL DEF Spec, DetachUnderLock

\* Machine lifecycle: every registered machine keeps its settings file,
\* whichever step of createVm or removeVm failed.
THEOREM SettingsKept == Spec => []RegisteredPersisted
BY IInvariant, PTL DEF IInv

-----------------------------------------------------------------------------
(* Refinement of ShellSessions.                                            *)

\* The abstract step each kind of shell step is: the existential of the
\* abstract Next, with its witness named.
A_Acquire(s) == Abstract!Acquire(s)
A_Release(s) == Abstract!Release(s)
A_Register(s) == Abstract!Register(s)
A_Unregister(s) == Abstract!Unregister(s)

LEMMA AbstractNextIntro ==
    ASSUME TypeOK, TypeOK'
    PROVE  /\ Abstract!Start => Abstract!Next
           /\ Abstract!Step => Abstract!Next
           /\ Abstract!End => Abstract!Next
           /\ \A s \in Machines \X Kinds :
                 (A_Acquire(s) \/ A_Release(s)) => Abstract!Next
           /\ \A src \in Machines \cup {VBoxSource} :
                 (A_Register(src) \/ A_Unregister(src)) => Abstract!Next
BY DEF Abstract!Next, A_Acquire, A_Release, A_Register, A_Unregister, Kinds,
       Abstract!Kinds

\* Steps that leave pc's phase, the sessions and the callbacks alone.
LEMMA StutterIntro ==
    ASSUME Phase' = Phase, UNCHANGED <<sessions, callbacks>>
    PROVE  [Abstract!Next]_Abstract!avars
BY DEF Abstract!avars

\* An exception escaping a command: back to the prompt at rest, or, for a
\* KeyboardInterrupt, on to the teardown with no callback registered.
LEMMA RaiseRefines ==
    ASSUME TypeOK, TypeOK', pc \notin {"boot", "teardown", "exited"},
           NEW o \in {"err", "intr"}, Raise(o), callbacks = {},
           UNCHANGED <<sessions, callbacks>>,
           o = "err" => \A s \in sessions : s[2] = "direct"
    PROVE  [Abstract!Next]_Abstract!avars
<1>1. CASE o = "intr"
  <2>1. Abstract!End
      BY <1>1 DEF Raise, Abstract!End, Abstract!Running, Phase, PCs, TypeOK
  <2>2. QED BY <2>1, AbstractNextIntro
<1>2. CASE o = "err"
  <2>1. Abstract!Step
      BY <1>2 DEF Raise, Abstract!Step, Abstract!Running, Abstract!Settle,
                  Abstract!AtRest, Phase, PCs, TypeOK
  <2>2. QED BY <2>1, AbstractNextIntro
<1>3. QED BY <1>1, <1>2

\* Inside a command: a step that takes and releases nothing.
LEMMA BusyStep ==
    ASSUME TypeOK, TypeOK',
           pc \notin {"boot", "prompt", "teardown", "exited"},
           pc' \notin {"boot", "prompt", "teardown", "exited"},
           UNCHANGED <<sessions, callbacks>>
    PROVE  [Abstract!Next]_Abstract!avars
<1>1. Abstract!Step
    BY DEF Abstract!Step, Abstract!Running, Abstract!Settle, Phase
<1>2. QED BY <1>1, AbstractNextIntro

\* A command closes session t and, if it returns, is back at rest.
LEMMA ReleaseStep ==
    ASSUME TypeOK, TypeOK', NEW t \in Machines \X Kinds,
           pc \notin {"boot", "prompt", "teardown", "exited"},
           pc' \notin {"boot", "teardown", "exited"},
           sessions' = sessions \ {t}, UNCHANGED callbacks,
           pc' = "prompt" => /\ \A u \in sessions : u[2] # "direct" => u = t
                             /\ callbacks = {}
    PROVE  [Abstract!Next]_Abstract!avars
<1>1. CASE t \in sessions
  <2>1. A_Release(t)
      BY <1>1 DEF A_Release, Abstract!Release, Abstract!Running,
                  Abstract!Settle, Abstract!AtRest, Phase
  <2>2. QED BY <2>1, AbstractNextIntro
<1>2. CASE t \notin sessions
  <2>1. Abstract!Step
      BY <1>2 DEF Abstract!Step, Abstract!Running, Abstract!Settle,
                  Abstract!AtRest, Phase
  <2>2. QED BY <2>1, AbstractNextIntro
<1>3. QED BY <1>1, <1>2

\* Every step of the shell, the user or another client is a step of
\* ShellSessions or leaves its variables alone.
LEMMA StepRefines == IInv /\ IInv' /\ [Next]_vars => [Abstract!Next]_Abstract!avars
<1> SUFFICES ASSUME IInv, IInv', [Next]_vars
             PROVE  [Abstract!Next]_Abstract!avars
    OBVIOUS
<1>0. TypeOK /\ TypeOK'
    BY DEF IInv
<1> USE <1>0
<1> DEFINE Stays == Phase' = Phase /\ UNCHANGED <<sessions, callbacks>>
<1> HIDE DEF Stays
<1>s. Stays => [Abstract!Next]_Abstract!avars
    BY StutterIntro DEF Stays
<1>1. CASE Boot
  <2>1. Abstract!Start
      BY <1>1 DEF Boot, Abstract!Start, Phase, IInv, CallbacksPlaced, frame
  <2>2. QED BY <2>1, AbstractNextIntro
<1>2. CASE BootFails
  <2>1. Abstract!Start
      BY <1>2 DEF BootFails, Abstract!Start, Phase
  <2>2. QED BY <2>1, AbstractNextIntro
<1>3. CASE ReadEnd \/ QuitCmd
  <2>1. Abstract!End
      BY <1>3 DEF ReadEnd, QuitCmd, Invoked, Abstract!End, Abstract!Running,
                  Phase, IInv, CallbacksPlaced
  <2>2. QED BY <2>1, AbstractNextIntro
<1>4. CASE Teardown \/ Exited \/ Environment \/ UNCHANGED vars \/ VerboseCmd
      \/ HelpCmd \/ AliasesCmd \/ NoCommand
  <2>1. Stays
      BY <1>4 DEF Teardown, Exited, Environment, OtherStart, OtherPowerOff,
                  VerboseCmd, HelpCmd, AliasesCmd, NoCommand, vars, Phase,
                  Stays, frame, disk
  <2>2. QED BY <2>1, <1>s
<1>5. CASE ListCmd \/ InfoCmd \/ HostCmd \/ EvalCmd \/ SetvarCmd \/ CreateCmd
  <2>1. pc = "prompt" /\ callbacks = {} /\ \A t \in sessions : t[2] = "direct"
      BY <1>5 DEF ListCmd, InfoCmd, HostCmd, EvalCmd, SetvarCmd, CreateCmd,
                  CreateVm, Invoked, IInv, CallbacksPlaced, SessionsPlaced, Holding
  <2>2. UNCHANGED <<sessions, callbacks>>
      BY <1>5 DEF ListCmd, InfoCmd, HostCmd, EvalCmd, SetvarCmd, CreateCmd,
                  CreateVm, notPc
  <2>3. CASE pc' = "prompt"
      BY <2>1, <2>2, <2>3, <1>s DEF Stays, Phase
  <2>4. CASE pc' # "prompt"
    <3>1. Raise("intr")
        BY <1>5, <2>4 DEF ListCmd, InfoCmd, HostCmd, EvalCmd, SetvarCmd,
                         CreateCmd, CreateVm, Returns, Raise
    <3>2. QED
        BY <2>1, <2>2, <3>1, RaiseRefines
  <2>5. QED BY <2>3, <2>4
<1>6. CASE StartCmd \/ ExistingCmd \/ RemoveCmd
  <2>1. pc = "prompt" /\ callbacks = {} /\ \A t \in sessions : t[2] = "direct"
      BY <1>6 DEF StartCmd, ExistingCmd, RemoveCmd, Invoked, IInv,
                  CallbacksPlaced, SessionsPlaced, Holding
  <2>2. CASE pc' \in {"start_wait", "op", "rm_detach"}
    <3>0. registered \subseteq Machines
        BY DEF TypeOK
    <3>1. PICK t \in Machines \X Kinds :
              /\ sessions' = sessions \cup {t}
              /\ UNCHANGED callbacks
      <4>1. CASE StartCmd
          BY <2>2, <3>0, <4>1 DEF StartCmd, Raise, Kinds
      <4>2. CASE ExistingCmd
          BY <2>2, <3>0, <4>2 DEF ExistingCmd, Raise, Kinds
      <4>3. CASE RemoveCmd
          BY <2>2, <3>0, <4>3 DEF RemoveCmd, Raise, Kinds
      <4>4. QED BY <1>6, <4>1, <4>2, <4>3
    <3>2. A_Acquire(t)
        BY <2>1, <2>2, <3>1 DEF A_Acquire, Abstract!Acquire, Abstract!Running,
                                Abstract!AtRest, Phase
    <3>3. QED BY <3>2, AbstractNextIntro
  <2>3. CASE pc' = "prompt"
    <3>1. UNCHANGED <<sessions, callbacks>>
        BY <1>6, <2>3 DEF StartCmd, ExistingCmd, RemoveCmd, Raise
    <3>2. QED BY <2>1, <2>3, <3>1, <1>s DEF Stays, Phase
  <2>4. CASE pc' \notin {"start_wait", "op", "rm_detach", "prompt"}
    <3>1. Raise("intr") /\ UNCHANGED <<sessions, callbacks>>
        BY <1>6, <2>4 DEF StartCmd, ExistingCmd, RemoveCmd, Raise
    <3>2. QED BY <2>1, <3>1, RaiseRefines
  <2>5. QED BY <2>2, <2>3, <2>4
<1>7. CASE StartWait
  <2>1. callbacks = {} /\ pc = "start_wait" /\ tgt \in Machines
      BY <1>7 DEF StartWait, IInv, CallbacksPlaced, FrameOK
  <2>2. \A t \in sessions : t[2] # "direct" => t = <<tgt, "remote">>
      BY <2>1 DEF IInv, SessionsPlaced, Holding, TypeOK, Kinds
  <2>3. CASE pc' = "start_perf"
    <3>1. Abstract!Step
        BY <1>7, <2>1, <2>3 DEF StartWait, Abstract!Step, Abstract!Running,
                                Abstract!Settle, Phase, Raise
    <3>2. QED BY <3>1, AbstractNextIntro
  <2>4. CASE pc' = "prompt"
    <3>1. sessions' = sessions \ {<<tgt, "remote">>} /\ UNCHANGED callbacks
        BY <1>7, <2>4 DEF StartWait, Raise
    <3>2. CASE <<tgt, "remote">> \in sessions
      <4>1. A_Release(<<tgt, "remote">>)
          BY <2>1, <2>2, <2>4, <3>1, <3>2
          DEF A_Release, Abstract!Release, Abstract!Running, Abstract!Settle,
              Abstract!AtRest, Phase
      <4>2. QED BY <4>1, <2>1, AbstractNextIntro DEF Kinds
    <3>3. CASE <<tgt, "remote">> \notin sessions
      <4>1. Abstract!Step
          BY <2>1, <2>2, <2>4, <3>1, <3>3
          DEF Abstract!Step, Abstract!Running, Abstract!Settle,
              Abstract!AtRest, Phase
      <4>2. QED BY <4>1, AbstractNextIntro
    <3>4. QED BY <3>2, <3>3
  <2>5. CASE pc' \notin {"start_perf", "prompt"}
    <3>1. Raise("intr") /\ UNCHANGED <<sessions, callbacks>>
        BY <1>7, <2>5 DEF StartWait, Raise
    <3>2. QED BY <2>1, <3>1, RaiseRefines
  <2>6. QED BY <2>3, <2>4, <2>5
<1>8. CASE StartPerf \/ RunOp
  <2>1. CASE pc' \in {"start_close", "close"}
      BY <1>8, <2>1, BusyStep DEF StartPerf, RunOp, Raise
  <2>2. CASE pc' \notin {"start_close", "close"}
    <3>1. Raise("intr") /\ UNCHANGED <<sessions, callbacks>>
        BY <1>8, <2>2 DEF StartPerf, RunOp, Raise
    <3>2. callbacks = {} /\ pc \in {"start_perf", "op"}
        BY <1>8 DEF StartPerf, RunOp, IInv, CallbacksPlaced
    <3>3. QED BY <3>1, <3>2, RaiseRefines
  <2>3. QED BY <2>1, <2>2
<1>9. CASE StartMonitorGuest \/ MonWait
    BY <1>9, BusyStep DEF StartMonitorGuest, MonWait
<1>10. CASE MonitorVboxCmd
  <2>1. Abstract!Step
      BY <1>10 DEF MonitorVboxCmd, Invoked, Abstract!Step, Abstract!Running,
                   Abstract!Settle, Phase
  <2>2. QED BY <2>1, AbstractNextIntro
<1>11. CASE StartClose \/ Close
  <2>1. tgt \in Machines /\ callbacks = {}
      BY <1>11 DEF StartClose, Close, IInv, FrameOK, CallbacksPlaced
  <2>2. CASE StartClose
    <3>1. \A u \in sessions : u[2] # "direct" => u = <<tgt, "remote">>
        BY <2>1, <2>2 DEF StartClose, IInv, SessionsPlaced, Holding, TypeOK, Kinds
    <3>2. QED
        BY <2>1, <2>2, <3>1, ReleaseStep DEF StartClose, Kinds
  <2>3. CASE Close
    <3>1. \A u \in sessions : u[2] # "direct" => u = <<tgt, "shared">>
        BY <2>1, <2>3 DEF Close, IInv, SessionsPlaced, Holding, TypeOK, Kinds
    <3>2. QED
        BY <2>1, <2>3, <3>1, ReleaseStep DEF Close, Kinds
  <2>4. QED BY <1>11, <2>2, <2>3
<1>12. CASE MonReg
  <2>1. callbacks = {} /\ pc = "mon_reg" /\ mon \in {"guest", "vbox"}
      BY <1>12 DEF MonReg, IInv, CallbacksPlaced, FrameOK, MonPCs
  <2>2. CASE pc' = "mon_wait"
    <3>1. callbacks' = {Source} /\ UNCHANGED sessions
        BY <1>12, <2>1, <2>2 DEF MonReg, Raise
    <3>2. Source \in Machines \cup {VBoxSource}
        BY <2>1 DEF Source, IInv, FrameOK, MonPCs
    <3>3. A_Register(Source)
        BY <2>1, <2>2, <3>1 DEF A_Register, Abstract!Register,
                                Abstract!Running, Phase
    <3>4. QED BY <3>2, <3>3, AbstractNextIntro
  <2>3. CASE pc' = "close"
      BY <1>12, <2>1, <2>3, BusyStep DEF MonReg, Raise
  <2>4. CASE pc' \notin {"mon_wait", "close"}
    <3>1. \E o \in {"err", "intr"} :
             /\ Raise(o) /\ UNCHANGED <<sessions, callbacks>>
             /\ o = "err" => mon = "vbox"
        BY <1>12, <2>4 DEF MonReg, Raise
    <3>2. mon = "vbox" => \A u \in sessions : u[2] = "direct"
        BY <2>1 DEF IInv, VboxMonitorHoldsNone, MonPCs
    <3>3. QED BY <2>1, <3>1, <3>2, RaiseRefines
  <2>5. QED BY <2>2, <2>3, <2>4
<1>13. CASE MonUnreg
  <2>1. callbacks = {Source} /\ pc = "mon_unreg" /\ mon \in {"guest", "vbox"}
      BY <1>13 DEF MonUnreg, IInv, CallbacksPlaced, FrameOK, MonPCs
  <2>2. Source \in Machines \cup {VBoxSource}
      BY <2>1 DEF Source, IInv, FrameOK, MonPCs
  <2>3. mon = "vbox" => \A u \in sessions : u[2] = "direct"
      BY <2>1 DEF IInv, VboxMonitorHoldsNone, MonPCs
  <2>4. A_Unregister(Source)
      BY <1>13, <2>1, <2>3 DEF MonUnreg, A_Unregister, Abstract!Unregister,
                               Abstract!Settle, Abstract!AtRest, Phase
  <2>5. QED BY <2>2, <2>4, AbstractNextIntro
<1>14. CASE RmDetach \/ RmUnreg
  <2>1. callbacks = {} /\ pc \in {"rm_detach", "rm_unreg"}
        /\ \A u \in sessions : u[2] = "direct"
      BY <1>14 DEF RmDetach, RmUnreg, IInv, CallbacksPlaced, SessionsPlaced,
                   Holding, TypeOK, Kinds
  <2>2. CASE pc' = "rm_close"
      BY <1>14, <2>1, <2>2, BusyStep DEF RmDetach, RmUnreg, Raise
  <2>3. CASE pc' = "prompt"
    <3>1. Abstract!Step
        BY <1>14, <2>1, <2>3 DEF RmDetach, RmUnreg, Raise, Abstract!Step,
                                 Abstract!Running, Abstract!Settle,
                                 Abstract!AtRest, Phase
    <3>2. QED BY <3>1, AbstractNextIntro
  <2>4. CASE pc' \notin {"rm_close", "prompt"}
    <3>1. Raise("intr") /\ UNCHANGED <<sessions, callbacks>>
        BY <1>14, <2>4 DEF RmDetach, RmUnreg, Raise
    <3>2. QED BY <2>1, <3>1, RaiseRefines
  <2>5. QED BY <2>2, <2>3, <2>4
<1>15. CASE RmClose
  <2>1. tgt \in Machines /\ pc = "rm_close" /\ pc' = "rm_unreg"
      BY <1>15 DEF RmClose, IInv, FrameOK
  <2>2. QED
      BY <1>15, <2>1, ReleaseStep DEF RmClose, Kinds
<1>16. QED
    BY <1>1, <1>2, <1>3, <1>4, <1>5, <1>6, <1>7, <1>8, <1>9, <1>10, <1>11,
       <1>12, <1>13, <1>14, <1>15
    DEF Next, UserStep, ShellStep

\* The shell implements ShellSessions: its sessions and callbacks change
\* only as the abstract specification allows (spec 3, 4.3, 4.4).
THEOREM Refinement == Spec => ImplementsShellSessions
<1>1. Init => Abstract!Init
    BY DEF Init, Abstract!Init, Phase
<1>2. QED
    BY <1>1, IInvariant, StepRefines, PTL
    DEF Spec, ImplementsShellSessions, Abstract!Spec

=============================================================================
