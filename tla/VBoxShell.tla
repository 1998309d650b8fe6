----------------------------- MODULE VBoxShell -----------------------------
(***************************************************************************)
(* The VBoxShell interactive shell (vboxshell.py) driving an abstract      *)
(* VirtualBox service.                                                     *)
(*                                                                         *)
(* The shell is one sequential Python thread; `pc` is where it stands in   *)
(* interpret(), runCommand() and the handlers.  Every call into the        *)
(* service that can block or fail is one step whose outcome is chosen      *)
(* by the environment: it returns ("ok"), raises an Exception ("err"),     *)
(* or is cut short by a KeyboardInterrupt ("intr").  In Python 2.5+        *)
(* KeyboardInterrupt is not an Exception, so `except Exception` does not   *)
(* catch it while a bare `except:` does.  An exception that escapes a      *)
(* handler reaches the loop of interpret(): an Exception is printed and    *)
(* the loop goes on, a KeyboardInterrupt leaves the loop.                  *)
(*                                                                         *)
(* The service side keeps, per machine, the registry membership, the       *)
(* machine state and the machine's session state; other clients (another   *)
(* frontend, the guest itself) may start and stop machines meanwhile.      *)
(***************************************************************************)
EXTENDS Naturals, FiniteSets

CONSTANTS
    Machines,    \* machines the service may know of (model values)
    NoMachine,   \* "no machine": the value of tgt outside a command
    MaxSlices    \* most waitForEvents(500) slices one monitor call runs

ASSUME ConstantsAssumption ==
    /\ NoMachine \notin Machines
    /\ MaxSlices \in Nat

VBoxSource == "vbox"   \* the IVirtualBox object, event source of monitorVbox

ASSUME VBoxSourceAssumption == VBoxSource \notin Machines

VARIABLES
    pc,            \* where the shell thread is
    tgt,           \* the machine the running command works on
    op,            \* the operation cmdExistingVm was asked for
    mon,           \* which monitor runs: "guest", "vbox" or "none"
    slices,        \* event-pump slices left before the monitor's deadline
    verbose,       \* g_verbose
    hostPerf,      \* host metric collection is set up and enabled
    registered,    \* machines in the service registry
    mstate,        \* IMachine.state, per machine
    sessionState,  \* IMachine.sessionState, per machine
    sessions,      \* sessions the shell holds open: <<machine, kind>>
    settings,      \* machines whose settings file exists on the host
    detached,      \* machines whose disks removeVm has begun to detach
    callbacks      \* event sources the shell's callback is registered with

vars == <<pc, tgt, op, mon, slices, verbose, hostPerf, registered,
          settings, detached, mstate, sessionState, sessions, callbacks>>
frame == <<tgt, op, mon, slices>>
disk == <<settings, detached>>

-----------------------------------------------------------------------------
(* The command table and the alias table, and their resolution.           *)

aliases == [s |-> "start", i |-> "info", l |-> "list", h |-> "help",
            a |-> "aliases", q |-> "quit", exit |-> "quit", v |-> "verbose"]

commands == {"help", "start", "create", "remove", "pause", "resume", "stats",
             "powerdown", "list", "info", "aliases", "verbose", "setvar",
             "eval", "quit", "host", "guest", "monitorGuest", "monitorVbox"}

\* The first word of an input line: every name the tables know, an unknown
\* word, and "" for an empty or blank line.
Tokens == commands \cup DOMAIN aliases \cup {"", "foo"}

\* runCommand: the alias table is consulted first, then the command table.
Resolve(tok) == IF tok \in DOMAIN aliases THEN aliases[tok] ELSE tok

\* The line read at the prompt dispatches to command c.
Invoked(c) == pc = "prompt" /\ \E tok \in Tokens : Resolve(tok) = c

-----------------------------------------------------------------------------
Outcome  == {"ok", "err", "intr"}
Failures == {"err", "intr"}
MStates  == {"PoweredOff", "Running", "Paused"}
SStates  == {"Closed", "Spawning", "Open"}
Kinds    == {"remote", "shared", "direct"}
Ops      == {"pause", "resume", "powerdown", "stats", "guest", "monitorGuest"}
PCs == {"boot", "prompt", "start_wait", "start_perf", "start_close", "op",
        "close", "mon_reg", "mon_wait", "mon_unreg", "rm_detach", "rm_close",
        "rm_unreg", "teardown", "exited"}

\* An exception escapes the handler into interpret()'s loop.
Raise(o) == pc' = IF o = "intr" THEN "teardown" ELSE "prompt"

\* The source the monitor registers its callback with.
Source == IF mon = "guest" THEN tgt ELSE VBoxSource

Init ==
    /\ pc = "boot"
    /\ tgt = NoMachine /\ op = "none" /\ mon = "none" /\ slices = 0
    /\ verbose = TRUE
    /\ hostPerf = FALSE
    /\ registered \in SUBSET Machines
    /\ mstate \in {f \in [Machines -> MStates] :
                      \A m \in Machines \ registered : f[m] = "PoweredOff"}
    /\ sessionState = [m \in Machines |->
                         IF mstate[m] = "PoweredOff" THEN "Closed" ELSE "Open"]
    /\ settings = registered
    /\ detached = {}
    /\ sessions = {}
    /\ callbacks = {}

-----------------------------------------------------------------------------
(* interpret(): start-up and shut-down.                                    *)

\* Reading vbox.version, building the PerfCollector, then the best-effort
\* setup of host metrics (a bare except ignores its failure).
Boot ==
    /\ pc = "boot"
    /\ \E setupOk \in BOOLEAN : hostPerf' = setupOk
    /\ pc' = "prompt"
    /\ UNCHANGED <<frame, verbose, registered, disk, mstate, sessionState,
                   sessions, callbacks>>

\* vbox.version or vb.performanceCollector raises: nothing in interpret()
\* or main() catches it and the process ends.
BootFails ==
    /\ pc = "boot"
    /\ pc' = "exited"
    /\ UNCHANGED <<frame, verbose, hostPerf, registered, disk, mstate,
                   sessionState, sessions, callbacks>>

\* raw_input raises EOFError or KeyboardInterrupt: the loop is left.
ReadEnd ==
    /\ pc = "prompt"
    /\ pc' = "teardown"
    /\ UNCHANGED <<frame, verbose, hostPerf, registered, disk, mstate,
                   sessionState, sessions, callbacks>>

\* The teardown reads `ct['perf']`, a name that does not exist: the
\* NameError is swallowed by the bare except, disableMetrics is never called.
Teardown ==
    /\ pc = "teardown"
    /\ pc' = "exited"
    /\ UNCHANGED <<frame, verbose, hostPerf, registered, disk, mstate,
                   sessionState, sessions, callbacks>>

-----------------------------------------------------------------------------
(* Commands that hold no session.                                          *)

\* Everything but pc: what a command that only prints leaves alone.
notPc == <<frame, verbose, hostPerf, registered, disk, mstate, sessionState,
           sessions, callbacks>>

\* A handler returns 0, or an exception escapes it.
Returns(o) == IF o = "ok" THEN pc' = "prompt" ELSE Raise(o)

\* runCommand: an empty or blank line, or a word neither table knows,
\* prints at most a message and returns 0.
NoCommand ==
    /\ pc = "prompt"
    /\ \E tok \in Tokens : Resolve(tok) \notin commands
    /\ UNCHANGED vars

\* helpCmd and aliasesCmd only print the tables.
HelpCmd == Invoked("help") /\ UNCHANGED vars
AliasesCmd == Invoked("aliases") /\ UNCHANGED vars

\* listCmd, infoCmd and hostCmd read the service and print; evalCmd runs
\* arbitrary Python (the model leaves its effects out) and prints its
\* Exception itself.  A read may raise, and any may be interrupted.
ListCmd == Invoked("list") /\ \E o \in Outcome : Returns(o) /\ UNCHANGED notPc
InfoCmd == Invoked("info") /\ \E o \in Outcome : Returns(o) /\ UNCHANGED notPc
HostCmd == Invoked("host") /\ \E o \in Outcome : Returns(o) /\ UNCHANGED notPc
EvalCmd == Invoked("eval") /\ \E o \in {"ok", "intr"} : Returns(o) /\ UNCHANGED notPc

\* setvarCmd: an unknown machine returns 0; for a known one the call
\* getSessionObject(vbox) raises NameError (no `vbox` in scope), before any
\* session is opened or any setting saved.
SetvarCmd ==
    /\ Invoked("setvar")
    /\ \/ \E m \in Machines \ registered : pc' = "prompt"
       \/ \E m \in registered : Raise("err")
       \/ Raise("intr")
    /\ UNCHANGED notPc

VerboseCmd ==
    /\ Invoked("verbose")
    /\ verbose' = ~verbose
    /\ UNCHANGED <<pc, frame, hostPerf, registered, disk, mstate, sessionState,
                   sessions, callbacks>>

QuitCmd ==
    /\ Invoked("quit")
    /\ pc' = "teardown"
    /\ UNCHANGED <<frame, verbose, hostPerf, registered, disk, mstate,
                   sessionState, sessions, callbacks>>

\* Mutant: registerMachine called before saveSettings, which then fails.
CreateVmRegisterFirst(m, o) ==
    /\ m \notin settings
    /\ \/ Raise(o) /\ UNCHANGED <<registered, settings>>
       \/ Raise(o) /\ registered' = registered \cup {m} /\ UNCHANGED settings
       \/ settings' = settings \cup {m}
          /\ registered' = registered \cup {m} /\ pc' = "prompt"

\* createVm: createMachine (the service refuses a name whose settings file
\* exists), saveSettings (the file is written), registerMachine.  Each may
\* raise or be interrupted, and nothing undoes the earlier ones.
CreateVm(m, o) ==
    /\ m \notin settings
    /\ \/ Raise(o) /\ UNCHANGED <<registered, settings>>
       \/ Raise(o) /\ settings' = settings \cup {m} /\ UNCHANGED registered
       \/ settings' = settings \cup {m}
          /\ registered' = registered \cup {m} /\ pc' = "prompt"

\* createCmd: getGuestOSType (an Exception returns 0, an interrupt escapes)
\* or createMachine may fail before anything is written; a machine made
\* anew has no disks.
CreateCmd ==
    /\ Invoked("create")
    /\ \E m \in Machines \ registered, o \in Failures :
         /\ \/ Raise(o) /\ UNCHANGED <<registered, settings>>
            \/ CreateVm(m, o)
         /\ detached' = detached \ {m}
    /\ UNCHANGED <<frame, verbose, hostPerf, mstate, sessionState,
                   sessions, callbacks>>

-----------------------------------------------------------------------------
(* startCmd/startVm: the creation session.                                 *)

\* openRemoteSession succeeds on a registered machine with no session; it
\* raises otherwise (and argsToMach returns to the prompt for an unknown
\* name, which has the same effect as a raised Exception).
StartCmd ==
    /\ Invoked("start")
    /\ \E m \in registered :
         \/ /\ sessionState[m] = "Closed"
            /\ sessionState' = [sessionState EXCEPT ![m] = "Spawning"]
            /\ sessions' = sessions \cup {<<m, "remote">>}
            /\ tgt' = m
            /\ pc' = "start_wait"
         \/ \E o \in Failures : Raise(o) /\ UNCHANGED <<tgt, sessionState, sessions>>
    /\ UNCHANGED <<op, mon, slices, verbose, hostPerf, registered, disk, mstate,
                   callbacks>>

\* progress.waitForCompletion(-1): the launch ends with rc = 0 (the VM
\* runs, its process holds the machine's session), with rc # 0 (the session
\* never opened; the error is printed, and looked up with QueryErrorObject
\* only on the local binding), or
\* the wait is interrupted.
StartWait ==
    /\ pc = "start_wait"
    /\ \/ /\ mstate' = [mstate EXCEPT ![tgt] = "Running"]
          /\ sessionState' = [sessionState EXCEPT ![tgt] = "Open"]
          /\ pc' = "start_perf"
          /\ UNCHANGED <<tgt, sessions>>
       \/ /\ sessionState' = [sessionState EXCEPT ![tgt] = "Closed"]
          /\ sessions' = sessions \ {<<tgt, "remote">>}
          /\ pc' = "prompt"
          /\ tgt' = NoMachine
          /\ UNCHANGED mstate
       \/ Raise("intr") /\ UNCHANGED <<tgt, mstate, sessionState, sessions>>
    /\ UNCHANGED <<op, mon, slices, verbose, hostPerf, registered, disk,
                   callbacks>>

\* perf.setup(['*'], [mach], 10, 15) inside `except Exception`.
StartPerf ==
    /\ pc = "start_perf"
    /\ \E o \in Outcome : IF o = "intr" THEN Raise(o) ELSE pc' = "start_close"
    /\ UNCHANGED <<frame, verbose, hostPerf, registered, disk, mstate,
                   sessionState, sessions, callbacks>>

\* Mutant: the creation session left open after a successful launch.
StartCloseKeeps ==
    /\ pc = "start_close"
    /\ pc' = "prompt"
    /\ tgt' = NoMachine
    /\ UNCHANGED <<op, mon, slices, verbose, hostPerf, registered, disk, mstate,
                   sessionState, sessions, callbacks>>

\* session.close() after a successful launch; a release is assumed to
\* succeed (no failure or interrupt outcome).
StartClose ==
    /\ pc = "start_close"
    /\ sessions' = sessions \ {<<tgt, "remote">>}
    /\ pc' = "prompt"
    /\ tgt' = NoMachine
    /\ UNCHANGED <<op, mon, slices, verbose, hostPerf, registered, disk, mstate,
                   sessionState, callbacks>>

-----------------------------------------------------------------------------
(* cmdExistingVm: the attach session, and the operations run in it.       *)

\* pause/resume/powerdown/stats/guest/monitorGuest resolve the machine and
\* call openExistingSession, which succeeds only while the machine's own
\* process holds its session.  Its Exception is printed and cmdExistingVm
\* returns; a session not in state Open (line 391) returns the same way.
ExistingCmd ==
    /\ \E c \in Ops, m \in registered :
         /\ Invoked(c)
         /\ \/ /\ sessionState[m] = "Open" /\ mstate[m] # "PoweredOff"
               /\ sessions' = sessions \cup {<<m, "shared">>}
               /\ tgt' = m /\ op' = c
               /\ pc' = "op"
            \/ \E o \in Failures : Raise(o) /\ UNCHANGED <<tgt, op, sessions>>
    /\ UNCHANGED <<mon, slices, verbose, hostPerf, registered, disk, mstate,
                   sessionState, callbacks>>

\* The effect on the machine of a console call that returns normally.
OpEffect ==
    \/ op = "pause" /\ mstate[tgt] = "Running"
       /\ mstate' = [mstate EXCEPT ![tgt] = "Paused"]
       /\ UNCHANGED sessionState
    \/ op = "resume" /\ mstate[tgt] = "Paused"
       /\ mstate' = [mstate EXCEPT ![tgt] = "Running"]
       /\ UNCHANGED sessionState
    \/ op = "powerdown" /\ mstate[tgt] # "PoweredOff"
       /\ mstate' = [mstate EXCEPT ![tgt] = "PoweredOff"]
       /\ sessionState' = [sessionState EXCEPT ![tgt] = "Closed"]
    \/ op \in {"stats", "guest"} /\ UNCHANGED <<mstate, sessionState>>

\* Mutant: session.close() moved inside the try, after ops[cmd]().
RunOpCloseInTry ==
    /\ pc = "op"
    /\ op # "monitorGuest"
    /\ \/ OpEffect /\ pc' = "close"
       \/ pc' = "prompt" /\ UNCHANGED <<mstate, sessionState>>
       \/ Raise("intr") /\ UNCHANGED <<mstate, sessionState>>
    /\ UNCHANGED <<frame, verbose, hostPerf, registered, disk, sessions,
                   callbacks>>

\* ops[cmd]() inside `except Exception`: an Exception is printed and the
\* session closed; a KeyboardInterrupt escapes past session.close().
RunOp ==
    /\ pc = "op"
    /\ op # "monitorGuest"
    /\ \/ OpEffect /\ pc' = "close"
       \/ pc' = "close" /\ UNCHANGED <<mstate, sessionState>>
       \/ Raise("intr") /\ UNCHANGED <<mstate, sessionState>>
    /\ UNCHANGED <<frame, verbose, hostPerf, registered, disk, sessions,
                   callbacks>>

StartMonitorGuest ==
    /\ pc = "op"
    /\ op = "monitorGuest"
    /\ mon' = "guest"
    /\ pc' = "mon_reg"
    /\ UNCHANGED <<tgt, op, slices, verbose, hostPerf, registered, disk, mstate,
                   sessionState, sessions, callbacks>>

\* session.close() at the end of cmdExistingVm, assumed to succeed.
Close ==
    /\ pc = "close"
    /\ sessions' = sessions \ {<<tgt, "shared">>}
    /\ pc' = "prompt"
    /\ tgt' = NoMachine /\ op' = "none"
    /\ UNCHANGED <<mon, slices, verbose, hostPerf, registered, disk, mstate,
                   sessionState, callbacks>>

-----------------------------------------------------------------------------
(* monitorGuest/monitorVbox: the event monitor.                            *)

MonitorVboxCmd ==
    /\ Invoked("monitorVbox")
    /\ mon' = "vbox"
    /\ pc' = "mon_reg"
    /\ UNCHANGED <<tgt, op, slices, verbose, hostPerf, registered, disk, mstate,
                   sessionState, sessions, callbacks>>

\* createCallback and registerCallback, before the try.  A failure there
\* escapes the monitor: monitorGuest's Exception is caught by
\* cmdExistingVm, which closes its session; monitorVbox's reaches the loop.
MonReg ==
    /\ pc = "mon_reg"
    /\ \/ /\ callbacks' = callbacks \cup {Source}
          /\ \E n \in 0..MaxSlices : slices' = n
          /\ pc' = "mon_wait"
          /\ UNCHANGED mon
       \/ /\ mon = "guest" /\ pc' = "close" /\ mon' = "none"
          /\ UNCHANGED <<callbacks, slices>>
       \/ /\ mon = "vbox" /\ Raise("err") /\ mon' = "none"
          /\ UNCHANGED <<callbacks, slices>>
       \/ Raise("intr") /\ mon' = "none" /\ UNCHANGED <<callbacks, slices>>
    /\ UNCHANGED <<tgt, op, verbose, hostPerf, registered, disk, mstate,
                   sessionState, sessions>>

\* Mutant: `while time.time() <= end`, one slice past the deadline.
MonWaitPastDeadline ==
    /\ pc = "mon_wait"
    /\ \/ slices >= 0 /\ slices' = slices - 1 /\ UNCHANGED pc
       \/ slices = 0 /\ pc' = "mon_unreg" /\ UNCHANGED slices
       \/ slices > 0 /\ pc' = "mon_unreg" /\ slices' = 0
    /\ UNCHANGED <<tgt, op, mon, verbose, hostPerf, registered, disk, mstate,
                   sessionState, sessions, callbacks>>

\* Mutant: `except Exception` instead of the bare except: a
\* KeyboardInterrupt in the pump escapes past unregisterCallback.
MonWaitNarrowExcept ==
    /\ pc = "mon_wait"
    /\ \/ slices > 0 /\ slices' = slices - 1 /\ UNCHANGED pc
       \/ slices = 0 /\ pc' = "mon_unreg" /\ UNCHANGED slices
       \/ slices > 0 /\ pc' = "mon_unreg" /\ slices' = 0
       \/ slices > 0 /\ Raise("intr") /\ UNCHANGED slices
    /\ UNCHANGED <<tgt, op, mon, verbose, hostPerf, registered, disk, mstate,
                   sessionState, sessions, callbacks>>

\* while time.time() < end: waitForEvents(500).  A returning slice brings
\* the deadline nearer; any exception, KeyboardInterrupt included, is
\* swallowed by the bare except and ends the loop.
MonWait ==
    /\ pc = "mon_wait"
    /\ \/ slices > 0 /\ slices' = slices - 1 /\ UNCHANGED pc
       \/ slices = 0 /\ pc' = "mon_unreg" /\ UNCHANGED slices
       \/ slices > 0 /\ pc' = "mon_unreg" /\ slices' = 0
    /\ UNCHANGED <<tgt, op, mon, verbose, hostPerf, registered, disk, mstate,
                   sessionState, sessions, callbacks>>

\* Mutant: monitorGuest copied from monitorVbox, unregistering from vbox.
MonUnregWrongSource ==
    /\ pc = "mon_unreg"
    /\ callbacks' = callbacks \ {VBoxSource}
    /\ pc' = IF mon = "guest" THEN "close" ELSE "prompt"
    /\ mon' = "none"
    /\ UNCHANGED <<tgt, op, slices, verbose, hostPerf, registered, disk, mstate,
                   sessionState, sessions>>

\* unregisterCallback after the try, assumed to succeed; monitorGuest
\* returns into cmdExistingVm, which closes its session.
MonUnreg ==
    /\ pc = "mon_unreg"
    /\ callbacks' = callbacks \ {Source}
    /\ pc' = IF mon = "guest" THEN "close" ELSE "prompt"
    /\ mon' = "none"
    /\ UNCHANGED <<tgt, op, slices, verbose, hostPerf, registered, disk, mstate,
                   sessionState, sessions>>

-----------------------------------------------------------------------------
(* removeCmd/removeVm: a direct session to detach the disks.               *)

\* Mutant: a failing openMachineSession is caught and ignored, and the
\* disks are detached anyway.
RemoveCmdIgnoreOpen ==
    /\ Invoked("remove")
    /\ \E m \in registered :
         \/ /\ sessionState[m] = "Closed"
            /\ sessionState' = [sessionState EXCEPT ![m] = "Open"]
            /\ sessions' = sessions \cup {<<m, "direct">>}
            /\ tgt' = m
            /\ pc' = "rm_detach"
         \/ tgt' = m /\ pc' = "rm_detach" /\ UNCHANGED <<sessionState, sessions>>
    /\ UNCHANGED <<op, mon, slices, verbose, hostPerf, registered, disk, mstate,
                   callbacks>>

\* openMachineSession succeeds only on a machine without a session.
RemoveCmd ==
    /\ Invoked("remove")
    /\ \E m \in registered :
         \/ /\ sessionState[m] = "Closed"
            /\ sessionState' = [sessionState EXCEPT ![m] = "Open"]
            /\ sessions' = sessions \cup {<<m, "direct">>}
            /\ tgt' = m
            /\ pc' = "rm_detach"
         \/ \E o \in Failures : Raise(o) /\ UNCHANGED <<tgt, sessionState, sessions>>
    /\ UNCHANGED <<op, mon, slices, verbose, hostPerf, registered, disk, mstate,
                   callbacks>>

\* getHardDiskAttachments and detachHardDisk for each disk, with no try:
\* a failure, before or after some disks are detached, leaves
\* closeMachineSession unreached.
RmDetach ==
    /\ pc = "rm_detach"
    /\ \/ detached' = detached \cup {tgt} /\ pc' = "rm_close"
       \/ \E o \in Failures :
            Raise(o) /\ detached' \in {detached, detached \cup {tgt}}
    /\ UNCHANGED <<frame, verbose, hostPerf, registered, settings, mstate,
                   sessionState, sessions, callbacks>>

\* closeMachineSession, assumed to succeed.
RmClose ==
    /\ pc = "rm_close"
    /\ sessions' = sessions \ {<<tgt, "direct">>}
    /\ sessionState' = [sessionState EXCEPT ![tgt] = "Closed"]
    /\ pc' = "rm_unreg"
    /\ UNCHANGED <<frame, verbose, hostPerf, registered, disk, mstate,
                   callbacks>>

\* unregisterMachine (refused while the machine has a session), then
\* deleteSettings on the machine it returns; either may fail.
RmUnreg ==
    /\ pc = "rm_unreg"
    /\ \/ \E o \in Failures : Raise(o) /\ UNCHANGED <<registered, settings>>
       \/ /\ sessionState[tgt] = "Closed"
          /\ registered' = registered \ {tgt}
          /\ \/ settings' = settings \ {tgt} /\ pc' = "prompt"
             \/ \E o \in Failures : Raise(o) /\ UNCHANGED settings
    /\ tgt' = NoMachine
    /\ UNCHANGED <<op, mon, slices, verbose, hostPerf, detached, mstate,
                   sessionState, sessions, callbacks>>

-----------------------------------------------------------------------------
(* Other clients of the service.                                           *)

\* Another frontend launches a registered machine that has no session.
OtherStart(m) ==
    /\ m \in registered
    /\ sessionState[m] = "Closed"
    /\ mstate' = [mstate EXCEPT ![m] = "Running"]
    /\ sessionState' = [sessionState EXCEPT ![m] = "Open"]
    /\ UNCHANGED <<pc, frame, verbose, hostPerf, registered, disk, sessions,
                   callbacks>>

\* A running machine powers off by itself (guest shutdown, other client).
OtherPowerOff(m) ==
    /\ mstate[m] # "PoweredOff"
    /\ mstate' = [mstate EXCEPT ![m] = "PoweredOff"]
    /\ sessionState' = [sessionState EXCEPT ![m] = "Closed"]
    /\ UNCHANGED <<pc, frame, verbose, hostPerf, registered, disk, sessions,
                   callbacks>>

Environment ==
    /\ pc # "exited"
    /\ \E m \in Machines : OtherStart(m) \/ OtherPowerOff(m)

-----------------------------------------------------------------------------
\* The user chooses the line typed at the prompt; the shell's own steps.
UserStep ==
    \/ ReadEnd \/ NoCommand \/ HelpCmd \/ AliasesCmd \/ ListCmd \/ InfoCmd
    \/ HostCmd \/ EvalCmd \/ SetvarCmd \/ VerboseCmd \/ QuitCmd \/ CreateCmd
    \/ StartCmd \/ ExistingCmd \/ MonitorVboxCmd \/ RemoveCmd

ShellStep ==
    \/ Boot \/ BootFails \/ Teardown
    \/ StartWait \/ StartPerf \/ StartClose
    \/ RunOp \/ StartMonitorGuest \/ Close
    \/ MonReg \/ MonWait \/ MonUnreg
    \/ RmDetach \/ RmClose \/ RmUnreg

\* After main() returns nothing happens any more.
Exited == pc = "exited" /\ UNCHANGED vars

Next == UserStep \/ ShellStep \/ Environment \/ Exited

\* The shell thread is never descheduled forever and every call it waits
\* on returns or raises (waitForCompletion(-1) included: the service ends
\* every launch).  The user need not type anything.
Spec == Init /\ [][Next]_vars /\ WF_vars(ShellStep)

-----------------------------------------------------------------------------
(* Properties.                                                             *)

TypeOK ==
    /\ pc \in PCs
    /\ tgt \in Machines \cup {NoMachine}
    /\ op \in Ops \cup {"none"}
    /\ mon \in {"none", "guest", "vbox"}
    /\ slices \in 0..MaxSlices
    /\ verbose \in BOOLEAN
    /\ hostPerf \in BOOLEAN
    /\ registered \subseteq Machines
    /\ settings \subseteq Machines
    /\ detached \subseteq Machines
    /\ mstate \in [Machines -> MStates]
    /\ sessionState \in [Machines -> SStates]
    /\ sessions \subseteq Machines \X Kinds
    /\ callbacks \subseteq Machines \cup {VBoxSource}

\* Session Manager (startVm, cmdExistingVm): whenever the shell is back at
\* its prompt, it holds neither a creation session nor an attach session,
\* whichever branch the command took and whatever the service raised.
SessionReleasedAtPrompt ==
    pc = "prompt" => \A s \in sessions : s[2] = "direct"

\* Event Monitor (monitorGuest, monitorVbox): once the shell is back at the
\* prompt or has exited, its callback is registered with no event source,
\* even when the pump loop was interrupted or the service failed.
CallbackReleased ==
    pc \in {"prompt", "teardown", "exited"} => callbacks = {}

\* Event Monitor: every callback registration is eventually followed by its
\* de-registration (spec 3, CallbackRegistration): the pump reaches its
\* deadline or is interrupted, and unregisterCallback runs in both cases.
MonitorEnds ==
    (callbacks # {}) ~> (callbacks = {})

\* removeVm: the shell is back at its prompt only when it holds no session
\* at all, the direct session of removeVm included (spec 4.3, 7).
NoSessionLeakAtPrompt ==
    pc = "prompt" => sessions = {}

\* Session Manager: the attach session of cmdExistingVm is released on every
\* exit path, a KeyboardInterrupt during the operation included (spec 4.3:
\* "regardless of the branch taken or whether the handler raised").
SessionReleasedAtExit ==
    pc = "exited" => \A s \in sessions : s[2] # "shared"

\* interpret(): when the shell has ended, host metric collection has been
\* disabled (the teardown at line 714 intends it).
TeardownDisablesMetrics ==
    pc = "exited" => ~hostPerf

\* Machine lifecycle (createVm, removeVm): every registered machine has its
\* settings file on the host, whichever of createMachine, saveSettings,
\* registerMachine, unregisterMachine and deleteSettings failed: a file is
\* written before its machine is registered and deleted only after it is
\* unregistered.
RegisteredPersisted ==
    registered \subseteq settings

\* Machine lifecycle (createVm, removeVm): every settings file on the host
\* belongs to a registered machine, so create "registers and persists" a
\* machine as one operation and remove deletes what it unregisters (spec
\* 6); an orphan file makes createMachine refuse that name for good.
NoOrphanSettings ==
    settings \subseteq registered

\* removeVm: back at the prompt, no machine that remove has begun to strip
\* of its disks is still registered: remove either completes or leaves the
\* machine whole, whatever other clients do between its steps (spec 6, 7).
RemoveAllOrNothing ==
    pc = "prompt" => detached \cap registered = {}

\* removeVm: a step detaches the disks of a machine only while the shell
\* holds the direct session that locks it (the disks are detached through
\* session.machine of openMachineSession, never without the lock).
DetachUnderLock ==
    [][\A m \in detached' \ detached : <<m, "direct">> \in sessions]_vars

-----------------------------------------------------------------------------
(* Refinement: the shell implements ShellSessions.                         *)

\* interpret(): booting, at the prompt, inside a command, or past the loop.
Phase ==
    CASE pc = "boot" -> "boot"
      [] pc = "prompt" -> "idle"
      [] pc \in {"teardown", "exited"} -> "ended"
      [] OTHER -> "busy"

Abstract == INSTANCE ShellSessions
              WITH Sources <- Machines \cup {VBoxSource},
                   phase <- Phase, held <- sessions, regs <- callbacks

\* Session Manager and Event Monitor together: every step of the shell
\* takes or releases at most one session or registration; a command holds
\* at most one creation or attach session; the prompt is reached only with
\* those closed and no callback registered, and the shell ends with no
\* callback registered (spec 3, 4.3, 4.4).
ImplementsShellSessions == Abstract!Spec

=============================================================================
