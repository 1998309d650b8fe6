--------------------------- MODULE ShellSessions ---------------------------
(***************************************************************************)
(* What the shell promises about the service resources it holds (spec 3,  *)
(* 4.3, 4.4, 5), without the commands that use them.                       *)
(*                                                                         *)
(* The shell starts, then alternates between its prompt ("idle") and a    *)
(* running command ("busy") until it ends.  A command takes and releases  *)
(* sessions one at a time and holds at most one creation or attach        *)
(* session; it registers at most one callback.  The shell is back at the  *)
(* prompt only with every creation and attach session closed and no       *)
(* callback registered, and it ends only with no callback registered.     *)
(* Direct sessions (removeVm) are not constrained here.                    *)
(***************************************************************************)
CONSTANTS
    Machines,   \* the machines sessions are taken on
    Sources     \* the event sources a callback is registered with

VARIABLES
    phase,      \* "boot", "idle", "busy" or "ended"
    held,       \* the sessions held: <<machine, kind>>
    regs        \* the sources the shell's callback is registered with

avars == <<phase, held, regs>>

Kinds == {"remote", "shared", "direct"}

\* Nothing a finished command may still hold.
AtRest(h, r) == (\A s \in h : s[2] = "direct") /\ r = {}

\* The step leaves the shell in a command or at its prompt, and at the
\* prompt only at rest.
Settle ==
    /\ phase' \in {"idle", "busy"}
    /\ phase' = "idle" => AtRest(held', regs')

Running == phase \in {"idle", "busy"}

Init ==
    /\ phase = "boot"
    /\ held = {}
    /\ regs = {}

Start ==
    /\ phase = "boot"
    /\ phase' \in {"idle", "ended"}
    /\ UNCHANGED <<held, regs>>

Step ==
    /\ Running
    /\ Settle
    /\ UNCHANGED <<held, regs>>

Acquire(s) ==
    /\ Running
    /\ s[2] # "direct" => AtRest(held, {})
    /\ held' = held \cup {s}
    /\ phase' = "busy"
    /\ UNCHANGED regs

Release(s) ==
    /\ Running
    /\ s \in held
    /\ held' = held \ {s}
    /\ Settle
    /\ UNCHANGED regs

Register(src) ==
    /\ Running
    /\ regs = {}
    /\ regs' = {src}
    /\ phase' = "busy"
    /\ UNCHANGED held

Unregister(src) ==
    /\ src \in regs
    /\ regs' = regs \ {src}
    /\ Settle
    /\ UNCHANGED held

End ==
    /\ Running
    /\ regs = {}
    /\ phase' = "ended"
    /\ UNCHANGED <<held, regs>>

Next ==
    \/ Start \/ Step \/ End
    \/ \E s \in Machines \X Kinds : Acquire(s) \/ Release(s)
    \/ \E src \in Sources : Register(src) \/ Unregister(src)

Spec == Init /\ [][Next]_avars

=============================================================================
