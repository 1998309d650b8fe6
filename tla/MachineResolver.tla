-------------------------- MODULE MachineResolver --------------------------
(***************************************************************************)
(* argsToMach and machById of vboxshell.py: the machine named by the      *)
(* second word of a command line, looked up in the registry the service    *)
(* returns (getMachines), in the registry's order.                         *)
(*                                                                         *)
(* A string is a sequence of one-character strings, so that str(m.id),    *)
(* mid[0] and mid[1:-1] are modelled by what they do.  A machine's id is  *)
(* printed by the service with braces on one binding and without on the  *)
(* other; reading the name of an inaccessible machine raises (only its id  *)
(* and a few other attributes are readable then).  The for loop of        *)
(* machById is one step per machine visited.                               *)
(***************************************************************************)
EXTENDS Naturals, Sequences

CONSTANTS
    Chars,        \* the characters strings are made of
    Uuids,        \* uuid bodies, without braces (strings)
    Names,        \* machine names (strings)
    Tokens,       \* words a user may type as the machine argument
    MaxMachines   \* most machines in the registry

LBrace == "{"
RBrace == "}"

ASSUME ResolverAssumption ==
    /\ {LBrace, RBrace} \subseteq Chars
    /\ \A u \in Uuids : u \in Seq(Chars) /\ Len(u) > 0 /\ u[1] # LBrace
    /\ Names \subseteq Seq(Chars)
    /\ Tokens \subseteq Seq(Chars)
    /\ MaxMachines \in Nat

VARIABLES
    registry,  \* getMachines(ctx): the machines, in the service's order
    braced,    \* str(m.id) carries braces on this binding
    token,     \* args[1]
    i,         \* the loop's position in the registry (1-based)
    mach,      \* the machine found (its position), 0 for None
    pc         \* "idle", "loop" or "done"

vars == <<registry, braced, token, i, mach, pc>>

Machine == [name : Names, uuid : Uuids, accessible : BOOLEAN]

\* Registries the service can return: ids are unique, and so are names
\* (registerMachine refuses a second machine with a taken name).
Registries ==
    UNION {{r \in [1..n -> Machine] :
              \A j, k \in 1..n : j # k =>
                  r[j].uuid # r[k].uuid /\ r[j].name # r[k].name}
           : n \in 0..MaxMachines}

\* str(m.id) on this binding.
IdString(m) == IF braced THEN <<LBrace>> \o m.uuid \o <<RBrace>> ELSE m.uuid

\* Mutant: the test of mid[0] dropped, mid[1:-1] taken of every id.
StripAlways(mid) == SubSeq(mid, 2, Len(mid) - 1)

\* if mid[0] == '{': mid = mid[1:-1]
Strip(mid) == IF mid[1] = LBrace THEN SubSeq(mid, 2, Len(mid) - 1) ELSE mid

-----------------------------------------------------------------------------
Init ==
    /\ registry \in Registries
    /\ braced \in BOOLEAN
    /\ token = <<>> /\ i = 0 /\ mach = 0
    /\ pc = "idle"

\* argsToMach with fewer than two words prints the usage and returns None.
NoArgument ==
    /\ pc = "idle"
    /\ mach' = 0 /\ token' = <<>>
    /\ pc' = "done"
    /\ UNCHANGED <<registry, braced, i>>

\* argsToMach calls machById(ctx, args[1]): mach = None, the loop begins.
Lookup(tok) ==
    /\ pc = "idle"
    /\ token' = tok /\ i' = 1 /\ mach' = 0
    /\ pc' = "loop"
    /\ UNCHANGED <<registry, braced>>

\* Mutant: the id compared as str(m.id), braces kept.
VisitNoStrip ==
    /\ pc = "loop" /\ i \in DOMAIN registry
    /\ LET m == registry[i] IN
         \/ ~m.accessible /\ pc' = "raised" /\ UNCHANGED <<i, mach>>
         \/ m.accessible /\ m.name = token
            /\ mach' = i /\ pc' = "done" /\ UNCHANGED i
         \/ m.accessible /\ m.name # token /\ IdString(m) = token
            /\ mach' = i /\ pc' = "done" /\ UNCHANGED i
         \/ m.accessible /\ m.name # token /\ IdString(m) # token
            /\ i' = i + 1 /\ UNCHANGED <<mach, pc>>
    /\ UNCHANGED <<registry, braced, token>>

\* Mutant: no `break`; the loop goes on and the last match wins.
VisitNoBreak ==
    /\ pc = "loop" /\ i \in DOMAIN registry
    /\ LET m == registry[i] IN
         \/ ~m.accessible /\ pc' = "raised" /\ UNCHANGED <<i, mach>>
         \/ m.accessible /\ (m.name = token \/ Strip(IdString(m)) = token)
            /\ mach' = i /\ i' = i + 1 /\ UNCHANGED pc
         \/ m.accessible /\ m.name # token /\ Strip(IdString(m)) # token
            /\ i' = i + 1 /\ UNCHANGED <<mach, pc>>
    /\ UNCHANGED <<registry, braced, token>>

\* One iteration of `for m in getMachines(ctx)`: m.name is read first (it
\* raises for an inaccessible machine, and the exception leaves machById
\* and argsToMach), then the id with its braces stripped; a match breaks.
Visit ==
    /\ pc = "loop" /\ i \in DOMAIN registry
    /\ LET m == registry[i] IN
         \/ ~m.accessible /\ pc' = "raised" /\ UNCHANGED <<i, mach>>
         \/ m.accessible /\ m.name = token
            /\ mach' = i /\ pc' = "done" /\ UNCHANGED i
         \/ m.accessible /\ m.name # token /\ Strip(IdString(m)) = token
            /\ mach' = i /\ pc' = "done" /\ UNCHANGED i
         \/ m.accessible /\ m.name # token /\ Strip(IdString(m)) # token
            /\ i' = i + 1 /\ UNCHANGED <<mach, pc>>
    /\ UNCHANGED <<registry, braced, token>>

\* The loop runs out: machById returns None and argsToMach says the
\* machine is unknown.
LoopEnd ==
    /\ pc = "loop" /\ i = Len(registry) + 1
    /\ pc' = "done"
    /\ UNCHANGED <<registry, braced, token, i, mach>>

\* The command that asked is over; the shell reads the next line.
NextCommand ==
    /\ pc \in {"done", "raised"}
    /\ pc' = "idle" /\ token' = <<>> /\ i' = 0 /\ mach' = 0
    /\ UNCHANGED <<registry, braced>>

Next ==
    \/ NoArgument
    \/ \E tok \in Tokens : Lookup(tok)
    \/ Visit \/ LoopEnd \/ NextCommand

Spec == Init /\ [][Next]_vars

-----------------------------------------------------------------------------
(* Properties.                                                             *)

TypeOK ==
    /\ registry \in Registries
    /\ braced \in BOOLEAN
    /\ token \in Tokens \cup {<<>>}
    /\ i \in 0..MaxMachines + 1
    /\ mach \in 0..MaxMachines
    /\ pc \in {"idle", "loop", "done", "raised"}

\* Spec 4.2: the identifier with its enclosing braces stripped.
Unbraced(s) ==
    IF Len(s) >= 2 /\ s[1] = LBrace /\ s[Len(s)] = RBrace
    THEN SubSeq(s, 2, Len(s) - 1) ELSE s

\* Spec 4.2: machine k answers to the token by name or by its identifier.
Answers(k) ==
    registry[k].name = token \/ Unbraced(IdString(registry[k])) = token

\* machById: when the lookup ends without an exception, it has returned
\* the first machine of the registry that answers to the token, by name or
\* by brace-stripped id, and None only when no machine answers (spec 4.2).
ResolvesFirstMatch ==
    /\ (pc = "done" /\ mach # 0) =>
          /\ mach \in DOMAIN registry /\ Answers(mach)
          /\ \A k \in 1..mach - 1 : ~Answers(k)
    /\ (pc = "done" /\ mach = 0 /\ token # <<>>) =>
          \A k \in DOMAIN registry : ~Answers(k)

\* Spec 4.2: resolution returns NotFound and never raises, whatever the
\* registry holds.
NeverRaises == pc # "raised"

\* The id `list` prints (str(m.id), braces and all) names that machine
\* when typed back as the argument of info, start, pause, ...
ListedIdResolves ==
    (pc = "done" /\ \E k \in DOMAIN registry : token = IdString(registry[k]))
      => mach # 0

\* On the binding that prints ids without braces, the id `list` prints does
\* name its machine when typed back: the listed-id gap is the braced
\* binding's alone.
ListedIdResolvesUnbraced == ~braced => ListedIdResolves

-----------------------------------------------------------------------------
(* Refinement: the loop implements the one-step lookup of MachineLookup.   *)

\* What machById reads of each machine: m.name, str(m.id), and whether
\* the reads succeed.
Entries ==
    [k \in DOMAIN registry |->
        [name |-> registry[k].name, id |-> IdString(registry[k]),
         accessible |-> registry[k].accessible]]

Contract == INSTANCE MachineLookup
              WITH Ids <- Uuids \cup {<<LBrace>> \o u \o <<RBrace>> : u \in Uuids},
                   registry <- Entries,
                   token <- IF pc = "loop" THEN <<>> ELSE token,
                   found <- IF pc = "loop" THEN 0 ELSE mach,
                   pc <- IF pc = "loop" THEN "idle" ELSE pc

\* argsToMach/machById: the for loop, its early break and the exception of
\* an unreadable name together behave as one lookup that returns the first
\* machine answering by name or brace-stripped id, None when none answers,
\* and raises exactly when an inaccessible machine comes before any answer.
ImplementsMachineLookup == Contract!Spec

=============================================================================
