---------------------------- MODULE MachineLookup ----------------------------
(***************************************************************************)
(* What resolving a machine argument promises, as one step: the registry  *)
(* is scanned in order; the first machine that answers to the token, by   *)
(* its name or by its printed identifier with enclosing braces stripped   *)
(* (spec 4.2), is the result; None when no machine answers.  A machine    *)
(* whose name cannot be read (an inaccessible one) ends the scan with an  *)
(* exception when the scan reaches it.                                     *)
(*                                                                         *)
(* A registry entry is what the shell can read of a machine: its name,   *)
(* its identifier as printed, and whether it is accessible.               *)
(***************************************************************************)
EXTENDS Naturals, Sequences

CONSTANTS
    Names,      \* machine names
    Ids,        \* identifiers as the service prints them
    Tokens,     \* words a user may type as the machine argument
    LBrace,     \* the character "{"
    RBrace      \* the character "}"

VARIABLES
    registry,   \* the machines, in the service's order
    token,      \* the word being resolved (<<>> when none)
    found,      \* the position of the machine found, 0 for None
    pc          \* "idle", "done" or "raised"

lvars == <<registry, token, found, pc>>

Entry == [name : Names, id : Ids, accessible : BOOLEAN]

\* Spec 4.2: the identifier with its enclosing braces stripped.
Unbraced(s) ==
    IF Len(s) >= 2 /\ s[1] = LBrace /\ s[Len(s)] = RBrace
    THEN SubSeq(s, 2, Len(s) - 1) ELSE s

\* Machine k answers to tok by name or by identifier.
AnswersTo(k, tok) == registry[k].name = tok \/ Unbraced(registry[k].id) = tok

\* The scan gets past the first k - 1 machines: each was readable and did
\* not answer.
Reaches(k, tok) ==
    \A j \in 1..k - 1 : registry[j].accessible /\ ~AnswersTo(j, tok)

Init ==
    /\ registry \in Seq(Entry)
    /\ token = <<>> /\ found = 0
    /\ pc = "idle"

\* No machine argument given: None.
NoArgument ==
    /\ pc = "idle"
    /\ token' = <<>> /\ found' = 0
    /\ pc' = "done"
    /\ UNCHANGED registry

\* The whole lookup of tok.
Resolve(tok) ==
    /\ pc = "idle"
    /\ token' = tok
    /\ \/ \E k \in DOMAIN registry :
             /\ Reaches(k, tok) /\ ~registry[k].accessible
             /\ found' = 0 /\ pc' = "raised"
       \/ \E k \in DOMAIN registry :
             /\ Reaches(k, tok) /\ registry[k].accessible /\ AnswersTo(k, tok)
             /\ found' = k /\ pc' = "done"
       \/ Reaches(Len(registry) + 1, tok) /\ found' = 0 /\ pc' = "done"
    /\ UNCHANGED registry

\* The command is over.
Finish ==
    /\ pc \in {"done", "raised"}
    /\ token' = <<>> /\ found' = 0 /\ pc' = "idle"
    /\ UNCHANGED registry

Next == NoArgument \/ (\E tok \in Tokens : Resolve(tok)) \/ Finish

Spec == Init /\ [][Next]_lvars

=============================================================================
