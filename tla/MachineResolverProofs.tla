----------------------- MODULE MachineResolverProofs -----------------------
(***************************************************************************)
(* machById returns the first machine of the registry that answers to the *)
(* token, for every registry, every binding and every token.              *)
(*                                                                         *)
(* The argument is the loop invariant of the for loop: while it runs,     *)
(* mach is None and no machine before position i answers.  The one fact  *)
(* about strings it needs is that the code's brace stripping (test        *)
(* mid[0], take mid[1:-1]) agrees with the spec's (strip enclosing        *)
(* braces) on every id the service prints.                                *)
(***************************************************************************)
EXTENDS MachineResolver, TLAPS

\* While machById loops, every machine before position i was readable
\* and did not answer.
LoopOK ==
    pc = "loop" =>
        /\ i \in 1..Len(registry) + 1
        /\ mach = 0 /\ token \in Tokens
        /\ \A k \in 1..i - 1 : registry[k].accessible /\ ~Answers(k)

\* Between commands nothing is being resolved.
IdleOK == pc = "idle" => token = <<>> /\ mach = 0

IInv ==
    /\ registry \in Seq(Machine)
    /\ braced \in BOOLEAN
    /\ pc \in {"idle", "loop", "done", "raised"}
    /\ i \in Nat /\ mach \in Nat
    /\ LoopOK
    /\ IdleOK
    /\ ResolvesFirstMatch

-----------------------------------------------------------------------------
\* A character put in front of a string, or after it.
LEMMA ConsChar ==
    ASSUME NEW u \in Seq(Chars), NEW x \in Chars
    PROVE  /\ <<x>> \o u \in Seq(Chars)
           /\ Len(<<x>> \o u) = Len(u) + 1
           /\ (<<x>> \o u)[1] = x
OBVIOUS

LEMMA SnocChar ==
    ASSUME NEW u \in Seq(Chars), NEW x \in Chars
    PROVE  /\ Len(u \o <<x>>) = Len(u) + 1
           /\ (u \o <<x>>)[Len(u) + 1] = x
           /\ (u \o <<x>>)[1] = IF Len(u) > 0 THEN u[1] ELSE x
OBVIOUS

\* The ids the service prints: `mid[0] == '{'` then mid[1:-1] strips
\* exactly the enclosing braces, on either binding.
LEMMA StripUnbraced ==
    ASSUME NEW m \in Machine, braced \in BOOLEAN
    PROVE  Strip(IdString(m)) = Unbraced(IdString(m))
<1>1. /\ m.uuid \in Seq(Chars) /\ Len(m.uuid) > 0 /\ m.uuid[1] # LBrace
      /\ LBrace \in Chars /\ RBrace \in Chars
    BY ResolverAssumption DEF Machine
<1>2. CASE braced
  <2> DEFINE u == m.uuid
             t == <<LBrace>> \o u
             id == t \o <<RBrace>>
  <2>1. IdString(m) = id
      BY <1>2 DEF IdString
  <2>2. t \in Seq(Chars) /\ Len(t) = Len(u) + 1 /\ t[1] = LBrace
      BY <1>1, ConsChar
  <2>3. /\ Len(id) = Len(u) + 2
        /\ id[1] = LBrace
        /\ id[Len(id)] = RBrace
      BY <1>1, <2>2, SnocChar
  <2>4. Strip(id) = SubSeq(id, 2, Len(id) - 1)
      BY <2>3 DEF Strip
  <2>5. Len(u) \in Nat
      BY <1>1
  <2>6. Len(id) >= 2 /\ id[1] = LBrace /\ id[Len(id)] = RBrace
      BY <2>3, <2>5
  <2>7. Unbraced(id) = SubSeq(id, 2, Len(id) - 1)
      BY <2>6, Zenon DEF Unbraced
  <2>8. QED
      BY <2>1, <2>4, <2>7
<1>3. CASE ~braced
  <2>1. IdString(m) = m.uuid
      BY <1>3 DEF IdString
  <2>2. QED
      BY <2>1, <1>1 DEF Strip, Unbraced
<1>4. QED
    BY <1>2, <1>3

\* A registry the service returns is a sequence of machines.
LEMMA RegistrySeq ==
    ASSUME NEW r \in Registries
    PROVE  r \in Seq(Machine)
<1>1. PICK n \in 0..MaxMachines : r \in [1..n -> Machine]
    BY DEF Registries
<1>2. n \in Nat
    OBVIOUS
<1>3. QED
    BY <1>1, <1>2

LEMMA InitIInv == Init => IInv
BY RegistrySeq DEF Init, IInv, LoopOK, IdleOK, ResolvesFirstMatch

\* One step of the lookup, or of the shell around it, keeps IInv.
LEMMA NextIInv == IInv /\ [Next]_vars => IInv'
<1> SUFFICES ASSUME IInv, [Next]_vars PROVE IInv'
    OBVIOUS
<1> USE DEF IInv, LoopOK, IdleOK, ResolvesFirstMatch
<1>1. CASE NoArgument
    BY <1>1 DEF NoArgument
<1>2. CASE \E tok \in Tokens : Lookup(tok)
    BY <1>2 DEF Lookup
<1>3. CASE Visit
  <2> DEFINE m == registry[i]
  <2>1. i \in DOMAIN registry /\ m \in Machine /\ pc = "loop"
      BY <1>3 DEF Visit
  <2>2. Strip(IdString(m)) = Unbraced(IdString(m))
      BY <2>1, StripUnbraced
  <2>3. UNCHANGED <<registry, braced, token>>
      BY <1>3 DEF Visit
  <2>4. ASSUME NEW k \in DOMAIN registry PROVE Answers(k)' = Answers(k)
      BY <2>3 DEF Answers, IdString, Unbraced
  <2>5. Answers(i) <=> (m.name = token \/ Strip(IdString(m)) = token)
      BY <2>2 DEF Answers
  <2>6. \A k \in 1..i - 1 : registry[k].accessible /\ ~Answers(k)
      BY <2>1
  <2>7. CASE ~m.accessible /\ pc' = "raised" /\ UNCHANGED <<i, mach>>
      BY <2>3, <2>7
  <2>8. CASE m.accessible /\ (m.name = token \/ Strip(IdString(m)) = token)
             /\ mach' = i /\ pc' = "done" /\ UNCHANGED i
      BY <2>1, <2>3, <2>4, <2>5, <2>6, <2>8
  <2>9. CASE m.accessible /\ m.name # token /\ Strip(IdString(m)) # token
             /\ i' = i + 1 /\ UNCHANGED <<mach, pc>>
    <3>1. ~Answers(i)
        BY <2>5, <2>9
    <3>2. \A k \in 1..i : registry'[k].accessible /\ ~Answers(k)'
        BY <3>1, <2>1, <2>3, <2>4, <2>6, <2>9
    <3>3. QED
        BY <3>2, <2>1, <2>3, <2>9
  <2>10. QED
      BY <1>3, <2>7, <2>8, <2>9 DEF Visit
<1>4. CASE LoopEnd
  <2>1. \A k \in DOMAIN registry : ~Answers(k)
      BY <1>4 DEF LoopEnd
  <2>2. QED
      BY <1>4, <2>1 DEF LoopEnd, Answers, IdString, Unbraced
<1>5. CASE NextCommand
    BY <1>5 DEF NextCommand
<1>6. CASE UNCHANGED vars
    BY <1>6 DEF vars, Answers, IdString, Unbraced
<1>7. QED
    BY <1>1, <1>2, <1>3, <1>4, <1>5, <1>6 DEF Next

\* machById answers with the first machine that answers to the token by
\* name or by brace-stripped id, and None only when none does, for every
\* registry and binding (spec 4.2).
THEOREM FirstMatchResolved == Spec => []ResolvesFirstMatch
<1>1. Spec => []IInv
    BY InitIInv, NextIInv, PTL DEF Spec
<1>2. QED
    BY <1>1, PTL DEF IInv

\* On the binding that prints ids without braces, an id that `list`
\* printed, typed back as the machine argument, never makes machById
\* return None: the listed-id gap (ListedIdResolves fails) is confined to
\* the braced binding.  The id is the uuid itself, which no brace begins,
\* so Unbraced leaves it as it is and its machine answers to it.
THEOREM UnbracedIdsResolve == Spec => []ListedIdResolvesUnbraced
<1>1. IInv => ListedIdResolvesUnbraced
  <2> SUFFICES ASSUME IInv, ~braced, pc = "done",
                      NEW k \in DOMAIN registry,
                      token = IdString(registry[k])
               PROVE  mach # 0
    BY DEF ListedIdResolvesUnbraced, ListedIdResolves
  <2>1. registry[k] \in Machine
    BY DEF IInv
  <2>2. token = registry[k].uuid
    BY <2>1 DEF IdString
  <2>3. token \in Seq(Chars) /\ Len(token) > 0 /\ token[1] # LBrace
    BY <2>1, <2>2, ResolverAssumption DEF Machine
  <2>4. Unbraced(token) = token /\ token # <<>>
    BY <2>3 DEF Unbraced
  <2>5. Answers(k)
    BY <2>4 DEF Answers
  <2>6. QED
    BY <2>4, <2>5 DEF IInv, ResolvesFirstMatch
<1>2. QED
    BY <1>1, InitIInv, NextIInv, PTL DEF Spec

-----------------------------------------------------------------------------
(* Refinement of MachineLookup.                                            *)

\* The printed identifiers, as MachineLookup's constant Ids.
PrintedIds == Uuids \cup {<<LBrace>> \o u \o <<RBrace>> : u \in Uuids}

\* What the lookup reads of machine k is that machine's name, printed id
\* and accessibility; it answers in MachineLookup's sense exactly when it
\* answers in this module's.
LEMMA EntryFacts ==
    ASSUME registry \in Seq(Machine), braced \in BOOLEAN,
           NEW k \in DOMAIN registry, NEW t
    PROVE  /\ Entries[k].name = registry[k].name
           /\ Entries[k].id = IdString(registry[k])
           /\ Entries[k].accessible = registry[k].accessible
           /\ Contract!AnswersTo(k, t)
                <=> (registry[k].name = t \/ Unbraced(IdString(registry[k])) = t)
BY DEF Entries, Contract!AnswersTo, Contract!Unbraced, Unbraced

\* A step that keeps the registry and the binding keeps what is read.
LEMMA EntriesUnchanged ==
    ASSUME UNCHANGED <<registry, braced>> PROVE Entries' = Entries
BY DEF Entries, IdString

\* Every registry the service returns reads as a registry of entries.
LEMMA EntriesTyped ==
    ASSUME registry \in Seq(Machine), braced \in BOOLEAN
    PROVE  Entries \in Seq(Contract!Entry)
<1>1. ASSUME NEW m \in Machine PROVE IdString(m) \in PrintedIds
    BY DEF IdString, PrintedIds, Machine
<1>2. ASSUME NEW k \in DOMAIN registry PROVE Entries[k] \in Contract!Entry
  <2>1. registry[k] \in Machine
      OBVIOUS
  <2>2. IdString(registry[k]) \in PrintedIds
      BY <2>1, <1>1
  <2>3. registry[k].name \in Names /\ registry[k].accessible \in BOOLEAN
      BY <2>1 DEF Machine
  <2>4. QED
      BY <2>2, <2>3 DEF Entries, Contract!Entry, PrintedIds
<1>3. Entries \in [1..Len(registry) -> Contract!Entry]
    BY <1>2 DEF Entries
<1>4. QED
    BY <1>3

\* The registry read has the registry's positions.
LEMMA EntriesShape ==
    ASSUME registry \in Seq(Machine), braced \in BOOLEAN
    PROVE  DOMAIN Entries = DOMAIN registry /\ Len(Entries) = Len(registry)
<1>1. Entries \in Seq(Contract!Entry)
    BY EntriesTyped
<1>2. DOMAIN Entries = DOMAIN registry
    BY DEF Entries
<1>3. QED
    BY <1>1, <1>2

\* The scan in MachineLookup's sense gets past the first k - 1 machines
\* exactly when each was readable and did not answer to the token.
LEMMA ReachesFacts ==
    ASSUME registry \in Seq(Machine), braced \in BOOLEAN,
           NEW k \in 1..Len(registry) + 1
    PROVE  Contract!Reaches(k, token)
             <=> \A j \in 1..k - 1 : registry[j].accessible /\ ~Answers(j)
<1>1. \A j \in 1..k - 1 : j \in DOMAIN registry
    OBVIOUS
<1>2. QED
    BY <1>1, EntryFacts DEF Contract!Reaches, Answers

\* Every step of the loop is a step of the one-step lookup or leaves its
\* variables alone.
LEMMA StepRefines ==
    IInv /\ [Next]_vars => [Contract!Next]_Contract!lvars
<1> SUFFICES ASSUME IInv, [Next]_vars
             PROVE  [Contract!Next]_Contract!lvars
    OBVIOUS
<1>0. registry \in Seq(Machine) /\ braced \in BOOLEAN
    BY DEF IInv
<1>1. CASE NoArgument
  <2>1. Entries' = Entries
      BY <1>1, EntriesUnchanged DEF NoArgument
  <2>2. Contract!NoArgument
      BY <1>1, <2>1 DEF NoArgument, Contract!NoArgument, IInv, IdleOK
  <2>3. QED BY <2>2 DEF Contract!Next
<1>2. CASE \E tok \in Tokens : Lookup(tok)
  <2>1. Entries' = Entries
      BY <1>2, EntriesUnchanged DEF Lookup
  <2>2. QED
      BY <1>2, <2>1 DEF Lookup, Contract!lvars, IInv, IdleOK
<1>3. CASE Visit
  <2> DEFINE m == registry[i]
  <2>1. /\ pc = "loop" /\ i \in DOMAIN registry /\ m \in Machine
        /\ mach = 0 /\ token \in Tokens
        /\ \A k \in 1..i - 1 : registry[k].accessible /\ ~Answers(k)
      BY <1>3, <1>0 DEF Visit, IInv, LoopOK
  <2>2. UNCHANGED <<registry, braced, token>> /\ Entries' = Entries
      BY <1>3, EntriesUnchanged DEF Visit
  <2>3. Contract!Reaches(i, token)
      BY <2>1, <1>0, ReachesFacts
  <2>4. Strip(IdString(m)) = Unbraced(IdString(m))
      BY <2>1, <1>0, StripUnbraced
  <2>5. CASE ~m.accessible /\ pc' = "raised" /\ UNCHANGED <<i, mach>>
    <3>1. Contract!Resolve(token)
        BY <2>1, <2>2, <2>3, <2>5, <1>0, EntryFacts, EntriesShape
        DEF Contract!Resolve
    <3>2. QED BY <3>1, <2>1 DEF Contract!Next
  <2>6. CASE m.accessible /\ (m.name = token \/ Strip(IdString(m)) = token)
             /\ mach' = i /\ pc' = "done" /\ UNCHANGED i
    <3>1. Contract!AnswersTo(i, token)
        BY <2>1, <2>4, <2>6, <1>0, EntryFacts
    <3>2. Contract!Resolve(token)
        BY <2>1, <2>2, <2>3, <2>6, <3>1, <1>0, EntryFacts, EntriesShape
        DEF Contract!Resolve
    <3>3. QED BY <3>2, <2>1 DEF Contract!Next
  <2>7. CASE m.accessible /\ m.name # token /\ Strip(IdString(m)) # token
             /\ i' = i + 1 /\ UNCHANGED <<mach, pc>>
      BY <2>1, <2>2, <2>7 DEF Contract!lvars
  <2>8. QED
      BY <1>3, <2>5, <2>6, <2>7 DEF Visit
<1>4. CASE LoopEnd
  <2>1. /\ pc = "loop" /\ i = Len(registry) + 1 /\ mach = 0
        /\ token \in Tokens
        /\ \A k \in 1..i - 1 : registry[k].accessible /\ ~Answers(k)
      BY <1>4 DEF LoopEnd, IInv, LoopOK
  <2>2. Entries' = Entries
      BY <1>4, EntriesUnchanged DEF LoopEnd
  <2>3. Contract!Reaches(Len(registry) + 1, token)
      BY <2>1, <1>0, ReachesFacts
  <2>4. Contract!Resolve(token)
      BY <1>4, <2>1, <2>2, <2>3, <1>0, EntriesShape
      DEF LoopEnd, Contract!Resolve
  <2>5. QED BY <2>4, <2>1 DEF Contract!Next
<1>5. CASE NextCommand
  <2>1. Entries' = Entries
      BY <1>5, EntriesUnchanged DEF NextCommand
  <2>2. Contract!Finish
      BY <1>5, <2>1 DEF NextCommand, Contract!Finish
  <2>3. QED BY <2>2 DEF Contract!Next
<1>6. CASE UNCHANGED vars
    BY <1>6, EntriesUnchanged DEF vars, Contract!lvars
<1>7. QED
    BY <1>1, <1>2, <1>3, <1>4, <1>5, <1>6 DEF Next

\* argsToMach/machById implement the one-step lookup of MachineLookup:
\* for every registry, binding and token, the loop with its break and its
\* exception returns the first machine answering by name or brace-stripped
\* id, None when none answers, and raises exactly when an unreadable
\* machine comes before any answer (spec 4.2).
THEOREM LookupRefinement == Spec => ImplementsMachineLookup
<1>1. Init => Contract!Init
  <2> SUFFICES ASSUME Init PROVE Contract!Init
      OBVIOUS
  <2>1. registry \in Seq(Machine) /\ braced \in BOOLEAN
      BY RegistrySeq DEF Init
  <2>2. QED
      BY <2>1, EntriesTyped DEF Init, Contract!Init
<1>2. QED
    BY <1>1, StepRefines, InitIInv, NextIInv, PTL
    DEF Spec, ImplementsMachineLookup, Contract!Spec

=============================================================================
