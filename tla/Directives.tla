----------------------------- MODULE Directives -----------------------------
(* Conditional inclusion and #include in preprocess.c: directives,           *)
(* skip_cond_incl, include_file, and the two shortcuts that keep a file from *)
(* being read again, #pragma once and the include guard.                     *)
(*                                                                            *)
(* An included file is spliced in front of the lines that follow the         *)
(* #include, so the groups of the conditional stack and the ends of files    *)
(* are not tied to each other.  A line stands for its directive and the name *)
(* it is about; the conditions of #if and #elif are "defined NAME".          *)
EXTENDS Integers, Sequences, FiniteSets, SequencesExt

CONSTANTS Trees,       \* what the disk may hold: functions from paths to lines
          Main,        \* the path of the source file
          MaxIncludes  \* how many files a run reads, at most (a bound)

(* The source file and the files that #include lines name exist.             *)
ASSUME TreesAssumption ==
  \A t \in Trees :
    /\ Main \in DOMAIN t
    /\ \A f \in DOMAIN t :
         /\ Len(t[f]) \in Nat
         /\ \A i \in 1..Len(t[f]) : t[f][i].d = "include" => t[f][i].n \in DOMAIN t

VARIABLES
  tree,            \* the files
  input,           \* the lines still to process
  cond_incl,       \* the stack of open groups, without those skipped as a whole
  skipping,        \* in skip_cond_incl
  lvl,             \* the groups opened while skipping
  macros,          \* the names that are defined
  pragma_once,     \* the paths whose #pragma once was seen
  include_guards,  \* the macro that guards a path, for the paths that have one
  includes,        \* how many files were read
  compiled,        \* every line processed that is not about conditionals
  status           \* "run", "done" or "error"

vars == <<tree, input, cond_incl, skipping, lvl, macros, pragma_once,
          include_guards, includes, compiled, status>>
tables == <<macros, pragma_once, include_guards>>

Opening == {"if", "ifndef"}
Turning == {"elif", "else"}
Plain == {"text", "define", "undef", "once", "include"}

(* The lines of one reading of a file.  The first and the last are marked    *)
(* when together they look like an include guard.                            *)
Guarded(lines) == lines # <<>> /\ lines[1].d = "ifndef" /\ Last(lines).d = "endif"
tokenize(path, nth) ==
  LET lines == tree[path]
  IN  [i \in 1..Len(lines) |->
        [d |-> lines[i].d, n |-> lines[i].n, file |-> path, nth |-> nth, at |-> i,
         is_incl_guard |-> nth > 0 /\ Guarded(lines) /\ i \in {1, Len(lines)}]]

Init ==
  /\ tree \in Trees
  /\ input = tokenize(Main, 0)
  /\ cond_incl = <<>> /\ skipping = FALSE /\ lvl = 0
  /\ macros = {} /\ pragma_once = {} /\ include_guards = <<>>
  /\ includes = 0 /\ compiled = <<>> /\ status = "run"

----------------------------------------------------------------------------
line == Head(input)
Cond == Last(cond_incl)
Reading == status = "run" /\ input # <<>>
At(ds) == Reading /\ ~skipping /\ line.d \in ds
(* skip_cond_incl stops at the parts and the end of the group it is in.      *)
AtPart(ds) == Reading /\ line.d \in ds /\ (skipping => lvl = 0)

Holds == IF line.d = "ifndef" THEN line.n \notin macros ELSE line.n \in macros

Advance == input' = Tail(input) /\ UNCHANGED <<tree, includes, status>>
Error == status' = "error" /\ UNCHANGED <<tree, input, cond_incl, skipping, lvl, tables, includes, compiled>>

(* push_cond_incl, and skip_cond_incl when the condition is false.           *)
OpenGroup ==
  /\ At(Opening)
  /\ cond_incl' = Append(cond_incl, [tok |-> line, is_else |-> FALSE, been_active |-> Holds])
  /\ skipping' = ~Holds
  /\ Advance /\ UNCHANGED <<lvl, tables, compiled>>

NotAGuard_Still(cond) == cond  \* mutant: a group with #else can be a guard

(* #elif and #else end the include guard the group may have been.            *)
NotAGuard(cond) == [cond EXCEPT !.tok.is_incl_guard = FALSE]

(* Mutant: that the part was taken is not remembered.                        *)
ElseIf_Forgets ==
  /\ AtPart({"elif"}) /\ cond_incl # <<>> /\ ~Cond.is_else
  /\ cond_incl' = Append(Front(cond_incl), NotAGuard(Cond))
  /\ skipping' = (Cond.been_active \/ ~Holds)
  /\ Advance /\ UNCHANGED <<lvl, tables, compiled>>

ElseIf ==
  /\ AtPart({"elif"}) /\ cond_incl # <<>> /\ ~Cond.is_else
  /\ LET taken == ~Cond.been_active /\ Holds
     IN  /\ cond_incl' = Append(Front(cond_incl), [NotAGuard(Cond) EXCEPT !.been_active = @ \/ taken])
         /\ skipping' = ~taken
  /\ Advance /\ UNCHANGED <<lvl, tables, compiled>>

Else ==
  /\ AtPart({"else"}) /\ cond_incl # <<>> /\ ~Cond.is_else
  /\ cond_incl' = Append(Front(cond_incl), [NotAGuard(Cond) EXCEPT !.is_else = TRUE])
  /\ skipping' = Cond.been_active
  /\ Advance /\ UNCHANGED <<lvl, tables, compiled>>

(* The macro tested by the first line of a file guards the file when the     *)
(* group it opened ends with the file's last line.                           *)
IsGuard(endif) ==
  /\ endif.is_incl_guard /\ Cond.tok.is_incl_guard
  /\ endif.file = Cond.tok.file /\ endif.nth = Cond.tok.nth

Endif ==
  /\ AtPart({"endif"}) /\ cond_incl # <<>>
  /\ include_guards' = IF IsGuard(line)
                       THEN [f \in DOMAIN include_guards \cup {line.file} |->
                              IF f = line.file THEN Cond.tok.n ELSE include_guards[f]]
                       ELSE include_guards
  /\ cond_incl' = Front(cond_incl) /\ skipping' = FALSE
  /\ Advance /\ UNCHANGED <<lvl, macros, pragma_once, compiled>>

Stray ==
  /\ AtPart(Turning \cup {"endif"})
  /\ cond_incl # <<>> => line.d \in Turning /\ Cond.is_else
  /\ Error

(* skip_cond_incl, line by line.                                             *)
SkipOpen ==
  /\ Reading /\ skipping /\ line.d \in Opening
  /\ lvl' = lvl + 1 /\ Advance /\ UNCHANGED <<cond_incl, skipping, tables, compiled>>

SkipEnd ==
  /\ Reading /\ skipping /\ lvl > 0 /\ line.d = "endif"
  /\ lvl' = lvl - 1 /\ Advance /\ UNCHANGED <<cond_incl, skipping, tables, compiled>>

SkipLine ==
  /\ Reading /\ skipping /\ line.d \in Plain \cup (IF lvl > 0 THEN Turning ELSE {})
  /\ Advance /\ UNCHANGED <<cond_incl, skipping, lvl, tables, compiled>>

----------------------------------------------------------------------------
Process == compiled' = Append(compiled, line) /\ UNCHANGED <<cond_incl, skipping, lvl>>

Text == At({"text"}) /\ Process /\ Advance /\ UNCHANGED tables

Define ==
  /\ At({"define"}) /\ Process /\ Advance
  /\ macros' = macros \cup {line.n} /\ UNCHANGED <<pragma_once, include_guards>>

Undef ==
  /\ At({"undef"}) /\ Process /\ Advance
  /\ macros' = macros \ {line.n} /\ UNCHANGED <<pragma_once, include_guards>>

PragmaOnce ==
  /\ At({"once"}) /\ Process /\ Advance
  /\ pragma_once' = pragma_once \cup {line.file} /\ UNCHANGED <<macros, include_guards>>

(* Mutant: #pragma once is not looked up.                                    *)
Known_ByGuard(path) ==
  path \in DOMAIN include_guards /\ include_guards[path] \in macros

(* The file of an #include is not read when it need not be.                  *)
Known(path) ==
  \/ path \in pragma_once
  \/ path \in DOMAIN include_guards /\ include_guards[path] \in macros

IncludeKnown == At({"include"}) /\ Known(line.n) /\ Process /\ Advance /\ UNCHANGED tables

IncludeFile ==
  /\ At({"include"}) /\ ~Known(line.n) /\ includes < MaxIncludes
  /\ input' = tokenize(line.n, includes + 1) \o Tail(input)
  /\ includes' = includes + 1
  /\ Process /\ UNCHANGED <<tree, tables, status>>

Finish ==
  /\ status = "run" /\ input = <<>>
  /\ status' = IF cond_incl = <<>> THEN "done" ELSE "error"
  /\ UNCHANGED <<tree, input, cond_incl, skipping, lvl, tables, includes, compiled>>

Conditional == OpenGroup \/ ElseIf \/ Else \/ Endif \/ Stray
Skip == SkipOpen \/ SkipEnd \/ SkipLine
Other == Text \/ Define \/ Undef \/ PragmaOnce \/ IncludeKnown \/ IncludeFile
Next == Conditional \/ Skip \/ Other \/ Finish

Spec == Init /\ [][Next]_vars

----------------------------------------------------------------------------
(* The groups of C, among them those skipped as a whole: only the last group *)
(* of cond_incl can be in a part that is skipped.                            *)
TurnOf(i) ==
  IF ~(skipping /\ i = Len(cond_incl)) THEN "now"
  ELSE IF cond_incl[i].been_active THEN "past" ELSE "later"

groups ==
  [i \in 1..(Len(cond_incl) + lvl) |->
     IF i <= Len(cond_incl)
     THEN [turn |-> TurnOf(i), is_else |-> cond_incl[i].is_else]
     ELSE [turn |-> "past", is_else |-> FALSE]]

C == INSTANCE Conditionals

(* skip_cond_incl with its counter, and the flags of cond_incl, compile the   *)
(* lines that conditional inclusion of C compiles, across the ends of files. *)
IsConditional == C!Spec

(* What reading a file again would compile: the groups after its first i     *)
(* lines when the macros stay as they are, and the lines that are reached.   *)
Step(gs, l) ==
  IF l.d \in Opening THEN C!Open(gs, (l.d = "if") = (l.n \in macros))
  ELSE IF l.d \in Turning THEN C!Turn(gs, l.d = "else" \/ l.n \in macros, l.d = "else")
  ELSE IF l.d = "endif" THEN Front(gs)
  ELSE gs

CompilesNothing(lines) ==
  LET After[i \in 0..Len(lines)] == IF i = 0 THEN <<>> ELSE Step(After[i - 1], lines[i])
  IN  /\ \A i \in 1..Len(lines) :
           IF lines[i].d \in Plain THEN ~C!Active(After[i - 1])
           ELSE lines[i].d \in Opening \/ After[i - 1] # <<>>
      /\ After[Len(lines)] = <<>>

(* The groups of every file are whole: there is a number of open groups for  *)
(* each place of it that is zero at both ends.                               *)
Change(d) == IF d \in Opening THEN 1 ELSE IF d = "endif" THEN -1 ELSE 0
Nesting(lines) ==
  {depth \in [0..Len(lines) -> 0..Len(lines)] :
     /\ depth[0] = 0 /\ depth[Len(lines)] = 0
     /\ \A i \in 1..Len(lines) : depth[i] = depth[i - 1] + Change(lines[i].d)}
FilesAreWhole == \A f \in DOMAIN tree : Nesting(tree[f]) # {}

(* A file that is not read because of its guard would have compiled nothing: *)
(* remembering the guard changes no result.  That is for files that are      *)
(* whole, as they are in C: one that closes a group of the file that includes *)
(* it can have that one taken for guarded when it is not.                    *)
GuardedFilesAreEmpty ==
  \A f \in DOMAIN include_guards :
    include_guards[f] \in macros => CompilesNothing(tree[f])

(* The lines after #pragma once at the head of a file are compiled at most   *)
(* once, however often and from wherever the file is included.               *)
OnceIsOnce ==
  \A i, j \in 1..Len(compiled) :
    i < j /\ compiled[i].file = compiled[j].file /\ compiled[i].at = compiled[j].at
      => tree[compiled[i].file][1].d # "once"
=============================================================================
