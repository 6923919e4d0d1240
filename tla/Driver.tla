------------------------------- MODULE Driver -------------------------------
(***************************************************************************)
(* The driver of main.c: one process that turns each input into the        *)
(* commands its kind and the options call for, runs each command in a      *)
(* child (or compiles in its own process when there is a single input),    *)
(* waits, links, and removes its temporary files in an exit handler.       *)
(*                                                                         *)
(* A child is a copy of the driver: a compiler child that reports an error *)
(* calls exit, which runs the handler it inherited on the driver's list of *)
(* temporary files.  Temporary files are numbered in order of creation;    *)
(* file 0 stands for a file named by the user or by an option.             *)
(***************************************************************************)
EXTENDS Naturals, Sequences, FiniteSets, Functions

CONSTANTS MaxInputs  \* bound: input files of one invocation

ASSUME DriverConstants == MaxInputs \in Nat \ {0}

FileType == {"C", "ASM", "PP_ASM", "LDARG"}

\* At most one of -c, -S, -E and -M, or none: compile, assemble and link.
Mode == {"link", "c", "S", "E", "M"}

VARIABLES
  inputs,     \* the kinds of the inputs
  mode, has_o, has_wl, dry,   \* the options; dry is -###
  opt_E,      \* the variable opt_E of the driver process
  next,       \* index of the input that is handled next
  src_cnt,
  todo,       \* commands still to run for the current input
  ld_args,    \* files for the linker
  run_ld,
  tmpfiles,   \* how many temporary files the driver has recorded
  disk,       \* content of each temporary file that exists
  child,      \* the child process
  status,     \* how the driver ended
  made        \* ghost: the commands that succeeded, in order

vars == <<inputs, mode, has_o, has_wl, dry, opt_E, next, src_cnt, todo, ld_args,
          run_ld, tmpfiles, disk, child, status, made>>
options == <<inputs, mode, has_o, has_wl, dry>>

Command == [op : {"cc1", "as", "ld"}, pp : BOOLEAN, in : Nat, out : Nat]
Cc1(pp, out) == [op |-> "cc1", pp |-> pp, in |-> 0, out |-> out]
As_Swapped(in, out) == [op |-> "as", pp |-> FALSE, in |-> out, out |-> in]
As(in, out)  == [op |-> "as", pp |-> FALSE, in |-> in, out |-> out]
Ld           == [op |-> "ld", pp |-> FALSE, in |-> 0, out |-> 0]

\* state "none": no child; "run": it works; "good", "bad": it has ended.
NoChild == [cmd |-> Ld, state |-> "none"]

no_fork == Len(inputs) = 1

Init ==
  /\ inputs \in UNION {[1 .. n -> FileType] : n \in 1 .. MaxInputs}
  /\ mode \in Mode /\ has_o \in BOOLEAN /\ has_wl \in BOOLEAN /\ dry \in BOOLEAN
  /\ opt_E = (mode = "E")
  /\ next = 1 /\ src_cnt = 0 /\ todo = <<>> /\ ld_args = <<>>
  /\ run_ld = (has_wl /\ mode \in {"link", "M"})
  /\ tmpfiles = 0 /\ disk = <<>>
  /\ child = NoChild /\ status = "running" /\ made = <<>>

-----------------------------------------------------------------------------
(* Leaving *)

\* cleanup: unlink every file on the list.
Unlinked == [f \in DOMAIN disk \ (1 .. tmpfiles) |-> disk[f]]

\* exit and the return from main run the handler.
Exit_SkipsHandler(how) == status' = how /\ disk' = disk
Exit(how) == status' = how /\ disk' = Unlinked

Running == status = "running"
Free == Running /\ child = NoChild

-----------------------------------------------------------------------------
(* The loop over the inputs *)

OnlyPreprocess == opt_E \/ mode = "M"
NothingToAssemble == OnlyPreprocess \/ mode = "S"

\* What the branches of the loop run for an input when the next temporary
\* file has number t, and the file they leave for the linker.
Commands(type, t) ==
  LET Only(cmds, tmps) == [cmds |-> cmds, tmps |-> tmps, link |-> <<>>]
      AndLink(cmds, tmps, f) == [cmds |-> cmds, tmps |-> tmps, link |-> <<f>>]
      compile(out) == Cc1(type = "PP_ASM", out)
  IN
  CASE type = "LDARG" -> AndLink(<<>>, 0, 0)
    [] type = "ASM" /\ NothingToAssemble -> Only(<<>>, 0)
    [] type = "ASM" /\ ~NothingToAssemble /\ mode = "c"    -> Only(<<As(0, 0)>>, 0)
    [] type = "ASM" /\ ~NothingToAssemble /\ mode = "link" -> AndLink(<<As(0, t)>>, 1, t)
    [] type \in {"C", "PP_ASM"} /\ NothingToAssemble -> Only(<<compile(0)>>, 0)
    [] type \in {"C", "PP_ASM"} /\ ~NothingToAssemble /\ mode = "c" ->
         Only(<<compile(t), As(t, 0)>>, 1)
    [] type \in {"C", "PP_ASM"} /\ ~NothingToAssemble /\ mode = "link" ->
         AndLink(<<compile(t), As(t, t + 1)>>, 2, t + 1)

\* -o names one output, so it goes with one source file only.
CountsSource(type) == has_o /\ type # "LDARG" /\ mode \in {"c", "S", "E"}

TakeInput ==
  /\ Free /\ todo = <<>> /\ next <= Len(inputs)
  /\ ~(CountsSource(inputs[next]) /\ src_cnt > 0)
  /\ LET c == Commands(inputs[next], tmpfiles + 1) IN
       /\ todo' = c.cmds
       /\ tmpfiles' = tmpfiles + c.tmps
       /\ disk' = [f \in DOMAIN disk \cup (tmpfiles + 1 .. tmpfiles + c.tmps) |->
                     IF f \in DOMAIN disk THEN disk[f] ELSE "empty"]
       /\ ld_args' = ld_args \o c.link
       /\ run_ld' = (run_ld \/ c.link # <<>>)
  /\ src_cnt' = IF CountsSource(inputs[next]) THEN src_cnt + 1 ELSE src_cnt
  /\ next' = next + 1
  /\ UNCHANGED <<options, opt_E, child, status, made>>

\* "cannot specify '-o' with ... multiple files", or mkstemp fails.
RejectInput ==
  /\ Free /\ todo = <<>> /\ next <= Len(inputs)
  /\ \/ CountsSource(inputs[next]) /\ src_cnt > 0
     \/ Commands(inputs[next], tmpfiles + 1).tmps > 0
  /\ Exit("failed")
  /\ UNCHANGED <<options, opt_E, next, src_cnt, todo, ld_args, run_ld, tmpfiles,
                 child, made>>

\* -### prints the commands of subprocesses and runs nothing.
SkipCommand ==
  /\ Free /\ todo # <<>> /\ dry
  /\ todo' = Tail(todo)
  /\ UNCHANGED <<options, opt_E, next, src_cnt, ld_args, run_ld, tmpfiles, disk,
                 child, status, made>>

-----------------------------------------------------------------------------
(* Children *)

\* The file cmd.out after cmd has ended, with content c.
Wrote(cmd, c) == [f \in DOMAIN disk |-> IF f = cmd.out THEN c ELSE disk[f]]
Product(cmd) == IF cmd.op = "cc1" THEN "asm" ELSE "obj"

\* run_cc1 in the driver's own process, for a single input: cc1 itself sets
\* opt_E when it preprocesses assembly.
CompileHere ==
  /\ Free /\ todo # <<>> /\ ~dry /\ Head(todo).op = "cc1" /\ no_fork
  /\ opt_E' = (opt_E \/ Head(todo).pp)
  /\ todo' = Tail(todo)
  /\ disk' = Wrote(Head(todo), "asm")
  /\ made' = Append(made, Head(todo))
  /\ UNCHANGED <<options, next, src_cnt, ld_args, run_ld, tmpfiles, child, status>>

\* An error in the source: error_tok and error call exit.
CompileHereFails ==
  /\ Free /\ todo # <<>> /\ ~dry /\ Head(todo).op = "cc1" /\ no_fork
  /\ Exit("failed")
  /\ UNCHANGED <<options, opt_E, next, src_cnt, todo, ld_args, run_ld, tmpfiles,
                 child, made>>

Fork(cmd) == child' = [cmd |-> cmd, state |-> "run"]

StartCommand ==
  /\ Free /\ todo # <<>> /\ ~dry /\ ~(Head(todo).op = "cc1" /\ no_fork)
  /\ Fork(Head(todo))
  /\ todo' = Tail(todo)
  /\ UNCHANGED <<options, opt_E, next, src_cnt, ld_args, run_ld, tmpfiles, disk,
                 status, made>>

ChildEnds(how) == child' = [child EXCEPT !.state = how]

ChildSucceeds ==
  /\ child.state = "run"
  /\ ChildEnds("good")
  /\ disk' = Wrote(child.cmd, Product(child.cmd))
  /\ made' = Append(made, child.cmd)
  /\ UNCHANGED <<options, opt_E, next, src_cnt, todo, ld_args, run_ld, tmpfiles, status>>

\* A compiler child that finds an error exits through the handler; the output
\* may have been opened before.
ChildReportsError ==
  /\ child.state = "run"
  /\ ChildEnds("bad")
  /\ disk' = IF child.cmd.op = "cc1" THEN Unlinked ELSE Wrote(child.cmd, "partial")
  /\ UNCHANGED <<options, opt_E, next, src_cnt, todo, ld_args, run_ld, tmpfiles,
                 status, made>>

\* A child that is killed, or that fork could not make: no handler runs.
ChildDies ==
  /\ child.state = "run"
  /\ ChildEnds("bad")
  /\ disk' = Wrote(child.cmd, "partial")
  /\ UNCHANGED <<options, opt_E, next, src_cnt, todo, ld_args, run_ld, tmpfiles,
                 status, made>>

\* wait returns; the driver goes on only if the child exited with status 0.
Reap_IgnoresStatus ==
  /\ Running /\ child.state \in {"good", "bad"}
  /\ child' = NoChild
  /\ IF child.cmd.op = "ld" THEN Exit("ok") ELSE UNCHANGED <<status, disk>>
  /\ UNCHANGED <<options, opt_E, next, src_cnt, todo, ld_args, run_ld, tmpfiles, made>>
Reap_OnlySuccess ==
  /\ Running /\ child.state = "good"
  /\ child' = NoChild
  /\ IF child.cmd.op = "ld" THEN Exit("ok") ELSE UNCHANGED <<status, disk>>
  /\ UNCHANGED <<options, opt_E, next, src_cnt, todo, ld_args, run_ld, tmpfiles, made>>
Reap ==
  /\ Running /\ child.state \in {"good", "bad"}
  /\ child' = NoChild
  /\ CASE child.state = "bad"   -> Exit("failed")
       [] child.state = "good" /\ child.cmd.op = "ld" -> Exit("ok")
       [] child.state = "good" /\ child.cmd.op # "ld" -> UNCHANGED <<status, disk>>
  /\ UNCHANGED <<options, opt_E, next, src_cnt, todo, ld_args, run_ld, tmpfiles, made>>

-----------------------------------------------------------------------------
(* After the loop *)

AllTaken == Free /\ todo = <<>> /\ next > Len(inputs)
LinkWanted == run_ld /\ mode = "link" /\ ~opt_E

\* Nothing to link, or "linker input unused", or -###.
Finish ==
  /\ AllTaken /\ (~LinkWanted \/ dry)
  /\ Exit("ok")
  /\ UNCHANGED <<options, opt_E, next, src_cnt, todo, ld_args, run_ld, tmpfiles,
                 child, made>>

Link ==
  /\ AllTaken /\ LinkWanted /\ ~dry
  /\ Fork(Ld)
  /\ UNCHANGED <<options, opt_E, next, src_cnt, todo, ld_args, run_ld, tmpfiles,
                 disk, status, made>>

Step ==
  \/ TakeInput \/ RejectInput \/ SkipCommand
  \/ CompileHere \/ CompileHereFails \/ StartCommand
  \/ ChildSucceeds \/ ChildReportsError \/ ChildDies \/ Reap
  \/ Finish \/ Link

Next == Step

\* The kernel runs every process; compilers, assembler and linker end.
Spec == Init /\ [][Next]_vars /\ WF_vars(Step)

-----------------------------------------------------------------------------
(* Properties *)

\* However the driver ends, and whatever its children removed before, no
\* temporary file is left (cleanup).
TmpFilesGone == status # "running" => disk = <<>>

\* A child never reads a temporary file that is missing, truncated or of the
\* wrong kind: the assembler gets assembly, the linker objects, although a
\* failing child removes the files of all inputs.  And with -o and one of -c,
\* -S and -E, the named file is written once: a second source never overwrites
\* the result of the first.
InputsProduced ==
  /\ has_o /\ mode \in {"c", "S", "E"} =>
       Cardinality({n \in DOMAIN made : made[n].out = 0}) <= 1
  /\ child.state = "run" =>
       /\ child.cmd.op = "as" /\ child.cmd.in # 0 =>
            child.cmd.in \in DOMAIN disk /\ disk[child.cmd.in] = "asm"
       /\ child.cmd.op = "ld" =>
            \A f \in Range(ld_args) \ {0} : f \in DOMAIN disk /\ disk[f] = "obj"

\* Exit status 0 means that every file was made, and that what the compiler
\* made was assembled, whichever input of several failed.
SuccessMeansDone ==
  status = "ok" /\ ~dry =>
    \A t \in 1 .. tmpfiles : \E c \in Range(made) :
      /\ c.out = t
      /\ c.op = "cc1" => \E a \in Range(made) : a.op = "as" /\ a.in = t

\* The driver ends whatever its children do.
Ends == <>(status # "running")

=============================================================================
