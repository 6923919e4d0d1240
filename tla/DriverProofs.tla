---------------------------- MODULE DriverProofs ----------------------------
(***************************************************************************)
(* Proofs about Driver, for any number of inputs.                          *)
(*                                                                         *)
(* Whether every file was made is known at the end only because of what    *)
(* holds while a command may still fail: each temporary file is either     *)
(* done, or named by a command that has not ended (Accounted); the file    *)
(* that command reads was compiled and has not been removed (Staged); and  *)
(* no command writes over a file that another input has handed to the      *)
(* linker (Objects).  None of this survives a child that fails, and none   *)
(* of it is needed then: the driver takes no other step than to leave.     *)
(***************************************************************************)
EXTENDS Driver, SequenceTheorems, FiniteSetTheorems, TLAPS

Types ==
  /\ inputs \in Seq(FileType) /\ mode \in Mode
  /\ has_o \in BOOLEAN /\ dry \in BOOLEAN /\ opt_E \in BOOLEAN
  /\ next \in Nat \ {0} /\ src_cnt \in Nat /\ tmpfiles \in Nat
  /\ todo \in Seq(Command) /\ made \in Seq(Command) /\ ld_args \in Seq(Nat)
  /\ child \in [cmd : Command, state : {"none", "run", "good", "bad"}]
  /\ status \in {"running", "ok", "failed"}
  /\ disk = [f \in DOMAIN disk |-> disk[f]] /\ DOMAIN disk \subseteq 1 .. tmpfiles
  /\ mode = "E" => opt_E

\* When the driver has left, its files are gone and it has no child.
Left == status # "running" => disk = <<>> /\ child.state = "none"

\* Nothing runs under -###; the linker runs last, and only to link.
Ordered ==
  /\ child.state = "none" => child = NoChild
  /\ child.state # "none" => ~dry
  /\ child.state # "none" /\ child.cmd.op = "ld" => todo = <<>> /\ mode = "link"
  /\ \A n \in DOMAIN todo : todo[n].op # "ld"

\* No command has failed yet.
Alive == status = "running" /\ child.state # "bad" /\ ~dry

\* The commands that have not ended.
Rest == Range(todo) \cup {c \in {child.cmd} : child.state = "run"}

\* File t was written by the compiler and holds what it wrote.
Compiled(t) ==
  /\ t \in 1 .. tmpfiles /\ disk[t] = "asm"
  /\ \E c \in Range(made) : c.out = t

\* A command that may start.
Ready(c) ==
  /\ c.op = "cc1" => c.in = 0 /\ c.out = 0
  /\ c.op = "as"  => c.in = 0 \/ Compiled(c.in)
  /\ c.op = "ld"  => c.in = 0 /\ c.out = 0
  /\ c.out # 0 => c.out # c.in

\* The compiler and the assembler that is to read its output.
Pair(c, a) ==
  /\ c.op = "cc1" /\ a.op = "as" /\ c.in = 0 /\ a.in = c.out
  /\ c.out \in 1 .. tmpfiles /\ c.out # a.out /\ c.out \notin Range(ld_args)

Staged ==
  /\ Len(todo) <= 2
  /\ Len(todo) = 2 => child.state # "run" /\ Pair(todo[1], todo[2])
  /\ Len(todo) = 1 => IF child.state = "run" THEN Pair(child.cmd, todo[1]) ELSE Ready(todo[1])
  /\ Len(todo) = 0 /\ child.state = "run" => Ready(child.cmd)

\* File t was made, and assembled if the compiler made it.
Done(t) ==
  \E c \in Range(made) :
    /\ c.out = t
    /\ c.op = "cc1" => \E a \in Range(made) : a.op = "as" /\ a.in = t

Accounted ==
  /\ DOMAIN disk = 1 .. tmpfiles
  /\ \A t \in 1 .. tmpfiles : Done(t) \/ \E c \in Rest : t \in {c.in, c.out}

Objects ==
  \A f \in Range(ld_args) \ {0} :
    /\ f \in 1 .. tmpfiles
    /\ disk[f] = "obj" \/ \E c \in Rest : c.op = "as" /\ c.out = f

\* With -o for one output: the command that writes it is still to come, or
\* runs, or was the only one.
OneOutput == has_o /\ mode \in {"c", "S", "E"}
Zero(n) == n \in DOMAIN made /\ made[n].out = 0
Once ==
  OneOutput =>
    /\ src_cnt <= 1
    /\ src_cnt = 0 => Rest = {} /\ \A n \in DOMAIN made : ~Zero(n)
    /\ \A n, k \in DOMAIN made : Zero(n) /\ Zero(k) => n = k
    /\ \A c \in Rest : c.out = 0 => \A n \in DOMAIN made : ~Zero(n)
    /\ \A n, k \in DOMAIN todo : todo[n].out = 0 /\ todo[k].out = 0 => n = k
    /\ child.state = "run" /\ child.cmd.out = 0 => \A n \in DOMAIN todo : todo[n].out # 0

Finished == status = "ok" /\ ~dry => \A t \in 1 .. tmpfiles : Done(t)

IInv ==
  /\ Types /\ Left /\ Ordered /\ Once /\ Finished
  /\ Alive => Staged /\ Accounted /\ Objects

-----------------------------------------------------------------------------
(* Lemmas *)

\* What the handler leaves when every file is on the list: nothing.
LEMMA NothingLeft ==
  ASSUME DOMAIN disk \subseteq 1 .. tmpfiles
  PROVE  Unlinked = <<>>
<1>1. DOMAIN disk \ (1 .. tmpfiles) = {}
  OBVIOUS
<1>2. Unlinked = [f \in {} |-> disk[f]]
  BY <1>1 DEF Unlinked
<1> DEFINE e == [f \in {} |-> disk[f]]
<1>3. e \in Seq({}) /\ Len(e) = 0
  <2>1. 1 .. 0 = {}
    OBVIOUS
  <2>2. e \in [1 .. 0 -> {}]
    BY <2>1
  <2> QED BY <2>2
<1>4. e = <<>>
  BY <1>3, EmptySeq
<1> QED BY <1>2, <1>4

\* What the commands of an input look like.
LEMMA CommandsShape ==
  ASSUME Types, NEW type \in FileType, NEW t \in Nat \ {0}
  PROVE  LET c == Commands(type, t)  s == c.cmds IN
         /\ s \in Seq(Command) /\ c.tmps \in Nat /\ c.link \in Seq(Nat)
         /\ \/ s = <<>> /\ c.tmps = 0 /\ c.link \in {<<>>, <<0>>}
            \/ /\ type # "LDARG" /\ \E o \in {Cc1(FALSE, 0), Cc1(TRUE, 0), As(0, 0)} : s = <<o>>
               /\ c.tmps = 0 /\ c.link = <<>>
            \/ /\ mode = "link" /\ s = <<As(0, t)>> /\ c.tmps = 1 /\ c.link = <<t>>
            \/ /\ type # "LDARG" /\ \E pp \in BOOLEAN : s = <<Cc1(pp, t), As(t, 0)>>
               /\ c.tmps = 1 /\ c.link = <<>>
            \/ /\ mode = "link" /\ \E pp \in BOOLEAN : s = <<Cc1(pp, t), As(t, t + 1)>>
               /\ c.tmps = 2 /\ c.link = <<t + 1>>
<1> DEFINE r == Commands(type, t)
           Only(cmds, tmps) == [cmds |-> cmds, tmps |-> tmps, link |-> <<>>]
           AndLink(cmds, tmps, f) == [cmds |-> cmds, tmps |-> tmps, link |-> <<f>>]
<1> HIDE DEF r
<1>0. /\ \A pp \in BOOLEAN, o \in Nat : Cc1(pp, o) \in Command
      /\ \A i, o \in Nat : As(i, o) \in Command
  BY DEF Cc1, As, Command
<1>1. CASE type = "LDARG"
  <2>1. r = AndLink(<<>>, 0, 0)
    BY <1>1 DEF r, Commands
  <2> QED BY <2>1 DEF r
<1>2. CASE type = "ASM" /\ NothingToAssemble
  <2>1. r = Only(<<>>, 0)
    BY <1>2 DEF r, Commands
  <2> QED BY <2>1 DEF r
<1>3. CASE type = "ASM" /\ ~NothingToAssemble
  <2>1. mode \in {"c", "link"}
    BY <1>3 DEF Types, Mode, NothingToAssemble, OnlyPreprocess
  <2>2. CASE mode = "c"
    <3>1. r = Only(<<As(0, 0)>>, 0)
      BY <1>3, <2>2 DEF r, Commands
    <3>2. As(0, 0) \in Command
      BY <1>0
    <3>3. <<As(0, 0)>> \in Seq(Command) /\ <<>> \in Seq(Nat)
      BY <3>2
    <3>4. r.cmds = <<As(0, 0)>> /\ r.tmps = 0 /\ r.link = <<>>
      BY <3>1
    <3>5. type # "LDARG" /\ \E o \in {Cc1(FALSE, 0), Cc1(TRUE, 0), As(0, 0)} : r.cmds = <<o>>
      BY <1>3, <3>4
    <3>6. r.cmds \in Seq(Command) /\ r.tmps \in Nat /\ r.link \in Seq(Nat)
      BY <3>3, <3>4
    <3> HIDE DEF Only, AndLink
    <3> QED BY <3>4, <3>5, <3>6 DEF r
  <2>3. CASE mode = "link"
    <3>1. r = AndLink(<<As(0, t)>>, 1, t)
      BY <1>3, <2>3 DEF r, Commands
    <3>2. As(0, t) \in Command /\ t \in Nat
      BY <1>0
    <3>3. <<As(0, t)>> \in Seq(Command) /\ <<t>> \in Seq(Nat)
      BY <3>2
    <3>4. r.cmds = <<As(0, t)>> /\ r.tmps = 1 /\ r.link = <<t>>
      BY <3>1
    <3> QED BY <2>3, <3>4, <3>3 DEF r
  <2> QED BY <2>1, <2>2, <2>3
<1>4. CASE type \in {"C", "PP_ASM"} /\ NothingToAssemble
  <2> DEFINE pp == type = "PP_ASM"
  <2>1. r = Only(<<Cc1(pp, 0)>>, 0)
    BY <1>4 DEF r, Commands
  <2>0. pp = TRUE \/ pp = FALSE
    OBVIOUS
  <2> HIDE DEF pp
  <2>2. Cc1(pp, 0) \in Command
    BY <1>0, <2>0
  <2>3. <<Cc1(pp, 0)>> \in Seq(Command) /\ <<>> \in Seq(Nat)
    BY <2>2
  <2>4. r.cmds = <<Cc1(pp, 0)>> /\ r.tmps = 0 /\ r.link = <<>>
    BY <2>1
  <2>5. Cc1(pp, 0) \in {Cc1(FALSE, 0), Cc1(TRUE, 0), As(0, 0)} /\ type # "LDARG"
    BY <1>4, <2>0
  <2>6. \E o \in {Cc1(FALSE, 0), Cc1(TRUE, 0), As(0, 0)} : r.cmds = <<o>>
    BY <2>4, <2>5
  <2>7. r.cmds \in Seq(Command) /\ r.tmps \in Nat /\ r.link \in Seq(Nat)
    BY <2>3, <2>4
  <2> QED BY <2>4, <2>5, <2>6, <2>7 DEF r
<1>5. CASE type \in {"C", "PP_ASM"} /\ ~NothingToAssemble
  <2> DEFINE pp == type = "PP_ASM"
  <2>1. mode \in {"c", "link"}
    BY <1>5 DEF Types, Mode, NothingToAssemble, OnlyPreprocess
  <2>2. mode = "c" => r = Only(<<Cc1(pp, t), As(t, 0)>>, 1)
    BY <1>5 DEF r, Commands
  <2>3. mode = "link" => r = AndLink(<<Cc1(pp, t), As(t, t + 1)>>, 2, t + 1)
    BY <1>5 DEF r, Commands
  <2>4. pp \in BOOLEAN
    OBVIOUS
  <2> HIDE DEF pp
  <2>5. CASE mode = "c"
    <3>1. r = Only(<<Cc1(pp, t), As(t, 0)>>, 1)
      BY <2>2, <2>5
    <3>2. Cc1(pp, t) \in Command /\ As(t, 0) \in Command
      BY <1>0, <2>4
    <3>3. <<Cc1(pp, t), As(t, 0)>> \in Seq(Command) /\ <<>> \in Seq(Nat)
      BY <3>2
    <3>4. r.cmds = <<Cc1(pp, t), As(t, 0)>> /\ r.tmps = 1 /\ r.link = <<>>
      BY <3>1
    <3> QED BY <1>5, <2>4, <3>4, <3>3 DEF r
  <2>6. CASE mode = "link"
    <3>1. r = AndLink(<<Cc1(pp, t), As(t, t + 1)>>, 2, t + 1)
      BY <2>3, <2>6
    <3>2. Cc1(pp, t) \in Command /\ t + 1 \in Nat /\ As(t, t + 1) \in Command
      BY <1>0, <2>4
    <3>3. <<Cc1(pp, t), As(t, t + 1)>> \in Seq(Command) /\ <<t + 1>> \in Seq(Nat)
      BY <3>2
    <3>4. r.cmds = <<Cc1(pp, t), As(t, t + 1)>> /\ r.tmps = 2 /\ r.link = <<t + 1>>
      BY <3>1
    <3> QED BY <2>6, <2>4, <3>4, <3>3 DEF r
  <2> QED BY <2>1, <2>5, <2>6
<1> QED BY <1>1, <1>2, <1>3, <1>4, <1>5 DEF FileType

\* Leaving removes the files, whatever the commands did before.
LEMMA Leaves ==
  ASSUME IInv, NEW how \in {"ok", "failed"}, Exit(how), child' = NoChild,
         UNCHANGED <<options, opt_E, next, src_cnt, todo, ld_args, run_ld, tmpfiles, made>>,
         how = "ok" /\ ~dry => \A t \in 1 .. tmpfiles : Done(t)
  PROVE  IInv'
<1> USE DEF IInv, options, Exit
<1>1. disk' = <<>>
  BY NothingLeft DEF Types
<1>2. Types'
  <2>1. DOMAIN disk' = {} /\ disk' = [f \in DOMAIN disk' |-> disk'[f]]
    BY <1>1
  <2>2. NoChild \in [cmd : Command, state : {"none", "run", "good", "bad"}]
    BY DEF NoChild, Ld, Command
  <2> QED BY <2>1, <2>2 DEF Types
<1>3. Left' /\ ~Alive'
  BY <1>1 DEF Left, Alive, NoChild
<1>4. Ordered'
  BY DEF Ordered, NoChild
<1>5. Once'
  BY DEF Once, OneOutput, Rest, NoChild, Zero
<1>6. Finished'
  BY DEF Finished, Done
<1> QED BY <1>2, <1>3, <1>4, <1>5, <1>6

\* A file that has been made stays made.
LEMMA DoneStays ==
  ASSUME Types, NEW c \in Command, made' = Append(made, c)
  PROVE  /\ made' \in Seq(Command) /\ Range(made') = Range(made) \cup {c}
         /\ Len(made') = Len(made) + 1 /\ DOMAIN made' = 1 .. Len(made) + 1
         /\ DOMAIN made = 1 .. Len(made)
         /\ \A n \in 1 .. Len(made) : made'[n] = made[n]
         /\ made'[Len(made) + 1] = c
         /\ \A t : Done(t) => Done(t)'
<1>1. /\ made' \in Seq(Command) /\ Len(made') = Len(made) + 1 /\ DOMAIN made' = 1 .. Len(made) + 1
      /\ DOMAIN made = 1 .. Len(made)
      /\ \A n \in 1 .. Len(made) : made'[n] = made[n]
      /\ made'[Len(made) + 1] = c
  BY AppendProperties DEF Types
<1>2. Range(made') = Range(made) \cup {c}
  BY <1>1 DEF Range
<1> QED BY <1>1, <1>2 DEF Done

\* What is left of the queue when its head is taken.
LEMMA Dequeue ==
  ASSUME Types, todo # <<>>
  PROVE  /\ Head(todo) = todo[1] /\ Head(todo) \in Command /\ Tail(todo) \in Seq(Command)
         /\ Len(todo) \in Nat \ {0} /\ Len(Tail(todo)) = Len(todo) - 1
         /\ DOMAIN todo = 1 .. Len(todo) /\ DOMAIN Tail(todo) = 1 .. Len(todo) - 1
         /\ \A n \in 1 .. Len(todo) - 1 : Tail(todo)[n] = todo[n + 1]
         /\ Range(todo) = {Head(todo)} \cup Range(Tail(todo))
<1>1. /\ Head(todo) = todo[1] /\ Head(todo) \in Command /\ Tail(todo) \in Seq(Command)
      /\ Len(todo) \in Nat \ {0} /\ Len(Tail(todo)) = Len(todo) - 1
      /\ DOMAIN todo = 1 .. Len(todo) /\ DOMAIN Tail(todo) = 1 .. Len(todo) - 1
      /\ \A n \in 1 .. Len(todo) - 1 : Tail(todo)[n] = todo[n + 1]
  BY HeadTailProperties, EmptySeq DEF Types
<1>2. Range(todo) = {Head(todo)} \cup Range(Tail(todo))
  <2>1. ASSUME NEW x \in Range(todo) PROVE x = Head(todo) \/ x \in Range(Tail(todo))
    <3>1. PICK n \in 1 .. Len(todo) : x = todo[n]
      BY <1>1, <2>1 DEF Range
    <3>2. CASE n = 1
      BY <3>1, <3>2, <1>1
    <3>3. CASE n # 1
      <4>1. n - 1 \in 1 .. Len(todo) - 1 /\ Tail(todo)[n - 1] = todo[n]
        BY <3>3, <1>1
      <4> QED BY <4>1, <3>1, <1>1 DEF Range
    <3> QED BY <3>2, <3>3
  <2>2. Head(todo) \in Range(todo)
    BY <1>1 DEF Range
  <2>3. ASSUME NEW x \in Range(Tail(todo)) PROVE x \in Range(todo)
    <3>1. PICK n \in 1 .. Len(todo) - 1 : x = todo[n + 1]
      BY <1>1, <2>3 DEF Range
    <3> QED BY <3>1, <1>1 DEF Range
  <2> QED BY <2>1, <2>2, <2>3
<1> QED BY <1>1, <1>2

LEMMA RangeOfPair ==
  /\ Range(<<>>) = {}
  /\ \A a : Range(<<a>>) = {a}
  /\ \A a, b : Range(<<a, b>>) = {a, b}
<1>1. ASSUME NEW a, NEW b PROVE Range(<<a, b>>) = {a, b}
  <2>1. DOMAIN <<a, b>> = {1, 2} /\ <<a, b>>[1] = a /\ <<a, b>>[2] = b
    OBVIOUS
  <2> QED BY <2>1 DEF Range
<1>2. ASSUME NEW a PROVE Range(<<a>>) = {a}
  <2>1. DOMAIN <<a>> = {1} /\ <<a>>[1] = a
    OBVIOUS
  <2> QED BY <2>1 DEF Range
<1> QED BY <1>1, <1>2 DEF Range

LEMMA RangeOfConcat ==
  ASSUME NEW s \in Seq(Nat), NEW r \in Seq(Nat)
  PROVE  s \o r \in Seq(Nat) /\ Range(s \o r) = Range(s) \cup Range(r)
<1>1. /\ s \o r \in Seq(Nat) /\ Len(s \o r) = Len(s) + Len(r)
      /\ \A n \in 1 .. Len(s) + Len(r) :
           (s \o r)[n] = IF n <= Len(s) THEN s[n] ELSE r[n - Len(s)]
  BY ConcatProperties
<1>2. DOMAIN (s \o r) = 1 .. Len(s) + Len(r) /\ DOMAIN s = 1 .. Len(s) /\ DOMAIN r = 1 .. Len(r)
      /\ Len(s) \in Nat /\ Len(r) \in Nat
  BY <1>1
<1>3. ASSUME NEW x \in Range(s) PROVE x \in Range(s \o r)
  BY <1>1, <1>2 DEF Range
<1>4. ASSUME NEW x \in Range(r) PROVE x \in Range(s \o r)
  <2>1. PICK n \in 1 .. Len(r) : x = r[n]
    BY <1>2, <1>4 DEF Range
  <2>2. n + Len(s) \in 1 .. Len(s) + Len(r) /\ (s \o r)[n + Len(s)] = r[n]
    BY <1>1, <1>2
  <2> QED BY <2>1, <2>2, <1>2 DEF Range
<1>5. ASSUME NEW x \in Range(s \o r) PROVE x \in Range(s) \/ x \in Range(r)
  <2>1. PICK n \in 1 .. Len(s) + Len(r) : x = (s \o r)[n]
    BY <1>2, <1>5 DEF Range
  <2>2. CASE n <= Len(s)
    BY <2>1, <2>2, <1>1, <1>2 DEF Range
  <2>3. CASE ~(n <= Len(s))
    <3>1. n - Len(s) \in 1 .. Len(r) /\ x = r[n - Len(s)]
      BY <2>1, <2>3, <1>1, <1>2
    <3> QED BY <3>1, <1>2 DEF Range
  <2> QED BY <2>2, <2>3
<1> QED BY <1>1, <1>3, <1>4, <1>5

-----------------------------------------------------------------------------
(* One lemma for each action *)

LEMMA TakeInputKeeps ==
  ASSUME IInv, TakeInput
  PROVE  IInv'
<1> DEFINE c == Commands(inputs[next], tmpfiles + 1)
           new == tmpfiles + 1 .. tmpfiles + c.tmps
<1> USE DEF IInv
<1>1. /\ Types /\ Running /\ child = NoChild /\ todo = <<>> /\ next \in 1 .. Len(inputs)
      /\ inputs[next] \in FileType /\ child.state = "none"
      /\ ~(CountsSource(inputs[next]) /\ src_cnt > 0)
  BY DEF TakeInput, Free, NoChild, Types
<1>2. /\ todo' = c.cmds /\ tmpfiles' = tmpfiles + c.tmps /\ ld_args' = ld_args \o c.link
      /\ disk' = [f \in DOMAIN disk \cup new |-> IF f \in DOMAIN disk THEN disk[f] ELSE "empty"]
      /\ src_cnt' = IF CountsSource(inputs[next]) THEN src_cnt + 1 ELSE src_cnt
      /\ next' = next + 1
      /\ UNCHANGED <<options, opt_E, child, status, made>>
  BY DEF TakeInput
<1>3. /\ c.cmds \in Seq(Command) /\ c.tmps \in Nat /\ c.link \in Seq(Nat)
      /\ \/ c.cmds = <<>> /\ c.tmps = 0 /\ c.link \in {<<>>, <<0>>}
         \/ /\ inputs[next] # "LDARG"
            /\ \E o \in {Cc1(FALSE, 0), Cc1(TRUE, 0), As(0, 0)} : c.cmds = <<o>>
            /\ c.tmps = 0 /\ c.link = <<>>
         \/ /\ mode = "link" /\ c.cmds = <<As(0, tmpfiles + 1)>> /\ c.tmps = 1
            /\ c.link = <<tmpfiles + 1>>
         \/ /\ inputs[next] # "LDARG"
            /\ \E pp \in BOOLEAN : c.cmds = <<Cc1(pp, tmpfiles + 1), As(tmpfiles + 1, 0)>>
            /\ c.tmps = 1 /\ c.link = <<>>
         \/ /\ mode = "link"
            /\ \E pp \in BOOLEAN :
                 c.cmds = <<Cc1(pp, tmpfiles + 1), As(tmpfiles + 1, tmpfiles + 1 + 1)>>
            /\ c.tmps = 2 /\ c.link = <<tmpfiles + 1 + 1>>
  <2>1. tmpfiles + 1 \in Nat \ {0}
    BY <1>1 DEF Types
  <2> QED BY <2>1, <1>1, CommandsShape
<1> HIDE DEF c
<1>30. c.cmds \in Seq(Command) /\ c.tmps \in Nat /\ c.link \in Seq(Nat)
  BY <1>3
<1>31. tmpfiles \in Nat /\ next \in Nat \ {0} /\ src_cnt \in Nat
  BY <1>1 DEF Types
<1>4. /\ ld_args' \in Seq(Nat) /\ Range(ld_args') = Range(ld_args) \cup Range(c.link)
      /\ DOMAIN disk' = DOMAIN disk \cup new /\ \A f \in DOMAIN disk : disk'[f] = disk[f]
  BY <1>1, <1>2, <1>30, RangeOfConcat DEF Types
<1>5. Types'
  <2>1. disk' = [f \in DOMAIN disk' |-> disk'[f]] /\ DOMAIN disk' \subseteq 1 .. tmpfiles'
    <3>1. disk' = [f \in DOMAIN disk' |-> disk'[f]]
      BY <1>2
    <3>2. DOMAIN disk \subseteq 1 .. tmpfiles
      BY <1>1 DEF Types
    <3>3. 1 .. tmpfiles \subseteq 1 .. tmpfiles + c.tmps /\ new \subseteq 1 .. tmpfiles + c.tmps
      BY <1>30, <1>31
    <3> QED BY <3>1, <3>2, <3>3, <1>2, <1>4
  <2>2. todo' \in Seq(Command) /\ made' \in Seq(Command) /\ ld_args' \in Seq(Nat)
    BY <1>1, <1>2, <1>30, <1>4 DEF Types
  <2>3. next' \in Nat \ {0} /\ src_cnt' \in Nat /\ tmpfiles' \in Nat
    BY <1>2, <1>30, <1>31
  <2>4. /\ inputs' \in Seq(FileType) /\ mode' \in Mode /\ has_o' \in BOOLEAN
        /\ dry' \in BOOLEAN /\ opt_E' \in BOOLEAN /\ (mode' = "E" => opt_E')
        /\ child' \in [cmd : Command, state : {"none", "run", "good", "bad"}]
        /\ status' \in {"running", "ok", "failed"}
    BY <1>1, <1>2 DEF Types, options
  <2> QED BY <2>1, <2>2, <2>3, <2>4 DEF Types
<1>6. Rest = {} /\ Rest' = Range(c.cmds) /\ child' = NoChild /\ child'.state = "none"
  BY <1>1, <1>2, RangeOfPair DEF Rest
<1>7. Left' /\ Finished'
  BY <1>1, <1>2 DEF Left, Finished, Running
<1>8. ASSUME Alive'
      PROVE  /\ Alive /\ Staged /\ Accounted /\ Objects
             /\ DOMAIN disk = 1 .. tmpfiles /\ \A t \in 1 .. tmpfiles : Done(t) /\ Done(t)'
             /\ \A f \in Range(ld_args) \ {0} : f \in 1 .. tmpfiles /\ disk'[f] = "obj"
             /\ DOMAIN disk' = 1 .. tmpfiles'
  <2>1. Alive /\ Staged /\ Accounted /\ Objects
    BY <1>8, <1>1, <1>2 DEF Alive, options
  <2>2. DOMAIN disk' = 1 .. tmpfiles'
    <3>1. DOMAIN disk = 1 .. tmpfiles
      BY <2>1 DEF Accounted
    <3>2. 1 .. tmpfiles + c.tmps = (1 .. tmpfiles) \cup new
      BY <1>30, <1>31
    <3> QED BY <3>1, <3>2, <1>2, <1>4
  <2>3. \A t : Done(t) => Done(t)'
    BY <1>2 DEF Done
  <2> QED BY <2>1, <2>2, <2>3, <1>4, <1>6 DEF Accounted, Objects
<1>9. CASE c.cmds = <<>> /\ c.tmps = 0 /\ c.link \in {<<>>, <<0>>}
  <2>1. Rest' = {} /\ tmpfiles' = tmpfiles /\ Range(ld_args') \ {0} = Range(ld_args) \ {0}
    <3>1. Range(c.cmds) = {} /\ Range(c.link) \subseteq {0}
      BY <1>9, RangeOfPair
    <3>2. tmpfiles' = tmpfiles
      BY <1>9, <1>2, <1>31
    <3> QED BY <3>1, <3>2, <1>4, <1>6
  <2>2. Ordered'
    BY <1>9, <1>2, <1>6 DEF Ordered
  <2>3. Once'
    BY <1>9, <2>1, <1>1, <1>2, <1>6, <1>31 DEF Once, OneOutput, Zero, CountsSource, options
  <2>4. Alive' => Staged' /\ Accounted' /\ Objects'
    BY <1>9, <2>1, <1>2, <1>6, <1>8 DEF Staged, Accounted, Objects
  <2> QED BY <2>2, <2>3, <2>4, <1>5, <1>7
<1>10. CASE /\ inputs[next] # "LDARG"
            /\ \E o \in {Cc1(FALSE, 0), Cc1(TRUE, 0), As(0, 0)} : c.cmds = <<o>>
            /\ c.tmps = 0 /\ c.link = <<>>
  <2>1. PICK o \in {Cc1(FALSE, 0), Cc1(TRUE, 0), As(0, 0)} : c.cmds = <<o>>
    BY <1>10
  <2>2. Rest' = {o} /\ tmpfiles' = tmpfiles /\ Range(ld_args') = Range(ld_args)
    BY <2>1, <1>10, <1>1, <1>2, <1>4, <1>6, RangeOfPair DEF Types
  <2>3. o.op # "ld" /\ o.in = 0 /\ o.out = 0
    BY DEF Cc1, As
  <2>4. Len(todo') = 1 /\ DOMAIN todo' = {1} /\ todo'[1] = o
    BY <2>1, <1>2
  <2>5. Ordered' /\ Once'
    BY <1>10, <2>2, <2>3, <2>4, <1>1, <1>2, <1>6
       DEF Ordered, Once, OneOutput, Zero, CountsSource, options, Types
  <2>6. Alive' => Staged' /\ Accounted' /\ Objects'
    BY <2>2, <2>3, <2>4, <1>2, <1>6, <1>8 DEF Staged, Ready, Accounted, Objects
  <2> QED BY <2>5, <2>6, <1>5, <1>7
<1>11. CASE /\ mode = "link" /\ c.cmds = <<As(0, tmpfiles + 1)>> /\ c.tmps = 1
            /\ c.link = <<tmpfiles + 1>>
  <2> DEFINE t == tmpfiles + 1
             o == As(0, t)
  <2>1. /\ Rest' = {o} /\ tmpfiles' = t /\ t \in Nat /\ t # 0
        /\ Range(ld_args') = Range(ld_args) \cup {t}
    <3>1. Range(c.link) = {t} /\ Range(c.cmds) = {o}
      BY <1>11, RangeOfPair
    <3>2. tmpfiles' = t /\ t \in Nat /\ t # 0
      BY <1>11, <1>2, <1>31
    <3> HIDE DEF t, o
    <3> QED BY <3>1, <3>2, <1>4, <1>6
  <2>2. o.op = "as" /\ o.in = 0 /\ o.out = t
    BY DEF As
  <2>3. Len(todo') = 1 /\ DOMAIN todo' = {1} /\ todo'[1] = o
    BY <1>11, <1>2
  <2> HIDE DEF o
  <2>4. Ordered' /\ Once'
    BY <1>11, <2>1, <2>2, <2>3, <1>2, <1>6 DEF Ordered, Once, OneOutput, options
  <2>5. Alive' => Staged' /\ Accounted' /\ Objects'
    <3> SUFFICES ASSUME Alive' PROVE Staged' /\ Accounted' /\ Objects'
      OBVIOUS
    <3>1. Staged'
      BY <2>2, <2>3, <1>6 DEF Staged, Ready
    <3>2. Accounted'
      BY <2>1, <2>2, <1>8, <1>1 DEF Accounted, Types
    <3>3. Objects'
      BY <2>1, <2>2, <1>8, <1>1 DEF Objects, Types
    <3> QED BY <3>1, <3>2, <3>3
  <2> QED BY <2>4, <2>5, <1>5, <1>7
<1>12. CASE /\ inputs[next] # "LDARG"
            /\ \E pp \in BOOLEAN : c.cmds = <<Cc1(pp, tmpfiles + 1), As(tmpfiles + 1, 0)>>
            /\ c.tmps = 1 /\ c.link = <<>>
  <2> DEFINE t == tmpfiles + 1
  <2>1. PICK pp \in BOOLEAN : c.cmds = <<Cc1(pp, t), As(t, 0)>>
    BY <1>12
  <2> DEFINE o == Cc1(pp, t)
             a == As(t, 0)
  <2>2. /\ Rest' = {o, a} /\ tmpfiles' = t /\ t \in Nat /\ t # 0
        /\ Range(ld_args') = Range(ld_args)
    <3>1. Range(c.link) = {} /\ Range(c.cmds) = {o, a}
      BY <2>1, <1>12, RangeOfPair
    <3>2. tmpfiles' = t /\ t \in Nat /\ t # 0
      BY <1>12, <1>2, <1>31
    <3> HIDE DEF t, o, a
    <3> QED BY <3>1, <3>2, <1>4, <1>6
  <2>3. /\ o.op = "cc1" /\ o.in = 0 /\ o.out = t
        /\ a.op = "as" /\ a.in = t /\ a.out = 0
    BY DEF Cc1, As
  <2>4. Len(todo') = 2 /\ DOMAIN todo' = {1, 2} /\ todo'[1] = o /\ todo'[2] = a
    BY <2>1, <1>2
  <2> HIDE DEF o, a
  <2>5. Ordered'
    BY <2>3, <2>4, <1>6 DEF Ordered
  <2>6. Once'
    BY <1>12, <2>2, <2>3, <2>4, <1>1, <1>2, <1>6
       DEF Once, OneOutput, Zero, CountsSource, options, Types
  <2>7. Alive' => Staged' /\ Accounted' /\ Objects'
    <3> SUFFICES ASSUME Alive' PROVE Staged' /\ Accounted' /\ Objects'
      OBVIOUS
    <3>1. t \notin Range(ld_args)
      BY <1>8, <2>2, <1>1 DEF Types
    <3>2. Staged'
      BY <2>2, <2>3, <2>4, <3>1, <1>6 DEF Staged, Pair
    <3>3. Accounted'
      BY <2>2, <2>3, <1>8, <1>1 DEF Accounted, Types
    <3>4. Objects'
      BY <2>2, <2>3, <1>8, <1>1 DEF Objects, Types
    <3> QED BY <3>2, <3>3, <3>4
  <2> QED BY <2>5, <2>6, <2>7, <1>5, <1>7
<1>13. CASE /\ mode = "link"
            /\ \E pp \in BOOLEAN :
                 c.cmds = <<Cc1(pp, tmpfiles + 1), As(tmpfiles + 1, tmpfiles + 1 + 1)>>
            /\ c.tmps = 2 /\ c.link = <<tmpfiles + 1 + 1>>
  <2> DEFINE t == tmpfiles + 1
  <2>1. PICK pp \in BOOLEAN : c.cmds = <<Cc1(pp, t), As(t, t + 1)>>
    BY <1>13
  <2> DEFINE o == Cc1(pp, t)
             a == As(t, t + 1)
  <2>2. /\ Rest' = {o, a} /\ tmpfiles' = t + 1 /\ t \in Nat /\ t # 0
        /\ Range(ld_args') = Range(ld_args) \cup {t + 1}
    <3>1. Rest' = {o, a}
      BY <2>1, <1>6, RangeOfPair
    <3>2. tmpfiles' = t + 1 /\ t \in Nat /\ t # 0
      <4>1. tmpfiles' = tmpfiles + 2
        BY <1>13, <1>2
      <4> QED BY <4>1, <1>31
    <3>3. Range(c.link) = {t + 1}
      BY <1>13, RangeOfPair
    <3> QED BY <3>1, <3>2, <3>3, <1>4
  <2>3. /\ o.op = "cc1" /\ o.in = 0 /\ o.out = t
        /\ a.op = "as" /\ a.in = t /\ a.out = t + 1
    BY DEF Cc1, As
  <2>4. Len(todo') = 2 /\ DOMAIN todo' = {1, 2} /\ todo'[1] = o /\ todo'[2] = a
    BY <2>1, <1>2
  <2> HIDE DEF o, a
  <2>5. Ordered' /\ Once'
    BY <1>13, <2>3, <2>4, <1>2, <1>6 DEF Ordered, Once, OneOutput, options
  <2>6. Alive' => Staged' /\ Accounted' /\ Objects'
    <3> SUFFICES ASSUME Alive' PROVE Staged' /\ Accounted' /\ Objects'
      OBVIOUS
    <3>1. t \notin Range(ld_args')
      BY <1>8, <2>2, <1>1 DEF Types
    <3>2. Staged'
      BY <2>2, <2>3, <2>4, <3>1, <1>6 DEF Staged, Pair
    <3>3. Accounted'
      <4>1. \A u \in 1 .. t + 1 : u \in 1 .. tmpfiles \/ u = t \/ u = t + 1
        BY <2>2, <1>1 DEF Types
      <4>2. \A u \in 1 .. t + 1 : Done(u)' \/ u \in {a.in, a.out}
        BY <4>1, <2>3, <1>8
      <4> QED BY <4>2, <2>2, <1>8 DEF Accounted
    <3>4. Objects'
      BY <2>2, <2>3, <1>8, <1>1 DEF Objects, Types
    <3> QED BY <3>2, <3>3, <3>4
  <2> QED BY <2>5, <2>6, <1>5, <1>7
<1> QED BY <1>3, <1>9, <1>10, <1>11, <1>12, <1>13

LEMMA SkipCommandKeeps ==
  ASSUME IInv, SkipCommand
  PROVE  IInv'
<1> USE DEF IInv
<1>1. /\ todo # <<>> /\ dry /\ todo' = Tail(todo)
      /\ UNCHANGED <<options, opt_E, next, src_cnt, ld_args, run_ld, tmpfiles, disk,
                     child, status, made>>
  BY DEF SkipCommand
<1>2. Types'
  BY <1>1, Dequeue DEF Types, options
<1>3. Left' /\ Finished' /\ ~Alive'
  BY <1>1 DEF Left, Finished, Alive, options
<1>4. Ordered'
  BY <1>1, Dequeue DEF Ordered, options
<1>5. Once'
  <2>1. Rest' \subseteq Rest
    BY <1>1, Dequeue DEF Rest
  <2> QED BY <2>1, <1>1, Dequeue DEF Once, OneOutput, Zero, options
<1> QED BY <1>2, <1>3, <1>4, <1>5

LEMMA CompileHereKeeps ==
  ASSUME IInv, CompileHere
  PROVE  IInv'
<1> USE DEF IInv
<1>0. PICK c : c = Head(todo)
  OBVIOUS
<1>1. /\ Types /\ Running /\ child = NoChild /\ child.state = "none" /\ todo # <<>> /\ ~dry
      /\ c.op = "cc1" /\ c \in Command
      /\ opt_E' = (opt_E \/ c.pp) /\ todo' = Tail(todo) /\ disk' = Wrote(c, "asm")
      /\ made' = Append(made, c)
      /\ UNCHANGED <<options, next, src_cnt, ld_args, run_ld, tmpfiles, child, status>>
  BY <1>0, Dequeue DEF CompileHere, Free, NoChild
<1>2. Alive /\ Staged /\ Accounted /\ Objects
  BY <1>1 DEF Alive, Running
<1>3. /\ made' \in Seq(Command) /\ Range(made') = Range(made) \cup {c}
      /\ DOMAIN made' = 1 .. Len(made) + 1 /\ DOMAIN made = 1 .. Len(made) /\ Len(made) \in Nat
      /\ \A n \in 1 .. Len(made) : made'[n] = made[n]
      /\ made'[Len(made) + 1] = c
      /\ \A t : Done(t) => Done(t)'
  BY <1>1, DoneStays DEF Types
<1>4. /\ DOMAIN disk' = DOMAIN disk /\ disk' = [f \in DOMAIN disk' |-> disk'[f]]
      /\ \A f \in DOMAIN disk : disk'[f] = IF f = c.out THEN "asm" ELSE disk[f]
  BY <1>1 DEF Wrote
<1>5. /\ Len(todo) \in 1 .. 2 /\ Len(todo') = Len(todo) - 1 /\ todo' \in Seq(Command)
      /\ c = todo[1] /\ (Len(todo) = 2 => todo'[1] = todo[2])
      /\ DOMAIN todo = 1 .. Len(todo) /\ DOMAIN todo' = 1 .. Len(todo) - 1
      /\ \A n \in 1 .. Len(todo) - 1 : todo'[n] = todo[n + 1]
      /\ Rest = {c} \cup Rest' /\ Rest' = Range(todo')
  <2>1. Len(todo) \in 1 .. 2
    BY <1>1, <1>2, Dequeue DEF Staged
  <2> QED BY <2>1, <1>1, Dequeue, <1>0 DEF Rest
<1>6. Types'
  <2>1. opt_E' \in BOOLEAN /\ (mode' = "E" => opt_E')
    BY <1>1 DEF Types, Command, options
  <2> QED BY <2>1, <1>1, <1>3, <1>4, <1>5 DEF Types, options
<1>7. Left' /\ Finished' /\ Ordered'
  BY <1>1, <1>5 DEF Left, Finished, Ordered, Running, options
<1>8. Once'
  <2> SUFFICES ASSUME OneOutput PROVE Once'
    BY <1>1 DEF Once, OneOutput, options
  <2>1. /\ src_cnt <= 1 /\ src_cnt # 0
        /\ c.out = 0 => \A n \in DOMAIN made : ~Zero(n)
        /\ \A d \in Rest' : d.out = 0 => c.out # 0 /\ \A n \in DOMAIN made : ~Zero(n)
    <3>1. \A d \in Rest' : \E n \in DOMAIN todo : n # 1 /\ d = todo[n]
      <4>1. ASSUME NEW d \in Range(todo') PROVE \E n \in DOMAIN todo : n # 1 /\ d = todo[n]
        <5>1. PICK n \in 1 .. Len(todo) - 1 : d = todo'[n]
          BY <4>1, <1>5 DEF Range
        <5>2. n + 1 \in DOMAIN todo /\ n + 1 # 1 /\ d = todo[n + 1]
          BY <5>1, <1>5
        <5> QED BY <5>2
      <4> QED BY <4>1, <1>5
    <3>2. src_cnt <= 1 /\ src_cnt # 0
      BY <1>5 DEF Once
    <3>3. \A d \in Rest : d.out = 0 => \A n \in DOMAIN made : ~Zero(n)
      BY DEF Once
    <3>4. 1 \in DOMAIN todo
      BY <1>5
    <3>5. \A d \in Rest' : d.out = 0 => c.out # 0
      BY <3>1, <3>4, <1>5 DEF Once
    <3> QED BY <3>2, <3>3, <3>5, <1>5
  <2>2. ASSUME NEW n \in DOMAIN made'
        PROVE  Zero(n)' <=> Zero(n) \/ (n = Len(made) + 1 /\ c.out = 0)
    <3>1. CASE n = Len(made) + 1
      BY <3>1, <1>3 DEF Zero
    <3>2. CASE n # Len(made) + 1
      <4>1. n \in 1 .. Len(made)
        BY <3>2, <2>2, <1>3
      <4>2. n \in DOMAIN made /\ made'[n] = made[n]
        BY <4>1, <1>3
      <4>3. Zero(n) <=> made[n].out = 0
        BY <4>2 DEF Zero
      <4>4. Zero(n)' <=> made'[n].out = 0
        BY <2>2 DEF Zero
      <4> QED BY <3>2, <4>2, <4>3, <4>4
    <3> QED BY <3>1, <3>2
  <2>3. /\ \A n, k \in DOMAIN made' : Zero(n)' /\ Zero(k)' => n = k
        /\ \A d \in Rest' : d.out = 0 => \A n \in DOMAIN made' : ~Zero(n)'
    BY <2>1, <2>2, <1>3 DEF Once, Zero
  <2>4. \A n, k \in DOMAIN todo' : todo'[n].out = 0 /\ todo'[k].out = 0 => n = k
    <3>1. \A n \in DOMAIN todo' : n + 1 \in DOMAIN todo /\ todo'[n] = todo[n + 1]
      BY <1>5
    <3> QED BY <3>1, <1>5 DEF Once
  <2> QED BY <2>1, <2>3, <2>4, <1>1 DEF Once
<1>9. Staged'
  <2>1. CASE Len(todo) = 1
    <3>1. Len(todo') = 0 /\ child'.state # "run"
      BY <2>1, <1>1, <1>5
    <3> QED BY <3>1 DEF Staged
  <2>2. CASE Len(todo) = 2
    <3>0. PICK d : d = todo'[1]
      OBVIOUS
    <3>1. Pair(c, d)
      BY <2>2, <3>0, <1>1, <1>2, <1>5 DEF Staged
    <3>2. disk'[c.out] = "asm" /\ c.out \in 1 .. tmpfiles' /\ c \in Range(made')
      BY <3>1, <1>1, <1>2, <1>3, <1>4 DEF Pair, Accounted
    <3>3. Ready(d)'
      BY <3>1, <3>2 DEF Pair, Ready, Compiled
    <3> QED BY <2>2, <3>0, <3>3, <1>1, <1>5 DEF Staged
  <2> QED BY <2>1, <2>2, <1>5
<1>10. Accounted'
  <2>1. ASSUME NEW t \in {c.in, c.out}, t \in 1 .. tmpfiles
        PROVE  \E d \in Rest' : t \in {d.in, d.out}
    <3>1. CASE Len(todo) = 1
      BY <2>1, <3>1, <1>1, <1>2, <1>5 DEF Staged, Ready
    <3>2. CASE Len(todo) = 2
      <4>1. Pair(c, todo'[1]) /\ todo'[1] \in Rest'
        BY <3>2, <1>1, <1>2, <1>5 DEF Staged, Range
      <4> QED BY <2>1, <4>1 DEF Pair
    <3> QED BY <3>1, <3>2, <1>5
  <2> QED BY <2>1, <1>1, <1>2, <1>3, <1>4, <1>5 DEF Accounted
<1>11. Objects'
  <2>1. c.out = 0 \/ c.out \notin Range(ld_args)
    <3>1. CASE Len(todo) = 1
      BY <3>1, <1>1, <1>2, <1>5 DEF Staged, Ready
    <3>2. CASE Len(todo) = 2
      BY <3>2, <1>1, <1>2, <1>5 DEF Staged, Pair
    <3> QED BY <3>1, <3>2, <1>5
  <2> QED BY <2>1, <1>1, <1>2, <1>4, <1>5 DEF Objects, Accounted
<1> QED BY <1>6, <1>7, <1>8, <1>9, <1>10, <1>11

LEMMA StartCommandKeeps ==
  ASSUME IInv, StartCommand
  PROVE  IInv'
<1> USE DEF IInv
<1>0. PICK c : c = Head(todo)
  OBVIOUS
<1>1. /\ Types /\ Running /\ child = NoChild /\ child.state = "none" /\ todo # <<>> /\ ~dry
      /\ c \in Command /\ todo' = Tail(todo) /\ child' = [cmd |-> c, state |-> "run"]
      /\ UNCHANGED <<options, opt_E, next, src_cnt, ld_args, run_ld, tmpfiles, disk,
                     status, made>>
  BY <1>0, Dequeue DEF StartCommand, Free, Fork, NoChild
<1>2. Alive /\ Staged /\ Accounted /\ Objects
  BY <1>1 DEF Alive, Running
<1>3. child'.cmd = c /\ child'.state = "run"
  BY <1>1
<1>4. /\ Len(todo) \in 1 .. 2 /\ Len(todo') = Len(todo) - 1 /\ todo' \in Seq(Command)
      /\ c = todo[1] /\ (Len(todo) = 2 => todo'[1] = todo[2])
      /\ DOMAIN todo = 1 .. Len(todo) /\ DOMAIN todo' = 1 .. Len(todo) - 1
      /\ \A n \in 1 .. Len(todo) - 1 : todo'[n] = todo[n + 1]
      /\ Rest' = Rest
  <2>1. Len(todo) \in 1 .. 2
    BY <1>1, <1>2, Dequeue DEF Staged
  <2> QED BY <2>1, <1>1, <1>3, Dequeue, <1>0 DEF Rest
<1>5. Types'
  BY <1>1, <1>4 DEF Types, options
<1>6. Left' /\ Finished' /\ Ordered'
  <2>1. c.op # "ld"
    BY <1>4 DEF Ordered
  <2> QED BY <2>1, <1>1, <1>3, <1>4 DEF Left, Finished, Ordered, Running, options
<1>7. Once'
  BY <1>1, <1>3, <1>4 DEF Once, OneOutput, Zero, options
<1>8. Staged'
  <2>1. CASE Len(todo) = 1
    <3>1. Ready(c)
      BY <2>1, <1>1, <1>2, <1>4 DEF Staged
    <3>2. Ready(c)'
      BY <3>1, <1>1 DEF Ready, Compiled
    <3> QED BY <2>1, <3>2, <1>3, <1>4 DEF Staged
  <2>2. CASE Len(todo) = 2
    <3>0. PICK d : d = todo'[1]
      OBVIOUS
    <3>1. Pair(c, d)
      BY <2>2, <3>0, <1>1, <1>2, <1>4 DEF Staged
    <3>2. Pair(c, d)'
      BY <3>1, <1>1 DEF Pair
    <3> QED BY <2>2, <3>0, <3>2, <1>3, <1>4 DEF Staged
  <2> QED BY <2>1, <2>2, <1>4
<1>9. Accounted' /\ Objects'
  BY <1>1, <1>2, <1>4 DEF Accounted, Objects, Done
<1> QED BY <1>5, <1>6, <1>7, <1>8, <1>9

LEMMA ChildSucceedsKeeps ==
  ASSUME IInv, ChildSucceeds
  PROVE  IInv'
<1> USE DEF IInv
<1>0. PICK c : c = child.cmd
  OBVIOUS
<1>1. /\ Types /\ child.state = "run" /\ Running /\ ~dry /\ c \in Command
      /\ child'.state = "good" /\ child'.cmd = c /\ disk' = Wrote(c, Product(c))
      /\ child' \in [cmd : Command, state : {"none", "run", "good", "bad"}]
      /\ made' = Append(made, c)
      /\ UNCHANGED <<options, opt_E, next, src_cnt, todo, ld_args, run_ld, tmpfiles, status>>
  BY <1>0 DEF ChildSucceeds, ChildEnds, Types, Left, Ordered, Running
<1>2. Alive /\ Staged /\ Accounted /\ Objects
  BY <1>1 DEF Alive, Running
<1>3. /\ made' \in Seq(Command) /\ Range(made') = Range(made) \cup {c}
      /\ DOMAIN made' = 1 .. Len(made) + 1 /\ DOMAIN made = 1 .. Len(made) /\ Len(made) \in Nat
      /\ \A n \in 1 .. Len(made) : made'[n] = made[n]
      /\ made'[Len(made) + 1] = c
      /\ \A t : Done(t) => Done(t)'
  BY <1>1, DoneStays DEF Types
<1>4. /\ DOMAIN disk' = DOMAIN disk /\ disk' = [f \in DOMAIN disk' |-> disk'[f]]
      /\ \A f \in DOMAIN disk : disk'[f] = IF f = c.out THEN Product(c) ELSE disk[f]
  BY <1>1 DEF Wrote
<1>5. /\ Len(todo) \in 0 .. 1 /\ DOMAIN todo = 1 .. Len(todo)
      /\ Rest = {c} \cup Rest' /\ Rest' = Range(todo)
  <2>1. Len(todo) \in 0 .. 1 /\ DOMAIN todo = 1 .. Len(todo)
    <3>1. Len(todo) \in Nat /\ DOMAIN todo = 1 .. Len(todo)
      BY <1>1 DEF Types
    <3>2. Len(todo) <= 2 /\ Len(todo) # 2
      BY <1>1, <1>2 DEF Staged
    <3> QED BY <3>1, <3>2
  <2> QED BY <2>1, <1>0, <1>1 DEF Rest
<1>6. Types'
  BY <1>1, <1>3, <1>4 DEF Types, options
<1>7. Left' /\ Finished' /\ Ordered'
  <2>1. child'.state # "none" /\ child'.cmd = child.cmd
    BY <1>0, <1>1
  <2> QED BY <2>1, <1>1 DEF Left, Finished, Ordered, Running, options
<1>8. Once'
  <2> SUFFICES ASSUME OneOutput PROVE Once'
    BY <1>1 DEF Once, OneOutput, options
  <2>1. /\ src_cnt <= 1 /\ src_cnt # 0
        /\ c.out = 0 => \A n \in DOMAIN made : ~Zero(n)
        /\ \A d \in Rest' : d.out = 0 => c.out # 0 /\ \A n \in DOMAIN made : ~Zero(n)
    <3>1. src_cnt <= 1 /\ src_cnt # 0
      BY <1>5 DEF Once
    <3>2. \A d \in Rest : d.out = 0 => \A n \in DOMAIN made : ~Zero(n)
      BY DEF Once
    <3>3. \A d \in Rest' : d.out = 0 => c.out # 0
      BY <1>0, <1>1, <1>5 DEF Once, Range
    <3> QED BY <3>1, <3>2, <3>3, <1>5
  <2>2. ASSUME NEW n \in DOMAIN made'
        PROVE  Zero(n)' <=> Zero(n) \/ (n = Len(made) + 1 /\ c.out = 0)
    <3>1. CASE n = Len(made) + 1
      BY <3>1, <1>3 DEF Zero
    <3>2. CASE n # Len(made) + 1
      <4>1. n \in DOMAIN made /\ made'[n] = made[n]
        <5>1. n \in 1 .. Len(made)
          BY <3>2, <2>2, <1>3
        <5> QED BY <5>1, <1>3
      <4> QED BY <3>2, <4>1, <2>2 DEF Zero
    <3> QED BY <3>1, <3>2
  <2>3. /\ \A n, k \in DOMAIN made' : Zero(n)' /\ Zero(k)' => n = k
        /\ \A d \in Rest' : d.out = 0 => \A n \in DOMAIN made' : ~Zero(n)'
    BY <2>1, <2>2, <1>3 DEF Once, Zero
  <2>4. \A n, k \in DOMAIN todo' : todo'[n].out = 0 /\ todo'[k].out = 0 => n = k
    BY <1>1 DEF Once
  <2> QED BY <2>1, <2>3, <2>4, <1>1 DEF Once
<1>9. ASSUME Len(todo) = 1
      PROVE  \E d : d = todo[1] /\ Pair(c, d) /\ d \in Rest'
  <2>1. Pair(c, todo[1])
    BY <1>9, <1>0, <1>1, <1>2 DEF Staged
  <2>2. todo[1] \in Range(todo)
    BY <1>9, <1>5 DEF Range
  <2> QED BY <2>1, <2>2, <1>5
<1>10. ASSUME Len(todo) = 0
       PROVE  Ready(c)
  BY <1>10, <1>0, <1>1, <1>2 DEF Staged
<1>11. Staged'
  <2>1. CASE Len(todo) = 0
    BY <2>1, <1>1 DEF Staged
  <2>2. CASE Len(todo) = 1
    <3>1. PICK d : d = todo[1] /\ Pair(c, d)
      BY <2>2, <1>9
    <3>2. disk'[c.out] = "asm" /\ c.out \in 1 .. tmpfiles' /\ c \in Range(made')
      BY <3>1, <1>1, <1>2, <1>3, <1>4 DEF Pair, Accounted, Product
    <3>3. Ready(d)'
      BY <3>1, <3>2 DEF Pair, Ready, Compiled
    <3>4. Ready(todo[1])'
      BY <3>1, <3>3, <1>1 DEF Ready, Compiled
    <3>5. Len(todo') = 1 /\ child'.state # "run"
      BY <2>2, <1>1
    <3> QED BY <3>4, <3>5 DEF Staged
  <2> QED BY <2>1, <2>2, <1>5
<1>12. Accounted'
  <2>1. ASSUME NEW t \in {c.in, c.out}, t \in 1 .. tmpfiles
        PROVE  Done(t)' \/ \E d \in Rest' : t \in {d.in, d.out}
    <3>1. CASE Len(todo) = 0
      <4>1. Ready(c) /\ c.op = "as"
        BY <2>1, <3>1, <1>1, <1>10 DEF Ready, Command
      <4>2. CASE t = c.out
        BY <4>1, <4>2, <1>3 DEF Done
      <4>3. CASE t = c.in
        <5>1. PICK k \in Range(made) : k.out = t
          BY <2>1, <4>1, <4>3 DEF Ready, Compiled
        <5> QED BY <5>1, <4>1, <4>3, <1>3 DEF Done
      <4> QED BY <2>1, <4>2, <4>3
    <3>2. CASE Len(todo) = 1
      BY <2>1, <3>2, <1>9 DEF Pair
    <3> QED BY <3>1, <3>2, <1>5
  <2>2. DOMAIN disk' = 1 .. tmpfiles'
    BY <1>1, <1>2, <1>4 DEF Accounted
  <2>3. ASSUME NEW t \in 1 .. tmpfiles
        PROVE  Done(t)' \/ \E d \in Rest' : t \in {d.in, d.out}
    BY <2>1, <1>2, <1>3, <1>5 DEF Accounted
  <2> QED BY <2>2, <2>3, <1>1 DEF Accounted
<1>13. Objects'
  <2>1. c.op = "as" \/ c.out = 0 \/ c.out \notin Range(ld_args)
    <3>1. CASE Len(todo) = 0
      BY <3>1, <1>1, <1>10 DEF Ready, Command
    <3>2. CASE Len(todo) = 1
      BY <3>2, <1>9 DEF Pair
    <3> QED BY <3>1, <3>2, <1>5
  <2>2. ASSUME NEW f \in Range(ld_args) \ {0}
        PROVE  /\ f \in 1 .. tmpfiles
               /\ disk'[f] = "obj" \/ \E d \in Rest' : d.op = "as" /\ d.out = f
    <3>1. f \in 1 .. tmpfiles /\ f \in DOMAIN disk
      BY <1>2 DEF Objects, Accounted
    <3>2. CASE f = c.out
      BY <2>1, <3>1, <3>2, <1>4 DEF Product
    <3>3. CASE f # c.out
      BY <3>1, <3>3, <1>2, <1>4, <1>5 DEF Objects
    <3> QED BY <3>1, <3>2, <3>3
  <2> QED BY <2>2, <1>1 DEF Objects
<1> QED BY <1>6, <1>7, <1>8, <1>11, <1>12, <1>13

\* A child that fails: what it leaves does not matter any more.
LEMMA ChildFailsKeeps ==
  ASSUME IInv, ChildReportsError \/ ChildDies
  PROVE  IInv'
<1> USE DEF IInv
<1>1. /\ Types /\ child.state = "run" /\ Running
      /\ child'.state = "bad" /\ child'.cmd = child.cmd
      /\ child' \in [cmd : Command, state : {"none", "run", "good", "bad"}]
      /\ disk' \in {Unlinked, Wrote(child.cmd, "partial")}
      /\ UNCHANGED <<options, opt_E, next, src_cnt, todo, ld_args, run_ld, tmpfiles,
                     status, made>>
  BY DEF ChildReportsError, ChildDies, ChildEnds, Types, Left, Running
<1>2. DOMAIN disk' \subseteq DOMAIN disk /\ disk' = [f \in DOMAIN disk' |-> disk'[f]]
  BY <1>1 DEF Unlinked, Wrote
<1>3. Types'
  BY <1>1, <1>2 DEF Types, options
<1>4. Left' /\ Finished' /\ Ordered' /\ ~Alive'
  BY <1>1 DEF Left, Finished, Ordered, Alive, Running, options
<1>5. Once'
  <2>1. Rest' \subseteq Rest
    BY <1>1 DEF Rest
  <2> QED BY <2>1, <1>1 DEF Once, OneOutput, Zero, options
<1> QED BY <1>3, <1>4, <1>5

\* All files are done when no command is left.
LEMMA AllDone ==
  ASSUME IInv, Alive, todo = <<>>, child.state # "run"
  PROVE  \A t \in 1 .. tmpfiles : Done(t)
<1>1. Rest = {}
  BY RangeOfPair DEF Rest
<1> QED BY <1>1 DEF IInv, Accounted

LEMMA ReapKeeps ==
  ASSUME IInv, Reap
  PROVE  IInv'
<1> USE DEF IInv
<1>1. /\ Types /\ Running /\ child.state \in {"good", "bad"} /\ child' = NoChild
      /\ UNCHANGED <<options, opt_E, next, src_cnt, todo, ld_args, run_ld, tmpfiles, made>>
  BY DEF Reap
<1>2. CASE child.state = "bad"
  <2>1. Exit("failed")
    BY <1>2 DEF Reap
  <2> QED BY <2>1, <1>1, Leaves
<1>3. CASE child.state = "good" /\ child.cmd.op = "ld"
  <2>1. Exit("ok")
    BY <1>3 DEF Reap
  <2>2. ~dry /\ todo = <<>>
    BY <1>3 DEF Ordered
  <2>3. \A t \in 1 .. tmpfiles : Done(t)
    BY <2>2, <1>1, <1>3, AllDone DEF Alive, Running
  <2> QED BY <2>1, <2>3, <1>1, Leaves
<1>4. CASE child.state = "good" /\ child.cmd.op # "ld"
  <2>1. UNCHANGED <<status, disk>>
    BY <1>4 DEF Reap
  <2>2. child'.state = "none" /\ child' \in [cmd : Command, state : {"none", "run", "good", "bad"}]
    BY <1>1 DEF NoChild, Ld, Command
  <2>3. Rest' = Rest
    BY <1>1, <1>4, <2>2 DEF Rest
  <2>4. Types' /\ Left' /\ Finished' /\ Ordered'
    BY <2>1, <2>2, <1>1 DEF Types, Left, Finished, Ordered, Running, Done, options
  <2>5. Once'
    BY <2>2, <2>3, <1>1 DEF Once, OneOutput, Zero, options
  <2>6. ASSUME Alive' PROVE Staged' /\ Accounted' /\ Objects'
    <3>1. Staged /\ Accounted /\ Objects
      BY <2>1, <2>6, <1>1, <1>4 DEF Alive, options
    <3>2. Staged'
      BY <3>1, <2>1, <2>2, <1>1, <1>4 DEF Staged, Pair, Ready, Compiled
    <3>3. Accounted' /\ Objects'
      BY <3>1, <2>1, <2>3, <1>1 DEF Accounted, Objects, Done
    <3> QED BY <3>2, <3>3
  <2> QED BY <2>4, <2>5, <2>6
<1> QED BY <1>1, <1>2, <1>3, <1>4

LEMMA FinishKeeps ==
  ASSUME IInv, Finish
  PROVE  IInv'
<1>1. /\ Exit("ok") /\ child = NoChild /\ child' = NoChild /\ todo = <<>> /\ Running
      /\ UNCHANGED <<options, opt_E, next, src_cnt, todo, ld_args, run_ld, tmpfiles, made>>
  BY DEF Finish, AllTaken, Free
<1>2. ~dry => \A t \in 1 .. tmpfiles : Done(t)
  BY <1>1, AllDone DEF Alive, Running, NoChild
<1> QED BY <1>1, <1>2, Leaves

LEMMA LinkKeeps ==
  ASSUME IInv, Link
  PROVE  IInv'
<1> USE DEF IInv
<1>1. /\ Types /\ child = NoChild /\ child.state = "none" /\ todo = <<>> /\ Running /\ ~dry
      /\ mode = "link" /\ child' = [cmd |-> Ld, state |-> "run"]
      /\ UNCHANGED <<options, opt_E, next, src_cnt, todo, ld_args, run_ld, tmpfiles,
                     disk, status, made>>
  BY DEF Link, AllTaken, LinkWanted, Free, Fork, NoChild
<1>2. /\ child'.cmd = Ld /\ child'.state = "run" /\ Ld \in Command
      /\ Ld.op = "ld" /\ Ld.in = 0 /\ Ld.out = 0
  BY <1>1 DEF Ld, Command
<1>3. Types' /\ Left' /\ Finished' /\ Ordered'
  BY <1>1, <1>2 DEF Types, Left, Finished, Ordered, Running, options
<1>4. Once'
  BY <1>1 DEF Once, OneOutput, options
<1>5. Alive /\ Staged /\ Accounted /\ Objects
  BY <1>1 DEF Alive, Running
<1>6. Rest = {} /\ Len(todo') = 0
  BY <1>1, RangeOfPair DEF Rest
<1>7. Staged'
  BY <1>1, <1>2, <1>6 DEF Staged, Ready
<1>8. Accounted' /\ Objects'
  BY <1>1, <1>5, <1>6 DEF Accounted, Objects, Done
<1> QED BY <1>3, <1>4, <1>7, <1>8

LEMMA FailuresKeep ==
  ASSUME IInv, RejectInput \/ CompileHereFails
  PROVE  IInv'
<1>1. /\ Exit("failed") /\ child' = NoChild
      /\ UNCHANGED <<options, opt_E, next, src_cnt, todo, ld_args, run_ld, tmpfiles, made>>
  BY DEF RejectInput, CompileHereFails, Free
<1> QED BY <1>1, Leaves

LEMMA StutterKeeps ==
  ASSUME IInv, UNCHANGED vars
  PROVE  IInv'
<1> USE DEF vars, options
<1>1. Types' /\ Left' /\ Ordered' /\ Finished' /\ (Alive' <=> Alive)
  BY DEF IInv, Types, Left, Ordered, Finished, Done, Alive
<1>2. Rest' = Rest
  BY DEF Rest
<1>3. Once'
  BY <1>2 DEF IInv, Once, OneOutput, Zero
<1>4. Alive => Staged' /\ Accounted' /\ Objects'
  BY <1>2 DEF IInv, Staged, Pair, Ready, Compiled, Accounted, Objects, Done
<1> QED BY <1>1, <1>3, <1>4 DEF IInv

-----------------------------------------------------------------------------
(* Theorems *)

LEMMA Initially == Init => IInv
<1> SUFFICES ASSUME Init PROVE IInv
  OBVIOUS
<1>1. /\ todo = <<>> /\ made = <<>> /\ ld_args = <<>> /\ tmpfiles = 0 /\ disk = <<>>
      /\ child = NoChild /\ child.state = "none" /\ status = "running" /\ src_cnt = 0 /\ next = 1
  BY DEF Init, NoChild
<1>2. inputs \in Seq(FileType)
  <2>1. PICK n \in 1 .. MaxInputs : inputs \in [1 .. n -> FileType]
    BY DEF Init
  <2>2. n \in Nat
    BY DriverConstants
  <2> QED BY <2>1, <2>2
<1>3. DOMAIN disk = {} /\ disk = [f \in DOMAIN disk |-> disk[f]]
  BY <1>1
<1>4. child \in [cmd : Command, state : {"none", "run", "good", "bad"}]
  BY <1>1 DEF NoChild, Ld, Command
<1>5. Types
  <2>1. /\ mode \in Mode /\ has_o \in BOOLEAN /\ dry \in BOOLEAN /\ opt_E \in BOOLEAN
        /\ mode = "E" => opt_E
    BY DEF Init
  <2>2. todo \in Seq(Command) /\ made \in Seq(Command) /\ ld_args \in Seq(Nat)
    BY <1>1
  <2> QED BY <2>1, <2>2, <1>1, <1>2, <1>3, <1>4 DEF Types
<1>6. Rest = {} /\ Range(ld_args) = {}
  BY <1>1, RangeOfPair DEF Rest
<1>7. Left /\ Ordered /\ Once /\ Finished
  BY <1>1, <1>6 DEF Left, Ordered, Once, Zero, Finished
<1>8. Staged /\ Accounted /\ Objects
  BY <1>1, <1>3, <1>6 DEF Staged, Accounted, Objects
<1> QED BY <1>5, <1>7, <1>8 DEF IInv

LEMMA Inductive == IInv /\ [Next]_vars => IInv'
<1> SUFFICES ASSUME IInv, [Next]_vars PROVE IInv'
  OBVIOUS
<1> QED
  BY TakeInputKeeps, SkipCommandKeeps, CompileHereKeeps, StartCommandKeeps, ChildSucceedsKeeps,
     ChildFailsKeeps, ReapKeeps, FinishKeeps, LinkKeeps, FailuresKeep, StutterKeeps DEF Next, Step

\* The inductive invariant holds in every reachable state.
THEOREM Invariance == Spec => []IInv
  BY Initially, Inductive, PTL DEF Spec

\* However the driver ends, no temporary file is left, for any number of
\* inputs and whatever the children do (cleanup).
THEOREM FilesGone == Spec => []TmpFilesGone
<1>1. IInv => TmpFilesGone
  BY DEF IInv, Left, TmpFilesGone
<1> QED BY <1>1, Invariance, PTL

\* Exit status 0 means that every temporary file was made, and that what the
\* compiler made was assembled (run_subprocess, run_cc1).
THEOREM StatusIsTrue == Spec => []SuccessMeansDone
<1>1. IInv => SuccessMeansDone
  BY DEF IInv, Finished, Done, SuccessMeansDone
<1> QED BY <1>1, Invariance, PTL

\* The assembler is only given assembly and the linker only objects, made and
\* not removed; and the output named by -o is written once.
THEOREM InputsAreProduced == Spec => []InputsProduced
<1>1. IInv => InputsProduced
  <2> SUFFICES ASSUME IInv PROVE InputsProduced
    OBVIOUS
  <2>1. ASSUME OneOutput
        PROVE  Cardinality({n \in DOMAIN made : made[n].out = 0}) <= 1
    <3> DEFINE Z == {n \in DOMAIN made : made[n].out = 0}
    <3>1. \A n, k \in Z : n = k
      BY <2>1 DEF IInv, Once, Zero
    <3>2. CASE Z = {}
      BY <3>2, FS_EmptySet
    <3>3. CASE Z # {}
      <4>1. PICK n \in Z : Z = {n}
        BY <3>1, <3>3
      <4>2. Cardinality(Z) = 1
        BY <4>1, FS_Singleton
      <4> QED BY <4>2
    <3> QED BY <3>2, <3>3
  <2>2. ASSUME child.state = "run"
        PROVE  /\ Types /\ Staged /\ Accounted /\ Objects
    <3>1. Alive
      BY <2>2 DEF IInv, Left, Ordered, Alive
    <3> QED BY <3>1 DEF IInv
  <2>3. ASSUME child.state = "run", child.cmd.op = "as", child.cmd.in # 0
        PROVE  child.cmd.in \in DOMAIN disk /\ disk[child.cmd.in] = "asm"
    <3>0. Types /\ Staged
      BY <2>2, <2>3
    <3>1. Len(todo) <= 2 /\ Len(todo) # 2 /\ Len(todo) # 1
      BY <3>0, <2>3 DEF Staged, Pair
    <3>2. Len(todo) = 0
      <4>1. Len(todo) \in Nat
        BY <3>0 DEF Types
      <4>2. \A n \in Nat : n <= 2 /\ n # 2 /\ n # 1 => n = 0
        OBVIOUS
      <4> QED BY <4>1, <4>2, <3>1
    <3>3. Ready(child.cmd)
      BY <2>2, <2>3, <3>2 DEF Staged
    <3> QED BY <2>2, <2>3, <3>3 DEF Ready, Compiled, Accounted
  <2>4. ASSUME child.state = "run", child.cmd.op = "ld"
        PROVE  \A f \in Range(ld_args) \ {0} : f \in DOMAIN disk /\ disk[f] = "obj"
    <3>1. todo = <<>>
      BY <2>4 DEF IInv, Ordered
    <3>2. \A c \in Rest : c.op = "ld"
      BY <2>4, <3>1, RangeOfPair DEF Rest
    <3> QED BY <2>2, <2>4, <3>2 DEF Objects, Accounted
  <2> QED BY <2>1, <2>3, <2>4 DEF InputsProduced, OneOutput
<1> QED BY <1>1, Invariance, PTL

=============================================================================
