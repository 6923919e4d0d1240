# A formal model of slimcc

slimcc is a C compiler for x86-64: tokenizer, preprocessor, recursive-descent
parser, tree-walking code generator, and a driver that forks one compiler child
per input and calls the assembler and the linker.  This directory models the
parts of it whose correctness depends on the order of events, on two places of
the code deciding alike, or on a rule that is easy to state and hard to keep
(C's rules for constants, initializers and names).  TLC checks the models on
small instances; TLAPS proves the central properties for every instance.

Contents: 1 inventory, 2 modules, 3 runs and what they show, 4 proofs,
5 disagreements between the code and what it says, 6 what is not modelled,
7 plan.

## 1. Inventory

Each entry gives the state a component keeps, its operations, its neighbours,
what is hard about it and what makes it correct.  `PROJECT.json` lists every
component with its status, and every hazard at its line.

**Hash table** (`hashmap.c`).  State: a power-of-two array of buckets, its
capacity, the buckets ever used (tombstones included).  Operations: get, put,
get-or-insert, delete; insertion may rehash.  Used by the preprocessor
(macros, guards, `#pragma once`), the parser (scopes, labels) and the code
generator (names already declared).  Hard: a tombstone is never used again, so
a table fills with them; probes have no bound; rehash calls the insertion that
may call rehash.  Correct when it is a map and every call returns.

**Arenas and strings** (`alloc.c`, `strings.c`).  State: a list of pages, the
current one and the bytes used in it.  All requests are small and of fixed size.

**Driver** (`main.c`, `platform/`).  State: options, the list of temporary
files, the linker arguments, the child.  Operations: take an input, fork a
compiler, run assembler and linker, wait, clean up at exit.  Hard: children
inherit the exit handler *and* the list of files it unlinks; any step can fail
or be killed; with one input the compiler runs in the driver's process and
shares its global options.  Correct when no temporary file is left, no command
reads a file that was not produced, status 0 means everything asked was made.

**Tokenizer** (`tokenize.c`, `unicode.c`).  From bytes to tokens; no state
across files except the list of files.

**Preprocessor** (`preprocess.c`).  State: macro table, stack of conditional
groups, guards and `#pragma once`, stack of macro locks, token free list.
Operations: one per directive; reading arguments, substitution, `##`,
rescanning.  Hard: a macro stays locked until the token after its replacement
is consumed, while replacements nest into whatever tokens follow and arguments
are read across the end of a lock; a file with an include guard is never read
again, from evidence gathered in its first reading.  Correct when expansion
ends, no macro is applied to its own output, locks are well nested, and the
lines compiled are those C says are compiled.

**Scopes and name prefixes** (`parse.c`).  State: the scopes, each with tables
of variables and tags; the name prefixes, each with its parent, its text, what
it captures and a table of its own.  Operations: every kind of declaration,
`_Nameprefix`, `_Apply`, aliases, `_Global`, `::`.  Hard: a declaration enters
the table of the scope under its full spelling and the table of each prefix
under a shortened one; variables, tags and enumeration constants take
different paths through the code; prefixes capture others.  Correct when a
name, plain or qualified, finds what its scope declared and nothing else.

**Types, expressions and constants** (`type.c`, `parse.c`).  State: the tree
of an expression.  Operations: `add_type` for each kind of node, casts that
are dropped, `eval2` and `eval_double`.  Hard: constants are folded in 64 bits
of the host whatever their type.  Correct when the type, and the value of a
constant expression, are C's.

**Wide integers** (`bitint.c`).  Routines on arrays of words, called by the
compiler to fold constants and by compiled programs.  Hard: bits above the width
are anything.  Correct when the result is the operation modulo the width.

**Initializers** (`parse.c`).  State: a tree of initializers with a cursor of
designators.  Hard: braces may be left out, a designator may return to what is
already initialised, a range shares one expression among elements.  Correct
when each leaf gets the value that C's rule about the current object gives it.

**Statements and jumps** (`parse.c`, `codegen.c`).  State: the current
function's labels, gotos, jump contexts and chain of things to undo; the
statements marked as holding labels; case ranges.  Hard: a goto is resolved
when the function ends, against the chain that was open where it stood; a block
decides from its last statement whether its end is reachable; code after a jump
is left out, unless a label in it may be entered; the peephole pass removes
jumps from finished text.  Correct when every way out of a scope undoes exactly
what was reached in it, and leaving code out changes nothing.

**Records** (`parse.c`, `type.c`, `codegen.c`).  Bit-fields are laid out by
rules that depend on packing and are read by three different pieces of code.
Correct when members neither overlap nor leave their record, and read back what
was stored.

**Code generator** (`codegen.c`).  State: the temporary stack, frame size,
reserved lines of output, labels.  Operations: an emitter per kind of node, the
calling convention, `va_arg`, bit-field access, inline assembly, data, a
peephole pass.  Hard: the place of a temporary is decided only when it is
popped, from depths gathered meanwhile; caller and callee compute the calling
convention separately; the caller decides twice, at parsing and at generation,
which arguments get a home in the frame; each operator has a plain form and
optimized ones that depend on its operands.  Correct when every temporary is
read back unchanged, every argument arrives, and code computes what C says.

**Inline assembly** (`parse.c`, `codegen.c`).  State: operands with their
constraints and the register each got, the registers to save, up to two
registers for storing outputs.  Hard: operands are loaded one by one through
registers that others already hold; the body may destroy the frame pointers the
addresses of operands depend on, and may leave by a label.  Correct when inputs
are where the body looks for them, outputs reach their objects, and frame
pointers and the registers of the caller survive.

**Container library** (`cgs.c`, `external/cgs.h`).  General-purpose strings and
containers, of which the compiler uses string views and one array type.

Interaction.  The driver calls `cc1` in a child or in its own process; `cc1`
runs tokenizer and preprocessor to the end, then the parser, which calls
`prepare_funcall` for each call and `emit_text` at the end of each function, so
parsing and generation alternate by function and share the syntax tree, the
types and the objects.  There are no threads; concurrency is between processes
and through the file system.

## 2. Modules

| module | models | used by | proofs |
|---|---|---|---|
| `TmpStack` | the temporary stack | | `TmpStackProofs` |
| `AbstractMap` | what a map promises | `HashMap` | |
| `HashMap` | `hashmap.c`, one probe per step | | `HashMapProofs` |
| `Driver` | the loop of `main`, children, files, link | | `DriverProofs` |
| `MacroExpand` | expansion and locks | | `MacroExpandProofs` |
| `Conditionals` | C's rule for conditional groups | `Directives` | |
| `Directives` | conditional groups, guards, inclusion | | `DirectivesProofs` |
| `DeferFlow` | scopes with defer, cleanup and VLAs: parsing, then the code | | `DeferFlowProofs` |
| `Alignment` | rounding, MIN, MAX | `Records`, `Calls` | |
| `Records` | layout of records, access to members | `RecordCalls` | `RecordCallsProofs` |
| `Calls` | one call, from both sides | `RecordCalls` | `RecordCallsProofs` |
| `RecordCalls` | a program that accesses or passes a record | | `RecordCallsProofs` |
| `CInt` | integer types and values of scaled widths | the five below | |
| `CSemantics` | C's rules for expressions | `Arith` | |
| `Exprs` | the parser's tree, its types, `eval2` | `ExprCode`, `ExprGen` | |
| `ExprCode`, `ExprGen` | the code of an expression, and the machine | `Arith` | |
| `Arith` | expressions grown operator by operator | `Arithmetic` | |
| `BitIntWords`, `BitInt` | `bitint.c`, word by word | `Arithmetic` | |
| `Arithmetic` | plain and wide arithmetic | | |
| `Names` | scopes and name prefixes | | `NamesProofs` |
| `InitRules` | C's rule for initializers | `Initializers` | |
| `Initializers` | initializers as parsed and emitted | | |
| `Statements` | labels, reachability, switches, the peephole pass | `StatementCode` | |
| `InlineAsm` | one asm statement | `StatementCode` | |
| `StatementCode` | a function of statements, or an asm statement | | |

`MC*` modules give the constants of the runs; `PROJECT.json` "map" gives, for
each definition, the lines it translates.  Names are the source's where they
can be.  A module that only states a rule of C (`Conditionals`, `CSemantics`,
`InitRules`) is written from the standard and shares nothing with the module
that it is compared with.

**TmpStack.**  An action is one call of the push and pop functions, or the calls
one caller makes in a row (compare-and-swap pops two pointers, a `_BitInt` is
popped word by word).  `data` and `depth` are `tmp_stack`; each slot holds the
kind and the depths of general registers, SSE registers and stack words that
`pop_tmpstack` gathers.  The ghost `dirty` records what the instructions
emitted since each push write, and `restored` what the last pop read back.
Words are 8 bytes, since everything that is pushed is a whole number of them.

**HashMap** keeps the array, probes one bucket per step, and copies one entry
per step when it rehashes.  `IsAMap` says that it implements `AbstractMap`
through the mapping *contents = what the live buckets hold*; while a rehash
copies, the old table is still the content.  The hash is a parameter.

**Driver.**  Temporary files are numbered in the order of the list, and `disk`
holds what is in those that exist; 0 stands for a named output.  A command
either runs in this process (`CompileHere`) or as a child that succeeds,
reports an error, or dies.  A compiler child that reports an error runs
`cleanup` on the list it inherited.  `made` lists the commands that ended well.

**MacroExpand.**  The three scanning loops are frames of a stack, since an
argument is expanded by a loop of its own.  A token's identity is the number of
tokens left in its list, which is stable because only the head changes; a lock
stops at such a number.  `by`, which only properties read, is the macro a token
came from.  A token also has an address (`id`), and `chain` is the list of those
allocated, in order: an expansion gives back what it made and did not insert, and
in the text itself also the tokens of the call.  A token made of a free one has a
new address in the model, so that an old reference to it shows.

**Directives.**  A line is a directive and the name it is about; conditions are
"NAME is defined".  As in the code an included file is spliced in front of the
lines that follow, so groups and ends of files are not tied to each other.
`Conditionals` states the rule of C independently: a line is compiled when
every group around it is in its chosen branch.

**DeferFlow.**  Phase one is the parser: each step chooses the next statement,
so all functions of a size are parsed.  Phase two runs the code that was made,
with both ways at each branch.  `chain` in an instruction is `fnctx->defr` where
it was parsed; `pending` is what execution really reached and has not undone.

**Records** models memory bit by bit, a bit holding *which bit of which value
of which member* it is, so that overlap and misplaced bits are visible.  A
record is declared member by member, then one object of it is initialised (by
the compiler's writer of static data, or unset), stored to and loaded from.
Widths are in C's bits and bytes.

**Calls** goes through `prepare_funcall`, `gen_funcall`, `gen_funcall_args`
(spilling, then loading), the call, `emit_text`'s prologue, `va_start`, a
`va_arg` for each unnamed argument, and the return.  Memory is in eightbytes;
a word is *word w of argument a*, or junk.  An argument is `direct` (constant,
variable or memory operand, which needs no home) or `computed`.

**CInt, CSemantics, Exprs, ExprCode, ExprGen, Arith.**  A step of `Arith` wraps
the expression in one more operator.  `Exprs` builds the tree the parser builds
(with the casts it inserts and those it drops), and folds it as `eval2` does.
`ExprCode` and `ExprGen` give the instructions, plain and with every
optimization of operands, constants and conditions, and run them on a machine
of three parts: the general register, the SSE register and memory.  `CSemantics`
has the type, the value and the effects by C's rules.  A type of 1, 2, 4 or 8
bytes has `Bits[size]` bits, which keep the order of the real widths, and the
registers have halves of such widths.

**BitIntWords, BitInt.**  A word has `2 * H` bits.  `BitIntWords` has the loops
over words as recursive functions, `BitInt` chains operations on an accumulator
whose bits above the width are anything a caller may leave there.  `Arithmetic`
joins it to `Arith` as `Plain` and `Wide`.

**Names.**  A spelling is a sequence of atoms, and a prefix puts its own in
front, so that a prefixed spelling may also be a plain one.  Tables are sets of
entries as the code keeps them; the declarations themselves are in ghosts, and
the properties compare the two.

**InitRules, Initializers.**  `InitRules` is C's rule: a cursor of the current
object that each item moves and each designator sets.  `Initializers` is
`parse.c`: the recursive functions with and without braces, the copies made for
ranges, and the two ways out, assignments for locals and bytes for statics.
An expression is a number; the locals also count how often it is computed.

**Statements.**  A step of the first phase is a statement parsed: `has_label`
and the labels resolved as the parser does it.  Then `codegen.c`'s code of the
function is run in step with plain code that leaves nothing out and has no
peephole pass; `EffectsAreKept` says that both reach the same statements.  A
switch is a set of ranges of its type, merged as `parse.c` merges them.

**InlineAsm.**  A register holds a symbol: which operand, address or
saved register it is.  The body is any that reads its inputs where the
constraints put them, writes outputs, early ones before it has read the inputs,
and destroys what it says it does.  `StatementCode` composes it with
`Statements` as two kinds of program.

## 3. Runs

| run | states | what it shows |
|---|---|---|
| `tmpstack` | 630,000 | `TempsSurvive`: nothing emitted between push and pop writes the place a value is kept in. `FrameHoldsTemps`: that place is below the locals and above the scratch buffer. `BitintContiguous`: the words of a `_BitInt` come back side by side. `NoReuseIsFresh`: with stack reuse off no place is used twice |
| `hashmap` | 258,000 | `RehashFits`: a rehash makes room enough not to be followed by another. `CallsReturn` (liveness), `IsAMap` (refinement) |
| `driver` | 37,000 | `TmpFilesGone`, `InputsProduced`, `SuccessMeansDone`, `Ends` (liveness) |
| `macro` | 234,000 | `LocksBalanced`: locks nest and none is left. `OwnNameIsInert`: no macro is applied to what came from its body. `TokensAreKept`: no token is given back, or put in a second list, while something refers to it. `Terminates` (liveness) |
| `directives` | 268,000 | `IsConditional` (refinement of C's rule), `GuardedFilesAreEmpty`: reading a guarded file once more would have compiled nothing, `OnceIsOnce` |
| `defer` | 1,318,000 | `ChainIsPending`: what a jump or an end of block undoes is what was reached and not undone. `StackFollowsVlas` |
| `record_calls` | 1,445,000 | members: `FieldsReadBack`, `StoresStayInside`; calls: `ParamsArrive`, `VaArgsArrive`, `InSync`, `StackAligned` |
| `arithmetic` | 49,000 | `TypesAreC`, `FoldIsC`, `CodeIsC` (value and effects, plain and optimized), `BitIntIsC`. A state is an expression, and each property evaluates it |
| `names` | 242,000 | `EntriesAreDeclared`: every entry of a table is of a declaration that belongs there. `LookupIsScoped`: a plain name finds the innermost declaration. `QualifiedIsFound`: what is declared in a prefix is found behind `::` |
| `inits` | 39,000 | `LocalsAreC`, `StaticsAreC`: the leaves are those of C's rule |
| `statements` | 491,000 | functions: `LabelsAreKept`: every label a kept jump goes to is made, once. `EffectsAreKept`. Asm: `OperandsArrive`, `ResultsArrive`, `RegistersKept` |
| `tmpstack_cas` | | violated: section 5, item 1 |

Bounds, and why they are enough:

- `tmpstack`: three open temporaries of four kinds, six scratch registers (the
  real number of general ones; two SSE registers instead of six, so that they
  run out), two words of `_BitInt`, one word of locals.  Depth 3 is the least at which a
  nested use meets a fallback register of an outer one.  The theorems remove
  the bounds.
- `hashmap`: two names with the same hash, two values, a first table of four
  instead of sixteen; the table is doubled and purged.  The theorems remove the
  bounds.
- `driver`: up to three inputs, which is the least where an earlier object, the
  failing input and a later one differ.  The theorems remove the bound.
- `macro`: macros with at most one parameter, bodies of up to four tokens,
  inputs of up to five.  All bodies that name themselves, each other, or an
  unfinished call are among them.
  `MaxTokens` bounds the tokens an expansion makes:
  one that needs more stops without ending, so `Terminates` also says that the
  bound is never met.
- `directives`: sources of up to five directive lines and one of text; a header
  of up to five lines, included twice and possibly from itself, up to
  `MaxIncludes` readings.  Five lines are `#if #elif #else #endif` and one more,
  or two nested groups.  The theorems remove the bounds.
- `defer`: four statements, in four mixes of kinds (loops, branches with labels
  as values, VLAs, switches), because all kinds together explode.  Four is enough
  for a jump over a scope with something to undo, inside a loop.
- `record_calls`: up to three members out of thirteen declarators, no packing and
  `#pragma pack(2)`; records of up to 8 bytes are accessed.  Calls of up to three
  arguments among the record, `int`, `double` and `long double`, with two
  registers of each kind so that they run out in every order.
- `arithmetic`: sizes 1, 2, 4 and 8 have 3, 4, 5 and 8 bits, so that shifts by
  more than a type, the ends of a type and constants that fit one half of a
  register all occur; every expression of one operator over ten types and of two
  over `DeepTypes`.  `_BitInt`s of 2, 5, 6, 7 and 13 bits in words of six: less
  than half a word, just less than a word, a word, just more, and three words.
- `names`: two spellings of which the second begins with the prefix of `A`; two
  prefixes beside or inside each other; two declarations, three levels of scope.
  Two are needed for one to hide or redeclare the other, in each order.
- `inits`: three items, six types of which each nests or overlays one aggregate
  in another, indices 0 and 1.  Three items are: initialise, return, continue.
- `statements`: functions of up to four statements in six mixes (`MCStatementCode`),
  switches of up to three case ranges with the limits of their types, where
  sizes 1, 2, 4, 8 have 2, 3, 4, 6 bits.  Asm statements of up to four operands
  in five mixes; seven general registers instead of fifteen, two SSE and two
  x87 ones, so that allocation runs out.

`KnownFaults`, a constant of `Arith`/`BitInt`, `Names`, `Initializers` and
`InlineAsm`, names faults of the code (section 5).  The code is modelled with
them, and an input that would show one of those listed is left out of the run;
with a name removed from the set, TLC shows the violation.

Deadlock is checked for `tmpstack` and `hashmap`, which never stop.  The others
model programs that end and say `CHECK_DEADLOCK FALSE`.

Fairness.  `HashMap`: weak fairness of a step, since a C function runs on.
`Driver`: weak fairness of a step of the driver or its child, since the
scheduler runs both and compiler, assembler and linker end; which way they end
is free.  `MacroExpand`: weak fairness of the loop.  Nothing else assumes
fairness.

Each property has a mutant in its module: the same definition with a plausible
slip, for which TLC finds the property violated under the same configuration.

## 4. Proofs

Everything below holds for every value of the constants.

**TmpStackProofs** proves the type invariant and the four safety properties of
`TmpStack`.  They are not inductive: at a pop one must know that the depths kept
in the open slots bound everything emitted since each push.  Between steps only
something weaker holds, because a slot hears of nested temporaries only when
the slot directly above it is popped: *some slot at or above it* has the bound.
`GpCovered`, `FpCovered` and `StCovered` say so for the three kinds of places;
`Spilled` says why a value loaded into a fallback register cannot hit an outer
temporary; `BitWords` and `JobOK` why the words of a `_BitInt` lie side by side.

**HashMapProofs** proves the type invariant and that `HashMap` implements
`AbstractMap`.  The invariant says that each stored name is at some distance
from its hash with no unused bucket before (`Reached`), that the current probe
has met neither an unused bucket nor its name (`Probed`), so a probe that ends
at an unused bucket proves absence, and that during a rehash the new table
holds exactly the entries already passed (`Copied`).

Its second part proves `RehashFits`: a table is never full, which is what ends
probes.  An insertion starts only below the high watermark, a rehash makes the
table so large that the live names are below the low one, and each name it
copies takes a bucket of its own (`Room`, `Passed`); that one bucket then
remains needs tables of at least four, which `MapConstants` says of `INIT_SIZE`.

**RecordCallsProofs** proves the type invariant, `InSync`, `ParamsArrive` and
`LoadedStay` of `Calls`.  What arrives depends on the totals `calling_convention`
had before each argument, which neither side keeps.  The invariant asserts that
a sequence of totals exists (`Chain`) from which all places follow, that each
loop stands at one of them (`Counting`), and that the registers used so far are
those totals cut at the number of registers (`Used`).  Loaded words are then at
the registers counted before them (`InRegs`), which later arguments cannot
reach since totals never fall.  The theorems assume `NoRedeclaration`: no
callee is redeclared as weak between the parsing of a call and its generation;
with `"redeclared"` in `Shapes`, TLC refutes `InSync`.

Its second part proves the other two properties of `Calls`, `StackAligned`
and `VaArgsArrive`.  They need `AlignsNest`, a hypothesis about the argument
types of a program: an alignment above one eightbyte is even and a multiple of
each smaller one, as powers of two are.  Then the alignment of the whole
argument area serves every argument in it (`Based`), the stack pointer is at a
known distance from where it was (`Reserved`), and the addresses `va_arg` rounds
up are the offsets the caller rounded up (`VaHeld`): both count from a multiple
of the greatest alignment.

Its third part proves `FieldsReadBack` and `StoresStayInside`, for records of any
number of members.  Two invariants carry them.  `Layout`: the members of a struct
lie behind one another, and all that is accessed of a named member, which for a
bit-field is an integer or some bytes larger than the field, ends inside the
record.  The second is true at the end only, as the integer of a field may reach
beyond what is declared so far; until then it begins inside and is as aligned as
the record will be (`InUnit`), so rounding up the size takes it in.  `Contents`: a
member that was written still has each bit it was given, because a store
changes the bits of its member and no others (`StoredIs`), and the static writer,
which ors each member into a buffer of zeros, never meets a bit that is set.  Both
assume `NarrowFields`, which leaves out items 2 and 7 of section 5: fields of 64
bits, and packed fields as wide as their type.  The run leaves them out too.

Its last part proves that all five invariants about calls and `LoadedStay` hold in
the program `RecordCalls` composes, of which the types are not given: one of them
is the record that was declared, with or without faulty fields (`AnyRecs`).  It is
to be shown a type in the sense of `Calls` (`ThisRecordIs`), for which the recursive
function of `get_class` is followed through the leaves of the record, and that its
alignment nests with those of the scalars (`RecordNests`), so `AlignsNest` is no
hypothesis here.

**DriverProofs** proves `TmpFilesGone`, `SuccessMeansDone` and `InputsProduced`
for any number of inputs.  Whether everything was made is known at the end only
because each temporary file is either done or named by a command that has not
ended (`Accounted`), the file that command reads is there (`Staged`), and no
command writes to a file that was handed to the linker (`Objects`).  None of
this survives a failing child, and none is needed then, since the driver only
leaves.

**DirectivesProofs** proves, for every set of files, that `Directives` implements
`Conditionals` (`IsConditional`), `OnceIsOnce`, and `GuardedFilesAreEmpty`.  The
first needs that a group outside of a skipped part has had its turn or is in its
`#else` (`TakenOrElse`), and that nothing is counted outside of `skip_cond_incl`
(`SkipState`).  The second needs to know where lines of a file can be before its
`#pragma once` is met: nowhere, or in front of all else beginning with the pragma
(`Ready`).  The third assumes `FilesAreWhole`, what C's grammar requires and without
which it is false (item 19 of section 5); its invariant gives each reading of a file
the number of groups that were open when it began, says with it how many are open
at every line still to come (`Queued`), and that since the first line of a file
opened what may be its guard, every line read was inside of that group and began no
other part of it (`Openers`).  What the recursive function of `CompilesNothing` then
computes of the file follows by induction over its lines.

**DeferFlowProofs** proves the type invariant, `ChainIsPending` and
`StackFollowsVlas` of `DeferFlow`, for functions of any number of statements and any
nesting.  Neither is inductive, as the run says nothing of instructions it has
not reached.  What is proved of the parser is that its notes agree with each
other: an instruction that goes on leaves pending what the next one was parsed
with (`Connected`), unless execution cannot arrive there (`Cut`), as the parser's
chain behind a jump is that of nobody; and a jump undoes down to the chain of
the label it goes to (`Kept`).  While a statement is open its labels do not exist
yet, and jumps to them are only promises: the invariant says, for each kind of
open statement, which labels it still owes, with which chain, and that nothing
else is owed.  Running the code then keeps `pending` equal to the notes, and the
stack pointer follows as it moves only with them.  The theorems assume
`CasesOutsideLoops`: functions with both a loop and a switch with cases have nothing
to undo.  Without it a case in a loop jumps into a scope (item 10 of section 5).

**MacroExpandProofs** proves the type invariant, `LocksBalanced`, `OwnNameIsInert`
and `TokensAreKept` of `MacroExpand`, for programs of any size.  A token from the body
of the macro it names is live while it is not marked.  Live tokens are only in the
result of a call under way, where they name its macro, and in lists that a loop is
still to read, each in front of the stop token of a lock of that macro
(`Covered`).  The end of a call moves tokens from the first place to the second as
it pushes the lock; arguments are marked while that lock is still there
(`ArgumentsAreQuiet`).  Locks nest (`Nested`), since no macro of a call under way
is locked (`Unlocked`), and a loop has none at or behind its token (`Ahead`): at its
end there is none of its own.  What the loops of `pop_macro_lock_until` and
`insert_funclike` leave is proved of the model's recursive functions by induction on
a bounded index (`Recursion`, `Induct`), which needs no operator as a parameter.

For `TokensAreKept` the invariant (`Alloc`) says where in the list of what is
allocated each list of tokens is.  Ids rise, so when a call ends and gives back what
comes after its `free_alloc_end`, it reaches nothing outside of the call: the lists
of the loop the call is in, and of every loop and call around it, refer to nothing
later (`Upto`), and what is inside of the call was made later (`CallLives`).  These
ranges also keep the lists apart, but for what a loop over an argument has put out
and the call it is in, of which the invariant says so (`Between`).  What the call
inserts moves out of the range of the call, and stands for a token that is before it
(`Stays`, `InsertedIds`).  The text gives back the tokens of a call it has read
before the call ends; no token of the text stands for one of these (`Text`), and
the latest token is not one of them (`FreedFacts`), so the end of the call still
finds where to stop.

The theorems assume `DefinedIsWhole`: where a replacement makes a `defined`, which C
leaves undefined, its operand does not reach past that replacement (item 16 of
section 5).  It holds in every program of the run.

**NamesProofs** proves the type invariant and the three properties of `Names`,
`EntriesAreDeclared`, `LookupIsScoped` and `QualifiedIsFound`, for every set of
spellings, prefixes, paths and aliases, and every depth of blocks and prefix
scopes.  A lookup returns the first entry of a name, so the invariant
speaks of every entry: what it names is in the file scope under the name with
the prefix in front (`Agree`), and none that a lookup finds is unset (`AllSet`).
A declaration makes lists of entries longer at their ends only, with entries
that all have the full name it binds (`Grown`), which is what captures and
`_Apply` have in common; what was found before is then found after (`Stays`).
Blocks hold what they declared under the names as written (`BlocksHold`).  That
a written path leads to its prefix is not changed by new prefixes, which come
behind all others (`WrittenLeads`, `Extends`).  An access is searched for from the
innermost place out, and goes back when it does not lead on; that it takes the
straight way when there is one is `StraightOn`, by induction on the length of the
path.  The theorems assume `FaultsLeftOut`, that programs with the faults of item 8
of section 5 are left out; the run does so too, and with one of them removed
TLC refutes a property.

Assumptions: the ASSUMEs of the modules (numbers of registers, sizes, the hash
a function into the naturals, watermarks that leave room, files that exist, names
that are text and bodies without a `##` at either end, paths that have a name)
and the seven hypotheses named above.  TLC evaluates the former in every run.
Those of `Records` say what `struct_members` is given: a bit-field has the type of a
register, whose size is its alignment, and fits into it (`DeclAssumption`, C's rule
for widths); the alignments of types, of `_Alignas` and of `#pragma pack` are powers
of two, as `align_expr` checks for the latter two, of which only the multiples are
used (`AlignAssumption`, `PackAssumption`).  `ScalarAssumption`: no scalar is aligned
to more than 16 bytes.

Only model-checked: `Arith`, `BitInt`, `Initializers`, `Statements`, whose operators
recur over trees and words, and `InlineAsm`, whose invariant would be long and is not
written.  Liveness (`CallsReturn`, `Ends`, `Terminates`) and ENABLED, what recursive
definitions compute for every input, and RECURSIVE operators are outside of what the
prover does; the modules that declare such operators say so by having no theorem.

## 5. Disagreements

Each was met while modelling and reproduced with the compiler.  The first is a
run of its own; items with a name in quotation marks can be seen by removing it
from `KnownFaults`.

Code generator:

1. `tmpstack_cas` (`codegen.c:2593`): in a compare-and-swap whose expected
   operand contains a call and whose new value needs a register, both pointers
   come back in `%rsi`.
2. `codegen.c:898`: a packed field as wide as its type that shares its integer
   is not shifted into place.  `codegen.c:931`: a store to a field rewrites
   neighbouring members.
3. `codegen.c:5219`: the decision about homes changes with a later weak
   redeclaration (constant `Shapes`).  `codegen.c:1967`: stack arguments are lost
   when a later argument moves the stack pointer, as `f(big, alloca(64))`.
   `codegen.c:1636`: an empty record as a variadic argument meets an assertion.
4. "not-nan" (`codegen.c:3632`): `!(a < b)` is compiled as `a >= b`, which differs
   when one is not a number.

Constants and wide integers:

5. "half-min-div" (`parse.c:3950`): a 64-bit division of -2^31 by -1 folds to -2^31,
   the answer for 32 bits.
6. "narrow-bitint-div" (`bitint.c:285`): the divisor is not shifted to the top of its
   32 bits when the shift is as wide as a narrow `_BitInt`, and the division is
   wrong.  "bitint-field-load" (`bitint.c:179`): the load of a `_BitInt` field that
   ends above the width of its type shifts by a negative count.  A packed field
   across two words (`bitint.c:184`) destroys its neighbours.
7. `parse.c:2993`: the mask of a static 64-bit field is `1L << 64`; it is written
   as 0.

Names:

8. "unset-entry" (`parse.c:1030`): a redeclaration under a prefix enters a
   variable that was never set.  "block-prefix" (`parse.c:2136`, `5971`): local
   enumeration constants and typedefs inside `_Apply` get the prefix.
   "tag-unprefixed" (`parse.c:690`): tags are looked for without it.
   "missing-parent": `_Nameprefix X::B = "b_"` with `X` unknown declares `B`.
   "global-child": a prefix declared as `_Global::C` is not found again, and
   may be declared with another text.

Initializers:

9. "stale-list" (`parse.c:961`): `{[0] = {1, 2}, [0] = {3}}` keeps the 2.
   "range-copy" (`parse.c:2537`): `{[0 ... 1] = {1, 2}, [0][1] = 5}` in a local array
   zeroes the rest.  "range-tail": `[0 ... 2][0] = 7, 8` continues in every element.
   "text-dropped": `{.a = "ab", .a[0] = 'c'}` drops the rest of the string.

Statements:

10. `parse.c:3279`: a case label in a loop in its switch may enter the scope of a
    defer; `DeferFlow`'s switch mix has no loops.
11. `parse.c:4922`: `&&label` is rejected as an illegal jump where the label has
    something to undo (modelled: such functions are rejected).
12. A case range of negative values in a switch over `unsigned char` is compared in
    that type, and rejected as empty.

Inline assembly:

13. "goto-restore" (`codegen.c:4647`): an `asm goto` without outputs jumps straight
    to its label, past the restoring of frame pointers and saved registers.
    "goto-tmp" (`4786`): with only variables as outputs, no register is set for
    the jump.
14. "field-tmp" (`4271`): a bit-field output followed by another that needs a
    register leaves the second register unset.  "plus-field" (`4414`) reads the
    whole unit of a bit-field.  "flag-field" (`4516`) overwrites its neighbours.

Preprocessor and driver:

15. `main.c:1000`: `slimcc a.S` makes no executable, because compiling in the
    driver's process leaves `opt_E` set (the model has `opt_E`, and no property
    that forbids this).
16. `preprocess.c:380`: `#define D defined` and `#if D X` end in an internal error, as
    the lock of `D` stops at a token that is stepped over; `LocksBalanced` is stated
    for programs without it.
17. `preprocess.c:227`: skipping a group cuts what it skipped out of the list of
    allocated tokens, as if that had been allocated in one go.  A group opened in
    a header and closed in the file that includes it is accepted, and the list then
    holds tokens that were given back; an address sanitizer reports their use at
    `preprocess.c:2154`.  (Not modelled: `MacroExpand` has no directives.)
18. `preprocess.c:783`: `cat(,cat(,1))` loses a placemarker.
19. `preprocess.c:1487`: an `#endif` in a header that ends a group of the file that
    includes it is accepted, and then the last `#endif` of that file is taken to end
    the `#ifndef` of its first line when it does not: the file is remembered as
    guarded, and a second inclusion says nothing of the group it leaves open.
    `GuardedFilesAreEmpty` is proved for files whose groups are whole.

## 6. Not modelled, and why

Not at all:

- Tokenizer, Unicode tables, platform lists, shipped headers, string helpers and
  `cgs.c`: functions of their input, lists, or a library of which little is used,
  without steps to interleave.
- Arenas: objects of a few fixed sizes that are given back all at once.
- The remaining directives (`#embed`, `#line`, `_Pragma`, ...), attributes on
  tokens, joining of strings, printing of preprocessed text: one pass each.
- Emission of data and the choice of the static definitions that are emitted.
- The command line, dependency files.

Of the parts that are modelled:

- `TmpStack`: the popping of argument registers one at a time.  `Driver`: the
  driver itself killed by a signal, and two of `-c -S -E -M` together.
- `MacroExpand`: `#`, `__VA_OPT__`, `__VA_TAIL__`, several parameters; tokens given
  back by skipped groups, pragmas and attributes, and by the parser.
- `DeferFlow`, `Statements`: the bodies of defer statements, `goto *`, local labels,
  named loops, naked functions.
- `Records`: alignment of the record itself, anonymous nested members, `_BitInt`
  fields (which are in `BitInt`), flexible arrays, and packed fields as wide as
  their type.  `Calls`: records returned in registers, and arguments whose
  evaluation moves the stack pointer.
- `Exprs`, `ExprCode`: pointers, members, calls, atomics, generic selection,
  `constexpr` objects, x87 and the difference between `float` and `double`; there
  is one floating type, which holds small integers and NaN.
- `Names`: what is declared (types, values, linkage); only where it is found.
- `Initializers`: flexible arrays, anonymous members, relocations.
- `InlineAsm`: the text of the body, the sizes of operands.

## 7. Plan

Done, the most important behaviour first: what the compiled program does with
values (`TmpStack`, `Calls`, `Records`, `DeferFlow`), what is compiled
(`MacroExpand`, `Directives`), the tables and the driver below and above
(`HashMap`, `Driver`), then statements at compile time and inline assembly
(`StatementCode`), names (`Names`), types, constants, expressions and wide
integers (`Arithmetic`), initializers, the memory of tokens (`MacroExpand`), and the proofs of section 4.

Left, each to be joined to a run that exists:

1. `#`, `__VA_OPT__` and several parameters in `MacroExpand`; the tokens that
   directives give back.
2. Arguments that move the stack pointer, in `Calls`.
3. The worklist that decides which static definitions are emitted.
4. Proofs for `InlineAsm`.
