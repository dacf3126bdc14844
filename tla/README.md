# micro-talk in TLA+

micro-talk is a small language system: a stack virtual machine in C++, a parser
and compiler from a Lisp dialect to its bytecode, a REPL that compiles and runs
one expression after another in the same machine, a transpiler from the same
Lisp to C++, and a Smalltalk runtime and compiler written in that Lisp. This directory holds TLA+ models of its parts, the TLC
configurations that check them on small instances, and proofs that TLAPS checks.
Paths below are relative to the repository's root, which the models call `src/`.

## 1. Inventory

| Component | Source | State it keeps | Operations | What makes it correct |
|---|---|---|---|---|
| **StackVM** | `src/stack_vm.hpp`, `vm_checks.hpp`, `memory_layout.hpp`, `opcodes.hpp` | one flat memory for code, globals, heap and stack; `ip sp bp hp`; run state, limit counters; interrupt flag and handler table | 46 instructions, `execute`, `load_program`, `reset`, `set_ip`, `read/write_memory`, `stack_pop`, `checkpoint`, `restore` | stack bounds, fetches and unchecked copies in memory, code protected, callers' frames kept, `execute` returns |
| **InterruptHandling** | `src/interrupt.hpp` | per-signal counters and one event counter, static: shared by every machine | the signal handler, `has_event`, `get_count`, `consumme`, `clear` | no signal lost or delivered twice; the event counter never disagrees with the per-signal counters |
| **LispParser** | `src/lisp_parser.hpp` | position in the text | `parse`, `parse_all` | it comes to an end on every text, reads what is written there, in any radix and layout, and refuses what is not well written |
| **LispCompiler** | `src/lisp_compiler.hpp` | scopes, functions, labels, interrupts, string table, allocators | `compile`, `compile_as_function`, `import_symbols`, `write_strings_to_memory` | compiled code computes what the expression means; frames and addresses do not collide |
| **SymbolTable** | `src/symbol_table.hpp` | name → kind, address, parameters; insertion order | define, lookup, merge, clear | a name has one meaning; merging loses nothing newer |
| **REPL** | `src/main.cpp`, `src/eval_context.hpp`, `src/compiled_program.hpp` | a machine, a symbol table, three allocators (variables, strings, code) | `compile_and_execute`, `compile_code_for_call` (nested, from `EVAL` and `COMPILE`), `:set`, `:eval`, `:reset` | live code, literals and variables never overlap; what a session defined stays defined |
| **Microcode** | `src/microcode.hpp` | custom opcode table | `define` | opcodes it hands out can be executed |
| **VM exceptions** | `src/vm_exception.hpp` | none | construct, format | none: messages only |
| **Disassembler** | `src/disassembler.hpp` | none | decode | operand counts agree with the machine |
| **Lisp-to-C++ transpiler** | `src/lisp_to_cpp.hpp`, `src/transpile_tokenizer.cpp`, generated `src/tokenizer_main.cpp` | scopes, function signatures, type mappings, counters for names | `compile`, the tool around it | what it writes is C++, has defined behaviour, and prints what the machine computes |
| **Smalltalk runtime** | `lisp/smalltalk/00-runtime.lisp` … `03-methods.lisp`, `07-bootstrap.lisp` | heap pointer, symbol tables, classes, method dictionaries, inline caches, contexts, all in the machine's globals and heap | allocate, intern, look up a method, send | objects do not overlap; equal selectors have equal IDs; a send finds the method the class hierarchy gives |
| **Smalltalk compiler** | `lisp/smalltalk/04-tokenizer.lisp` … `06-compiler.lisp` | token and tree arrays, the position in each, a buffer of bytecode, the selector of each kind of message | `tokenize`, `parse-st`, `compile-st-expr`, `compile-smalltalk` | messages have the precedence of Smalltalk; a message is sent with the selector that was written |

The Smalltalk files that are concatenated into `lisp/smalltalk.lisp` and
`lisp/smalltalk/bootstrap.lisp` are generated. `src/smalltalk.cpp` is a driver.

### How they interact

The REPL owns a machine and a symbol table. It gives the compiler the symbols and
the three allocators' values, loads the program the compiler returns at
`next_code_address`, points the machine at it and calls `execute`. While the
program runs, an `EVAL` or `COMPILE` instruction calls back into the REPL
(`EvalContext`), which compiles and loads a second program and updates the same
symbols and allocators; when `execute` returns, the first compiler's copies of
them are written back. POSIX signals interrupt the C++ program at any point; the
handler only counts them. The loop of `execute` reads the counters before each
instruction and calls the handler that the program registered.

### What is hard

* The program under execution is data: it can jump anywhere, change its own
  stack, register any address as a handler, and fail at any of the checks with the
  registers half updated. The host goes on using the machine after a failure.
* Signals arrive between any two instructions and interrupt calls half-way
  through their argument pushes.
* The checks are not uniform: `CALL` copies its arguments without one, `FUNCALL`
  and the delivery of signals jump without one.
* Nested compilation: what one compiler read from the session is stale by the
  time it is written back.
* A snapshot holds a part of the machine; whatever is not in it is as a later
  execution left it when the snapshot is put back.
* The transpiler turns expressions into C++ expressions and hoists what is a
  statement in C++ before them: the order of effects changes where nobody looks.
* Variables of a `let` inside of a Lisp function are words of the globals, so a
  function that calls itself shares them with its callers: `compile-st-expr` does.
* Nothing is ever freed, several tables have a fixed capacity, and some
  give no error when full.
* An execution is stopped after 1000000 instructions wherever it is, and the
  next expression goes on with the half-made stores of the Smalltalk runtime.

There are no threads: the only asynchrony is that of signals.

## 2. Plan

The order is that of importance: everything runs on the machine, everything a
user types goes through the session, the transpiler must agree with both, and the
Smalltalk image is the largest program that the repository itself runs on them.

| | Modules | Composition |
|---|---|---|
| 1 | `MachineWord`, `Opcodes`, `StackVM`, `StackVM_proofs` | the machine, its host, its signals |
| 2 | `SignalCounts`, `InterruptHandling`, `InterruptHandling_proofs` | the counters under the machine; both implement `SignalCounts` |
| 3 | `Checkpoint`, `Checkpoint_proofs` | `checkpoint()` and `restore()` around `StackVM` |
| 4 | `SymbolTable`, `ReplSession`, `ReplSession_proofs` | what a session keeps, over any expressions |
| 5 | `LispCompiler`, `LispMeaning`, `LispSession` | compiler, machine and session together, against a meaning |
| 6 | `LispParser`, `Places`, `LispText`, `LispReader`, `LispReader_proofs` | from the characters of a text to trees, against what a text says |
| 7 | `LispToCpp`, `CppProgram`, `TranspileTool` | on to what the program built from a file prints, against the meaning of its expression |
| 8 | `Image`, `SelectorTable`, `MethodLookup`, `CallStack`, `SmalltalkRuntime`, `SmalltalkRuntime_proofs` | the objects of the Smalltalk runtime, in use by expressions |
| 9 | `SmalltalkParser`, `SmalltalkMessages`, `SmalltalkMessages_proofs`, `SmalltalkCompiler`, `SmalltalkImage`, `SmalltalkImage_proofs` | the compiler of Smalltalk, interning in that image as it goes, against a grammar |

Abstract specifications: `SignalCounts` (what delivering signals promises),
`CallStack` (what contexts promise), `LispMeaning` (what expressions mean, to the
machine and to C++), `LispText` (what a text of Lisp says), `SmalltalkMessages` (what a text of Smalltalk sends).

## 3. The modules and the code

A definition has the name of what it models where there is one, and `map` in
`PROJECT.json` gives the lines of each. A definition whose comment begins with
"Fault" is not part of the specification: it is a mutation that shows that a
property depends on the definition below it.

**`MachineWord`, `Opcodes`.** The arithmetic of 64-bit words and their parts,
with the number of bits a constant; opcodes and how many operands each has.

**`StackVM`.** The variables are the fields of the class `StackVM`, with the
memory as one function, plus `phase` (is the host in control, is `execute()`
before its loop test, or before a fetch), `exception` (what the last call threw)
and `signal_count`, the part of `interrupt.hpp` that the loop reads. Every
instruction is an action; each of its checks is a way out that leaves registers
and memory as the C++ code has them at the throw, so a `CALL` may push some of
its arguments and then fail. `TurnQuietly`, `Interrupt` and `Return` are the loop
test. The host's calls are `LoadProgram`, `Reset`, `SetIp`, `WriteMemory`,
`StackPop` and `Execute`. `CompileString` stands for `EvalContext` with an
arbitrary result; `ExternalResults` for what system calls return. The model is of
the build that defines the bounds checks. A string whose length word leads out of
memory makes the C++ code read beyond its mapping: that is the phase `wild`, of
which nothing more is said. `C_CALL` takes a buffer of the size that the program asks for
and may get none: that ends an execution as its other errors do.

**`InterruptHandling`.** One step for each atomic operation of the handler, of
`consumme()` and of `clear()`, of the search for a signal in `execute()`, and for
the kernel that keeps one waiting signal of each number. The handler runs between
any two steps. `consumed`, `cleared`, `merged` and `sent` are history. The weak
compare-and-exchange may fail spuriously; that changes nothing and is left out.

**`SymbolTable`, `ReplSession`.** `REPLState`, with an expression reduced to what
it adds to a session: globals, functions, variables of lets, and literals, the code
and the literals one word each. `Submit` is `compile_and_execute()` up to the
execution, `EvalString` is `compile_code_for_call()` during one, `Finish` and
`Fail` are its end. `outer` is the compiler that waits: its copies of the
allocators are what `Finish` writes back. `units` and `kept` are history.

**`LispCompiler`.** `LispCompiler` as functions from a compiler's state and a tree
to the next state, one for each form. A form that the code refuses sets
`refused`. Trees are tuples, as `LispMeaning` and `TranspileTool` have them too, and malformed
lists do not occur.

**`LispMeaning`.** The reference: an interpreter with environments and locations,
which knows no code, stack or addresses. It is written from the forms' intent:
lexical scopes, a fresh location for each binding.

**`LispSession`.** The two and `StackVM` together, as `main.cpp` composes them; a
`script` is what a user types. Each expression is compiled when it is submitted,
executed instruction by instruction, and its meaning is computed beside it.

**`Checkpoint`.** `StackVM` with `checkpoint()` and `restore()`, which the host calls when it
has control. A snapshot has the fields of `VMSnapshot`. The flag and counters of the
instruction limit, the signals that are noted, the evaluation context and what the
session knows of the code are not in it, so `docs/CHECKPOINT.md:80` ("exactly as it
was") holds for what `execute()` depends on, given the same limit and the same signals.
`follows`, `given` and `outcomes` are history: each execution that starts in the state of
the snapshot, what it was given, and how it ended. Executions that ask the outside
(`C_CALL`, `EVAL`, `COMPILE`), or that shift a word by 64 bits or more, which C++ leaves undefined, are not compared. Only tests call these two functions.

**`LispParser`.** Characters to trees, one `Parse` of an expression and one of all of a text (`ParseAll`).
The member functions call each other, and the loops of strings, lists and blanks go on until something ends
them: here each is a function of the position, and `ParseExpr` a sequence of functions, the `n`-th of which reads what
has lists in at most `n` lists. Since every list takes a character, as many as the text has are enough; so no operator is
recursive. A reading that throws is `Thrown`. Numbers have a magnitude and a sign, as the code reads them, so the least
of all numbers cannot be written. A `;` inside of a symbol belongs to it. The character NUL, which the code takes for the end of the
text wherever it stands, does not occur in texts.

**`LispText`, `Places`.** The reference: what a text says, from above. A text comes with the places of its words
and with how many lists are open behind each; between the words there are blanks and comments only (`IsGap`), and each word is one by
rules about its characters (`IsWord`): a string goes up to the first quote that is not escaped, an escape being
a character behind an odd number of backslashes; a symbol up to the next delimiter. An item's tree is made of the items between
its parenthesis and the one that closes it (`Match`), which the counts of open lists give, not a scan. `IsRefused` and `AllRefused` say which
texts have no tree. `IsText` refuses no text: it says that the places given are those of its words, which every sequence of characters has, in
one way only (`EveryTextHasPlaces`, `CharactersSayPlaces`).

**`LispReader`.** A file is read and its first expression parsed, as `transpile_tokenizer.cpp` begins.

**`LispToCpp`.** The transpiler as functions from its state and a tree to the next state, one
for each form. The C++ is kept as statements and expressions, not as characters, except
for names, whose characters `sanitize_name` changes.

**`CppProgram`.** What C++17 makes of these statements; it models no file of the repository. `WellFormed` says
what a compiler refuses (declarations in scope, types, jumps over initialisations), `Printed`
what the program prints, or that its behaviour is undefined: division by zero, overflow,
shifts, indices, values read before they are given. Where C++ converts, so does the model: an
`int64_t` initialises a struct of one field, is assigned to a string as a character, and the literal `0`
makes a string from a null pointer, which is undefined; a call takes the function whose parameters fit
best. A variable hides a struct of its name, and structs `s` and `S` have one C++ name (`struct_type_name`). The order of evaluation inside of an
expression is one that C++ allows; the transpiler hoists everything that could tell.

**`TranspileTool`.** `transpile_tokenizer.cpp`, and the building and running of its output: `LispReader`, and what follows
on it. Each of its steps is one of `LispReader` or leaves the file and its tree alone.

**`Image`, `SelectorTable`, `MethodLookup`, `SmalltalkRuntime`.** The Smalltalk
runtime is Lisp code that the machine executes. Its objects are functions from
the numbers of words to values, and a call is the sequence of its stores, computed
when it begins: nothing else runs until it ends, so what it reads cannot change
on the way. `Stop` ends it between any two stores, which is what the instruction
limit of `main.cpp` does. Hash tables are probed word by word. `possible`, `found`,
`torn` and `interned` are history. A string is its characters and the word that lies
behind them (`chars`, `behind`), since `string-equal-addr` may look at that word; a literal of the
host's program and a string that `compile-st-expr` cuts out of its source differ in it. Arguments,
program counters and headers of
objects are left out; `MessageSend` without a method, which prints and answers
NULL, is no step. `SymbolHashLookup`, `MethodDictLookup` and the like are each a
case of one search and one insertion (`Find`, `Add`).

**`SmalltalkParser`, `SmalltalkCompiler`, `SmalltalkImage`.** A text is a sequence of words with the
blanks between them; tokens and trees have positions in it. `compile-st-expr` walks a tree and does two things: it
emits instructions and it interns selectors. `todo` is the list of these in the order of the code,
and each interning is a call in the image, store by store, that `StopCompilation` may end. The
variables that hold a selector between its interning and its instruction are one for
each kind of message, as the Lisp compiler allocates them: words of the globals.
Branches that no tree reaches (the operators in `intern-identifier-at-pos`) are left out, and so are
the numbers that `06-compiler.lisp` has for opcodes, some of which are not those of
`opcodes.hpp`: nothing executes this bytecode. `lookup-method-addr`, which a program sets after the library is loaded (the
tests do), is a constant. An array of keyword parts has 16 words; texts have fewer parts.

**`SmalltalkMessages`.** The reference: a text's longest message by the precedence that Smalltalk
gives unary, binary and keyword messages, and the sends of a message in the order of their evaluation. It knows no
tokens, positions in trees, or tables. A text is `WellWritten` when its words can be told apart (no name directly
behind a name, and so on) and when it has at most `KEYWORD_ROOM` keywords: `05-parser.lisp` keeps keywords and arguments in
two arrays that it asks `malloc` for 10 words for, which `00-runtime.lisp:126-129` makes 16, and nothing counts them.

## 4. The runs

Bounds are constants of the `.cfg` files and of the MC modules.

| Run | What it checks | Bounds, and why they are enough |
|---|---|---|
| `vm_instructions` | every instruction after every prefix that leaves 0, 2 or more words, values on both sides of each check, string services and system calls: stack bounds, argument copies, code protection, callers' words | 6-bit words, 2 bytes each, 14 words of code, a stack of 7 words: every check has operands that pass it, that miss it by one, and that miss it by far; one execution of 9 instructions is longer than any of the programs |
| `vm_host` | a host that calls in any order, programs with handlers, signals at any time, snapshots taken and put back: the same properties over sequences of calls, `execute()` coming back, signals served once, and executions from a snapshot that end as the first did | 3 calls suffice for load, fail, and go on; 2 signals, one uncounted at a time, so that one arrives while the other is served; limits 2 and 10 stop inside and after a handler; one snapshot, taken anywhere, and one return to it, after an execution and before another |
| `interrupts` | counters, handler and `clear()` interleaved: nothing lost or served twice, the event counter agrees, `consumme()` ends | 2 machines, 2 signals, each sent twice: a signal can arrive while the same or the other one is looked at, consumed or cleared |
| `repl` | sessions that submit, evaluate, fail and reset: code kept, functions resolve, names kept; as long as no evaluated string adds to them, variables and literals apart, latest definition wins | 5 units, 11 words of code, so that the last does not fit; expressions and strings that define, redefine, bind and have literals |
| `repl_variables`, `repl_literals` | two promises that nested definitions break | 3 units: one that evaluates, one evaluated, one after |
| `lisp_programs` | about 900 sessions: the machine computes the meaning, globals keep their values, control stays in compiled code | 10-bit words; all operators on words around zero and the sign; then 3 definitions, each form of expression, and up to two more expressions that see what it left |
| `lisp_handlers`, `lisp_parameters` | two promises that the compiler breaks | one session each |
| `smalltalk_image` | selectors, dictionaries, cache and contexts, stopped between any two stores; and texts compiled in a new image, each up to its code | a blank image and a bootstrapped one; 5 calls (3 after the bootstrap), one of them stopped; 4 literals, two of them of equal names, and a text that interns between them; 3 hash buckets for 4 symbols so that the hash table fills before the table of symbols; 2 classes, 2 buckets for 3 selectors so that a dictionary fills; texts of all kinds of words up to 5, in three spacings, and longer ones in which each kind of message is nested in each: 4,088. These start where the bound on calls is reached, and only one more (`7 size`) is compiled in a used image and around a stop; `SendsWhatIsWritten` has no such bound |
| `smalltalk_selectors` | a promise about selectors that fails | the same |
| `transpiler` | every form with every small part, operators on words around zero and the sign, functions, strings, lists, structs, clashing names, in three layouts and three radices, texts of up to four parentheses and numbers in any order, and texts cut off anywhere: read as written or refused, built, defined, and printing what the machine computes | 10-bit words, 2 bytes each; about 2,200 files; loops of up to 12 turns, which none of the files exceeds unless it has no end |

`CHECK_DEADLOCK FALSE` is in the runs of the machine, of Lisp sessions, of the image and
of the transpiler, where the bound on host calls, a script, the bound on calls or a
file ends, and the host may stop. `interrupts` and `repl` never stop.

### Fairness

`StackVM` and `Checkpoint`: weak fairness of the machine's own steps (`Execution`, `Run`): the loop of `execute()` runs in the caller's thread
and goes on until it returns or throws; the host and signals are under no
obligation. `InterruptHandling`: `WF_vars(Thread)`: the thread goes on inside an
operation; signals need not come. `LispSession` has weak fairness of the REPL as a
whole, and no property that needs it.

### What was found

* `repl_variables`: a variable defined by an evaluated string gets the address of one
  of the expression that evaluates it: the session's next address advances at the end
  of an execution only, to a value from before.
* `repl_literals`: a literal of an evaluated string overwrites the first literal of
  the program that runs, for the same reason.
* `lisp_handlers`: `define-int` emits the registration of the handler behind the
  handler's `IRET`, where it is never executed.
* `lisp_parameters`: assigning to the first parameter of a function throws: its slot
  is 0, which `BP_STORE` refuses.
* `smalltalk_selectors`: `string-equal-addr` compares one word too many for names whose
  length is a multiple of 8, so equal names get different IDs; so does any name
  when the hash table, smaller than the table of symbols, is full.
* Two flaws of the models, found by proofs that did not go through and repaired: `ReplaysFromSnapshot` compared executions
  that shift by 64 bits or more, whose results C++ does not fix; and `WordType` took a name that ends in a colon for either
  of two types.
* `SendsAsWritten`, of `smalltalk_image`, has two named exceptions, where the code does not do what
  `06-compiler.lisp:62` ("Extract identifier string from source at position and intern it") and
  `:110` ("Build keyword selector from AST") say. `Overrun`: the search for the end of
  a name compares a position with the end of the whole text, so that `7 a b` interns `a b`, and
  `1 x: 2 y: 3` the selector `x: 2 y: 3y: 3`. `onSame`: `1 + 2 * 3` emits `+` twice, because the inner
  send left its selector in the variable of the outer one. Both were seen on the machine itself.
* `transpiler` has named exceptions too, each a condition on the program. Not the same value:
  `Overtaken` (an operand is read after what a later operand assigns), `Redefines` (an inner scope
  defines a name of an outer one), `TakesDefinition` (a definition's value is 0), `OfNegative` (the machine
  divides and shifts without a sign), `NamesApart` (`a-b` and `a_b` are one name in C++). Undefined:
  `SelfInitialised`, `Overflows`. Not C++: `JumpsOver` (a `goto` passes an initialisation in a loop's body),
  `DefinesInBlock`, `SeesGlobals`, `BindsTwice`, and some programs over strings, lists and structs.
  `lisp/smalltalk_tokenizer_ffi.lisp` uses `define`, which the transpiler refuses.

## 5. The proofs

They hold for every value of the constants under the assumptions `WordAssumption`,
`LayoutAssumption`, `HostAssumption`, `RestoreAssumption`, `BoundsAssumption`, `UnitsAssumption`, those of the image's capacities
`TextsAssumption` and `FilesAssumption`, which say
that sizes are natural numbers in the order of `memory_layout.hpp`, that inputs are
words, that a compiler refuses a global defined twice, that tables have room for something, that texts of Smalltalk are
`WellWritten` and their selectors among the image's `Strings`, and that files are texts (`IsText`). TLC evaluates them in the
runs.

**`StackVM_proofs`.** `IInv` is `TypeOK`, `StackBounds`, `FetchInBounds`, and that loaded
code ends within the code segment. `StackBounds` alone is not inductive: a frame
that `LEAVE` unwinds, or the words `CALL` copies, are bounded only because `sp` is
a word of memory, and `FetchInBounds` needs the types of what jumps read. Each
instruction has a lemma with the conclusion `Sound`, that it keeps the memory's and
the stack's part of `IInv`, and most also `CodeKept`; `InstructionKeeps`,
`LoopKeeps` and `HostKeeps` combine them. The same step lemmas give `CodeOnlyGrows`.
`ArgumentCopiesInBounds` uses the conjunct of `LayoutAssumption` that the stack has no more
room than there is above its base: without it the unchecked copies of `CALL` could
leave the memory. `SignalsServedOnce` is a refinement: each step is a step of `SignalCounts`
or leaves its variables unchanged.

`CallersWordsSurvive`, in the same module: a step leaves every word above those its
instruction consumes. Each instruction ends in one of three ways, which `Replace`, `Drop` and
`Reject` name; the calls, which write below the stack pointer, need that their argument counts are words,
which `IInv` gives.

**`InterruptHandling_proofs`.** `IInv` adds to the types and to the two properties that a
machine consumes while it is masked (or the refinement's `open` would be wrong) and
what `clear()` has done so far. `SignalsAccounted` is an equation between the kernel's,
the counters' and the history's numbers that each atomic operation preserves.
`CountersImplement` is the refinement of `SignalCounts` under a mapping that discards
everything when `clear()` has blocked the signals. `EventsAreCounted` is about a sum over all signals, a recursive
function (`Total`): that it has a value, that it is the only one, and that one signal more makes it one more, is
proved with the least signal for which it would not hold, in place of an induction. `SignalTypes` follows, for
`signal_event` stays a natural number only because it is that sum.

**`Checkpoint_proofs`.** `RestorableInv` says of the snapshot what `IInv` says of the machine. It is
inductive because a snapshot is taken where `IInv` holds; `restore()` then establishes `IInv` with
the snapshot's part. A snapshot does not carry `next_code`, so that loaded code may go back to
what it was, by `restore()` only (`CodeGoesBackOnlyByRestore`); and `RestoredServesOnce` has
the refinement of `SignalCounts` go through, because masked signals stay masked with the flag that is restored.

`RestoredReplays` is about pairs of executions. Its core is `ExecutionIsDetermined`: a step of `execute()` is `After`, a
function of the state (memory, registers, flags, handlers, counts, limit), for each of the 46 instructions and each of the ways in
which a check refuses it. Words are given in the model by what their bits are, so that an instruction's result is one
only because bits determine a word (`SameBits`, by doubling the modulus bit after bit), and stores of
bytes and halves likewise (`OneField`); a system call, an evaluated string and an undefined shift have many results,
which is what `AsksOutside` excludes. A state therefore leads to one end (`OneEnd`, over chains of states of any
length), and `ReplayInv` says that each outcome recorded is an end that the snapshot's state leads to, and that
the execution under way is on a chain from there. That the fields of a snapshot and what `execute()` is given make up all of this
state is what the proof shows of `restore()`: the counters and the limit flag that it leaves are set again, or not read.

**`ReplSession_proofs`.** `CodeKept` is inductive with `KeptBelow` (what is kept lies below
the next code address) and `OuterKept` (the running expression is kept).
`FunctionsLead` needs in addition that the functions of the waiting compiler's table
lead to their code, which is what makes its late merge harmless, and assumes
`KindsApart`: a name that is defined as both kinds breaks it. `SessionLiteralsKept` and
`SessionVariablesApart` hold as long as no evaluated string has had literals or variables, which is the
condition that `repl_literals` and `repl_variables` show to be needed: only then are the
allocators that the waiting compiler writes back not behind those of the session.

In the same module, `SessionNamesKept`: a merge never drops a name or changes its kind.
`SessionLatestDefinition`: `LatestKnown` says that the session's table is no older than what it keeps, but for
the expression that runs, and that the waiting compiler's table is no older than all of it; a merge
then takes the later one. An evaluated string that defines a function
breaks the second part, because the waiting compiler has not seen it, and is excluded by the property.

**`SmalltalkRuntime_proofs`.** About `RuntimeSpec`, the calls of expressions: `Storing` says what a store does
to every word, and the lemmas `...Begins` which objects the stores of a call go to. `IDsKeepTheirNames`:
`NamesInv` says how far an interning is (`Counting`, `Hashing`), since its five stores break what
holds between calls: the name is written and counted before the hash table leads to it, and the bucket
is free for searches until the last store, so that a stop anywhere does no harm. That a search ends at a place where it may end
(`SearchEnds`) needs the least of a set of numbers, which the library's theorem about well-founded
relations gives. `CacheServesSearches`: `CacheInv` says that the entry of a site that is not torn is blank, or was
filled by a search, or is being filled. `NamesKeepTheirIDs`: `RoomInv` adds that
the search for a name that does not fill its last word ends at its bucket (`Reaching`), which implies that it is there once; that occupied
buckets have IDs of their own (`IDsApart`), so that a full table means as many IDs as buckets (`FullTable`, the
pigeonhole principle of the library); and that the bucket an interning has chosen stays the one where the search for the name ends
until the last store makes it so (`Vacant`, `RoomFilled`). Interning by the Smalltalk compiler is the same `Interning`: `SmalltalkImage_proofs`
carries these theorems over to the image with its compiler.

In the same module, `LookupsFindNearest`: `DictInv` says that the search for a selector that is in a
dictionary ends at its bucket (`Probing`), which implies that it is there once; that what a dictionary has is what the
history `possible` offers (`Offered`); and how far an installation is (`Adding`): its bucket is the free one at which the search
for its selector ends, so that the last store, `HASH_OCCUPIED`, makes it the end of that search, and takes
from the others only an end they did not reach (`FirstEndStays`). `LookupMethod` and `Nearest` go up the classes by recursive functions:
that these are defined (`Recursion`), and that a lookup finds the nearest, is again shown with a least class,
since a superclass is older than its subclasses. `ContextsAreACallStack` is the refinement of `CallStack`: the context of a
send is no part of the chain until the last store (`Sending`), and the chain from a context depends on older
contexts only (`ChainsAgree`). What it pushes is a method because only methods come into dictionaries (`MethodsKnown`).
`RuntimeTypes`: that IDs stay within the capacity, and superclasses and senders older than what has them, needs what the pending
stores of each kind of call may be (`TypesInv`).

**`LispReader_proofs`.** `FilesReadAsWritten` puts three theorems about the parser into the tool that runs it; they are about every
text, of any length, with any words and however deep its lists. `ParserGoesOn`: what is read ends behind where it began and inside of the
text, because every search does (`Find`, `BehindDigits`, `SkipEnds`), every loop passes at least one character in a turn, and the reading of
a list passes its parenthesis (`ExprEnds`, then `LevelsGoOn` over the depth of lists). This comes first: only because of it the
functions of positions that model the loops are defined (`ReadingsExist`: what stands at a place comes from a place further
on; they are built from the end of the text backwards).

`ParsesFirst` and `ParsesAll` then say what is read and what is refused. From word to word: between them the parser skips
just the gap (`GapSkipped`, with the comments that may be open in it); a symbol, a number and a string are read as what they say
(`SymbolRead`, `NumberRead`, `StringRead`). For strings, that a character is escaped when an odd number of backslashes precede it has to agree with
pairs of characters that are taken from the left (`EscapesAlternate`), and the characters kept are put together from the
end (`InOrderFront`). Lists: the counts of open lists divide the words behind a parenthesis into items, one behind the other up to its match
(`MatchIs`, `ItemsSeparated`, `ItemsCover`), so that the loop of `parse_list` passes from item to item (`ItemRead`, `ItemsAreRead`); that the tree of a word is the only one with
its items (`TreeIs`) and that a list is refused just if it has no end or an item is (`RefusedLists`) do the rest. `WordsAreRead`
goes from the last word back to the first: a word's reading uses words behind it, in lists one deeper, and there are no more words than characters
(`PlacesInOrder`), so that the depth bound of `ParseExpr` is never met.

These theorems suppose an `IsText`, characters with the places of their words; every text is one. `EveryTextHasPlaces`: from the end backwards, what is skipped is a gap
(`SkippedIsGap`), and what is not blank begins a word of some length (`WordBegins`), behind which words follow (`WordsFollow`).
`CharactersSayPlaces`: a word ends at one place only (`WordEndsOnce`), so that the places, and the tree a text says, are determined by the characters.

**`SmalltalkMessages_proofs`.** `ParsesMessages` is about definitions only: for every text that is `WellWritten`, of any length
and nesting, what tokenizer and parser make of its characters is the tree of the longest message its words begin with, or an abort in
the two cases of `Refused`. The tokens are the words (`TokensAreWords`): the characters of a word end where the next blank or word
begins (`TokenEnds`, `TokenAt`). Each of the parser's loops is an invariant over its turns (`UnaryTurns`, `BinaryTurns`, `KeywordTurns`), which
says that the words read so far are a message of that level and that the tree is `UnaryOf`, `BinaryOf` or `MessageOf` of them; these
split at the last operator where the parser joins at the first, so that they are shown to agree place by place (`LastOperator`, `InOrderGrows`).
Induction is over stretches of numbers (`Upwards`, `Stepwise`), by the least number for which a statement fails.

**`SmalltalkImage_proofs`.** `CompilesTheLongestMessage` puts this into the running compiler. The theorems `ImageTypes`,
`ImageKeepsNames`, `ImageKeepsIDs`, `ImageFindsNearest`, `ImageCacheServes` and `ImageContexts` state for `Spec`, the image in use
by expressions and by the compiler, what `SmalltalkRuntime_proofs` proves of `RuntimeSpec`: `BusyInv` says that while a text is compiled the call under way
is the compiler's, and that what it has to do yet are strings to intern, of the image, and instructions (`TodoSound`, by the height of trees); then
each step of the compiler is a step of the image or leaves it as it is (`BusyNext`), wherever it is stopped.

`SendsWhatIsWritten` follows one text from the parser into the symbol table. What is to be done for a text is a list of items: strings to
intern, selectors to push, other instructions. `Does(text, items, sends)` says of a part of such a list that its
items that push selectors are, one by one and in their order, the sends of a part of the text, and that the string interned last for the kind
before each of them is the name that is written there, unless it is one of the named exceptions. It holds of the parts that
`compile-st-expr` makes of an operand, a unary, a binary and a keyword message if it holds of their own parts (`UnaryNode`, `BinaryNode`,
`KeywordNode`, by `DoesBoth` and `DoesPush`), hence of the whole message (`TodoDoes`, along the grammar: unary messages, then the operators
between operands, then the arguments). That a receiver without messages of the kind interns nothing for it (`InternsNo`) is why a selector survives
the compilation of its operands, and where that fails is the exception of receivers of the same kind. `SendsInv` says how far a compilation is: the first `p` items have
become instructions (`CodeOf`), each selector among them with the ID of the name interned last before it, and the compiler's selector of each kind
is the ID of the last name of that kind (`SelectorsOf`). That history pairs names with IDs, so `SelectorsNamed`, in the form `AllNamed` of
`RoomInv`, makes it a fact about the words of the image.

**Only model-checked.** Liveness (`ExecuteComesBack`, `ConsumeEnds`), which needs fairness and `ENABLED`. `ComputesMeaning`, `GlobalsHoldValues` and
`StaysInCode` of `LispSession`, and `Agrees`, `Defined` and `Builds` of `TranspileTool`: they
are about compilers and interpreters that are `RECURSIVE` operators over trees, which the prover cannot unfold; the parsers and
lookups above are recursive functions over numbers, for which induction over positions and counts is enough.

## 6. What is not modelled

* The release build, which omits the checks; tracing, profiling, printing; the
  `load_program` of a `CompiledProgram`, which loads at address 0.
* `compile_program()` (only tests call it), and the refusal of malformed lists.
* Microcode, which never reaches the machine; the disassembler beyond operand counts;
  the transpiler's output that is kept in `src/tokenizer_main.cpp`; exception messages, and the registers that they print.
* The REPL's `:set`, which writes the word of a variable between expressions, and the commands that print.
* Of the Smalltalk runtime: the allocator, the bytes of objects, and the bootstrap, which is a
  fixed sequence of calls, and whose methods have selector numbers that were never interned; of its compiler, how wide numbers are, and the end of the buffer for bytecode, which lies
  before tokens that nothing reads again.
* In Lisp sessions: recursion beside lets, loops or variables defined in a function,
  whose locations are static; names that are both functions and variables; strings that
  define variables while the running expression has its own (`repl_variables`) or have
  literals of other lengths (`repl_literals`); the numbers that `c-call`, `abort`,
  `symbol-address` and `symbol-count` give; signals.
