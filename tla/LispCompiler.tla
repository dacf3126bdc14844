---------------------------- MODULE LispCompiler ----------------------------
(***************************************************************************)
(* lisp_compiler.hpp: from the tree of an expression to bytecode.          *)
(*                                                                         *)
(* A tree is a tuple.  The leaves are <<"number", n>>, <<"symbol", x>> and *)
(* <<"string", bytes>>; a list is the name at its head followed by its     *)
(* parts, which are trees, except                                          *)
(*   <<"let", <<<<x, value>>, ...>>, body...>>,                            *)
(*   <<"for", <<x, start, end>>, body...>>,                                *)
(*   <<"define-func", <<f, <<x, ...>>>>, body>>,                           *)
(* and where the first part is a name or a signal's number (define-var,    *)
(* set, define-int, function-address, symbol-...).  Lists of other shapes  *)
(* are refused by the code and do not occur here.                          *)
(***************************************************************************)
EXTENDS MachineWord, Opcodes, SymbolTable, SequencesExt, FiniteSetsExt, TLC

CONSTANT FunctionOrder   \* functions in the order of a std::map of their names

(***************************************************************************)
(* The state of a compiler that has imported a session's symbols.          *)
(***************************************************************************)
NoEntries == [x \in {} |-> 0]
Imported == <<"imported">>   \* the body of a function that is compiled already
Global(address) == [is_global |-> TRUE, addr |-> address]
Argument(index) == [is_global |-> FALSE, addr |-> index]

Compiler(symbols, nextVar, nextString, base) ==
  [bytecode |-> <<>>, code_base_address |-> base,
   scopes |-> <<[x \in OfKind(symbols, "variable") |-> Global(symbols[x].address)]>>,
   functions |-> [f \in OfKind(symbols, "function") |->
                    [arity |-> symbols[f].params, params |-> <<>>, body |-> Imported]],
   labels |-> [f \in OfKind(symbols, "function") |-> symbols[f].address],
   label_refs |-> <<>>,
   interrupts |-> NoEntries,
   string_table |-> NoEntries,   \* from literals to their addresses
   exported_symbols |-> symbols,
   next_var_address |-> nextVar, next_string_address |-> nextString,
   refused |-> FALSE]            \* has an error been thrown?

Refuse(c) == [c EXCEPT !.refused = TRUE]

Emit(c, op, operands) == [c EXCEPT !.bytecode = @ \o <<OpcodeNumber[op]>> \o operands]
CurrentAddress(c) == Len(c.bytecode)
AbsoluteAddress(c) == c.code_base_address + Len(c.bytecode)
Patch(c, position, address) == [c EXCEPT !.bytecode[position + 1] = address]

\* Fault: the target is counted from the start of the program.
PatchRelative(c, position, target) == Patch(c, position, CurrentAddress(target))

\* The operand at position becomes the address where target's code ends.
PatchHere(c, position, target) == Patch(c, position, AbsoluteAddress(target))

(***************************************************************************)
(* Scopes.  Code is never compiled with is_in_function set, so every       *)
(* variable but a function's arguments gets a word of the globals.         *)
(***************************************************************************)
ScopesOf(c, x) == {i \in DOMAIN c.scopes : x \in DOMAIN c.scopes[i]}

LookupVariable(c, x) == c.scopes[Max(ScopesOf(c, x))][x]

DefineVariable(c, x) ==
  IF x \in DOMAIN Last(c.scopes) THEN Refuse(c)
  ELSE LET address == c.next_var_address IN
       [c EXCEPT !.scopes[Len(c.scopes)] = (x :> Global(address)) @@ @,
                 !.next_var_address = address + 1,
                 !.exported_symbols = IF Len(c.scopes) > 1 THEN @
                                      ELSE Define(@, "variable", x :> address, x :> 0)]

PushScope(c, variables) == [c EXCEPT !.scopes = Append(@, variables)]
PopScope(c) == [c EXCEPT !.scopes = Front(@)]

EmitLoad(c, variable) ==
  Emit(Emit(c, "PUSH", <<variable.addr>>), IF variable.is_global THEN "LOAD" ELSE "BP_LOAD", <<>>)

EmitStore(c, variable) ==
  Emit(Emit(c, "PUSH", <<variable.addr>>), IF variable.is_global THEN "STORE" ELSE "BP_STORE", <<>>)

\* The value on the stack is stored, and stays as the result.
EmitAssign(c, variable) == EmitStore(Emit(c, "DUP", <<>>), variable)

(***************************************************************************)
(* String literals, one for each content.                                  *)
(***************************************************************************)
LiteralWords(bytes) == 1 + (Len(bytes) + BYTES_PER_WORD - 1) \div BYTES_PER_WORD

AddLiteral(c, bytes) ==
  IF bytes \in DOMAIN c.string_table THEN c
  ELSE [c EXCEPT !.string_table = (bytes :> c.next_string_address) @@ @,
                 !.next_string_address = @ + LiteralWords(bytes)]

CompileLiteral(c, bytes) ==
  LET d == AddLiteral(c, bytes) IN Emit(d, "PUSH", <<d.string_table[bytes]>>)

PackedWord(bytes, i) ==
  MapThenSumSet(LAMBDA b : bytes[i * BYTES_PER_WORD + b + 1] * 2^(b * BYTE_BITS),
                {b \in 0..BYTES_PER_WORD - 1 : i * BYTES_PER_WORD + b < Len(bytes)})

\* write_strings_to_memory()
LiteralData(c) ==
  LET words(bytes) == [i \in 0..LiteralWords(bytes) - 1 |->
                         IF i = 0 THEN Len(bytes) ELSE PackedWord(bytes, i - 1)]
      at(bytes) == c.string_table[bytes]
      holds(a, bytes) == a - at(bytes) \in DOMAIN words(bytes)
      owner(a) == CHOOSE bytes \in DOMAIN c.string_table : holds(a, bytes)
  IN [a \in UNION {{at(bytes) + i : i \in DOMAIN words(bytes)} : bytes \in DOMAIN c.string_table} |->
        words(owner(a))[a - at(owner(a))]]

(***************************************************************************)
(* The forms that compile their parts and then do one thing.               *)
(***************************************************************************)
Unary ==
  [peek |-> "LOAD", print |-> "PRINT", abort |-> "ABORT", eval |-> "EVAL", compile |-> "COMPILE"]
  @@ ("peek-byte" :> "LOAD_BYTE") @@ ("peek32" :> "LOAD32")
  @@ ("print-int" :> "PRINT") @@ ("print-string" :> "PRINT_STR")

Pokes == [poke |-> "STORE"] @@ ("poke-byte" :> "STORE_BYTE") @@ ("poke32" :> "STORE32")

Operators ==
  ("+" :> "ADD") @@ ("-" :> "SUB") @@ ("*" :> "MUL") @@ ("/" :> "DIV") @@ ("%" :> "MOD")
  @@ ("=" :> "EQ") @@ ("<" :> "LT") @@ (">" :> "GT") @@ ("<=" :> "LTE") @@ (">=" :> "GTE")
  @@ ("bit-and" :> "AND") @@ ("bit-or" :> "OR") @@ ("bit-xor" :> "XOR")
  @@ ("bit-shl" :> "SHL") @@ ("bit-shr" :> "SHR") @@ ("bit-ashr" :> "ASHR")

Indirect == [funcall |-> "FUNCALL"] @@ ("c-call" :> "C_CALL")

Rest(node, n) == SubSeq(node, n + 1, Len(node))

RECURSIVE CompileExpr(_, _)

CompileAll(c, nodes) == FoldLeft(LAMBDA d, n : CompileExpr(d, n), c, nodes)

Discarded(c, nodes) == FoldLeft(LAMBDA d, n : Emit(CompileExpr(d, n), "POP", <<>>), c, nodes)

\* Of several expressions, the last gives the result.
CompileSequence(c, nodes) == CompileExpr(Discarded(c, Front(nodes)), Last(nodes))

\* Two operands, or more for + - * /, from left to right
CompileOperator(c, node) ==
  FoldLeft(LAMBDA d, n : Emit(CompileExpr(d, n), Operators[node[1]], <<>>),
           CompileExpr(c, node[2]), Rest(node, 2))

\* The value, a copy of it as the result, and the address
CompilePoke(c, node) ==
  Emit(CompileExpr(Emit(CompileExpr(c, node[3]), "DUP", <<>>), node[2]), Pokes[node[1]], <<>>)

CompileIf(c, node) ==
  LET test == Emit(CompileExpr(c, node[2]), "JZ", <<0>>)
      then == Emit(CompileExpr(test, node[3]), "JMP", <<0>>)
      else == CompileExpr(PatchHere(then, CurrentAddress(test) - 1, then), node[4])
  IN PatchHere(else, CurrentAddress(then) - 1, else)

CompileWhile(c, node) ==
  LET test == Emit(CompileExpr(c, node[2]), "JZ", <<0>>)
      body == Emit(Discarded(test, Rest(node, 2)), "JMP", <<AbsoluteAddress(c)>>)
  IN Emit(PatchHere(body, CurrentAddress(test) - 1, body), "PUSH", <<0>>)

CompileBinding(c, x, value) ==
  LET d == DefineVariable(CompileExpr(c, value), x) IN EmitStore(d, LookupVariable(d, x))

\* The loop's variable, and a hidden one for its end, are compared before each turn.
CompileFor(c, node) ==
  LET x == node[2][1]
      begin == CompileBinding(PushScope(c, NoEntries), x, node[2][2])
      start == CompileBinding(begin, "__for_end__", node[2][3])
      loaded == EmitLoad(EmitLoad(start, LookupVariable(start, x)), LookupVariable(start, "__for_end__"))
      test == Emit(Emit(loaded, "LT", <<>>), "JZ", <<0>>)
      body == Emit(EmitLoad(Discarded(test, Rest(node, 2)), LookupVariable(start, x)), "PUSH", <<1>>)
      turn == Emit(EmitStore(Emit(body, "ADD", <<>>), LookupVariable(start, x)),
                   "JMP", <<AbsoluteAddress(start)>>)
  IN Emit(PopScope(PatchHere(turn, CurrentAddress(test) - 1, turn)), "PUSH", <<0>>)

CompileLet(c, node) ==
  PopScope(CompileSequence(FoldLeft(LAMBDA d, b : CompileBinding(d, b[1], b[2]),
                                    PushScope(c, NoEntries), node[2]), Rest(node, 2)))

CompileDefineVariable(c, node) ==
  LET d == DefineVariable(c, node[2])
  IN EmitAssign(CompileExpr(d, node[3]), LookupVariable(d, node[2]))

CompileSet(c, node) ==
  IF ScopesOf(c, node[2]) = {} THEN Refuse(c)
  ELSE EmitAssign(CompileExpr(c, node[3]), LookupVariable(c, node[2]))

CompileSymbol(c, x) ==
  IF ScopesOf(c, x) = {} THEN Refuse(c) ELSE EmitLoad(c, LookupVariable(c, x))

\* The bodies are compiled behind the main code.
CompileDefineFunction(c, node) ==
  LET function == [arity |-> Len(node[2][2]), params |-> node[2][2], body |-> node[3]]
  IN Emit([c EXCEPT !.functions = (node[2][1] :> function) @@ @], "PUSH", <<0>>)

CompileDefineInterrupt(c, node) ==
  IF node[2] \notin 1..31 THEN Refuse(c)
  ELSE Emit([c EXCEPT !.interrupts = (node[2] :> node[3]) @@ @], "PUSH", <<0>>)

\* The operand at position will be the address of f.
Refer(c, position, f) == [c EXCEPT !.label_refs = Append(@, [position |-> position, name |-> f])]

CompileFunctionCall(c, f, arguments) ==
  IF Len(arguments) # c.functions[f].arity THEN Refuse(c)
  ELSE LET called == Emit(CompileAll(c, arguments), "CALL", <<0, Len(arguments)>>)
       IN Refer(called, CurrentAddress(called) - 2, f)

CompileFunctionAddress(c, f) ==
  IF f \notin DOMAIN c.functions THEN Refuse(c)
  ELSE LET pushed == Emit(c, "PUSH", <<0>>) IN Refer(pushed, CurrentAddress(pushed) - 1, f)

\* funcall and c-call: arguments, their number, and what to call
CompileIndirectCall(c, node) ==
  LET arguments == Rest(node, 2)
      counted == Emit(CompileAll(c, arguments), "PUSH", <<Len(arguments)>>)
  IN Emit(CompileExpr(counted, node[2]), Indirect[node[1]], <<>>)

(***************************************************************************)
(* The forms that use the symbols of the session: exported symbols come    *)
(* before the variables of inner scopes.                                   *)
(***************************************************************************)
IsExported(c, x) == x \in DOMAIN c.exported_symbols
IsFunction(c, x) == IsExported(c, x) /\ c.exported_symbols[x].kind = "function"
IsKnown(c, x) == IsExported(c, x) \/ ScopesOf(c, x) # {}
SymbolVariable(c, x) ==
  IF IsExported(c, x) THEN Global(c.exported_symbols[x].address) ELSE LookupVariable(c, x)

SymbolForms == {"symbol-count", "symbol-bound?", "symbol-address", "symbol-value", "symbol-set!"}

CompileSymbolForm(c, node) ==
  LET form == node[1]
      x == node[2]
      assigned == EmitAssign(CompileExpr(c, node[3]), SymbolVariable(c, x))
  IN CASE form = "symbol-count" -> Emit(c, "PUSH", <<Cardinality(DOMAIN c.exported_symbols)>>)
       [] form = "symbol-bound?" -> Emit(c, "PUSH", <<Truth(IsKnown(c, x))>>)
       [] ~IsKnown(c, x) -> Refuse(c)
       [] form = "symbol-address" \/ (form = "symbol-value" /\ IsFunction(c, x)) ->
            Emit(c, "PUSH", <<SymbolVariable(c, x).addr>>)
       [] form = "symbol-value" -> EmitLoad(c, SymbolVariable(c, x))
       [] form = "symbol-set!" -> IF IsFunction(c, x) THEN Refuse(c) ELSE assigned

\* A function of the name at the head of a list comes before a form of that name.
CompileExpr(c, node) ==
  LET form == node[1] IN
  CASE form = "number" -> Emit(c, "PUSH", <<node[2] % WordSize>>)
    [] form = "string" -> CompileLiteral(c, node[2])
    [] form = "symbol" -> CompileSymbol(c, node[2])
    [] form \in DOMAIN c.functions -> CompileFunctionCall(c, form, Rest(node, 1))
    [] form = "define-func" -> CompileDefineFunction(c, node)
    [] form = "define-int" -> CompileDefineInterrupt(c, node)
    [] form = "define-var" -> CompileDefineVariable(c, node)
    [] form = "set" -> CompileSet(c, node)
    [] form = "let" -> CompileLet(c, node)
    [] form = "while" -> CompileWhile(c, node)
    [] form = "for" -> CompileFor(c, node)
    [] form \in DOMAIN Pokes -> CompilePoke(c, node)
    [] form \in DOMAIN Indirect -> CompileIndirectCall(c, node)
    [] form \in DOMAIN Operators -> CompileOperator(c, node)
    [] form = "if" -> CompileIf(c, node)
    [] form = "do" -> CompileSequence(c, Rest(node, 1))
    [] form \in DOMAIN Unary -> Emit(CompileExpr(c, node[2]), Unary[form], <<>>)
    [] form = "function-address" -> CompileFunctionAddress(c, node[2])
    [] form \in SymbolForms -> CompileSymbolForm(c, node)
    [] OTHER -> Refuse(c)

(***************************************************************************)
(* Behind the main code come the functions, in the order of their names,   *)
(* and the interrupt handlers; then the addresses of functions are known.  *)
(* A function that is defined in the body of one with a later name, or     *)
(* again, is not compiled.                                                 *)
(***************************************************************************)
Arguments(params) ==
  [x \in Range(params) |-> Argument((CHOOSE i \in DOMAIN params : params[i] = x) - 1)]

CompileFunction(c, f) ==
  LET params == c.functions[f].params
      labelled == [c EXCEPT !.labels = (f :> AbsoluteAddress(c)) @@ @,
                            !.exported_symbols =
                              Define(@, "function", f :> AbsoluteAddress(c), f :> Len(params))]
      checked == IF IsInjective(params) THEN labelled ELSE Refuse(labelled)
      entered == Emit(PushScope(checked, Arguments(params)), "ENTER", <<0>>)
      body == Emit(CompileExpr(entered, c.functions[f].body), "LEAVE", <<0>>)
  IN PopScope(Emit(body, "RET", <<Len(params)>>))

CompileAllFunctions(c) ==
  FoldLeft(LAMBDA d, f :
             IF f \in DOMAIN d.functions /\ d.functions[f].body # Imported
             THEN CompileFunction(d, f) ELSE d,
           c, FunctionOrder)

CompileInterrupt(c, s) ==
  LET handler == Emit(PopScope(CompileExpr(PushScope(c, NoEntries), c.interrupts[s])), "IRET", <<>>)
  IN Emit(Emit(Emit(handler, "PUSH", <<AbsoluteAddress(c)>>), "PUSH", <<s>>), "SIGNAL_REG", <<>>)

CompileAllInterrupts(c) ==
  FoldLeft(LAMBDA d, s : IF s \in DOMAIN d.interrupts THEN CompileInterrupt(d, s) ELSE d,
           c, [s \in 1..31 |-> s])

PatchFunctionCalls(c) ==
  IF \E i \in DOMAIN c.label_refs : c.label_refs[i].name \notin DOMAIN c.labels THEN Refuse(c)
  ELSE FoldLeft(LAMBDA d, r : Patch(d, r.position, d.labels[r.name]), c, c.label_refs)

Finished(c) == PatchFunctionCalls(CompileAllInterrupts(CompileAllFunctions(c)))

\* Fault: the program has no end.
Unhalted(c, node) == Finished(CompileExpr(c, node))

\* compile() and compile_as_function()
CompileProgram(c, node) == Finished(Emit(CompileExpr(c, node), "HALT", <<>>))
CompileAsFunction(c, node) == Finished(Emit(CompileExpr(c, node), "RET", <<0>>))
=============================================================================
