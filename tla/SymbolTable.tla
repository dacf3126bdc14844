----------------------------- MODULE SymbolTable ----------------------------
(***************************************************************************)
(* symbol_table.hpp: a table from names to symbols.  A symbol is a         *)
(* variable with a memory address or a function with a code address and    *)
(* parameters, of which only the number is kept.  Insertion order is left  *)
(* out.                                                                    *)
(***************************************************************************)
EXTENDS Naturals

CONSTANT Names

Kinds == {"variable", "function"}
Symbol == [kind : Kinds, address : Nat, params : Nat]
IsTable(table) == DOMAIN table \subseteq Names /\ table \in [DOMAIN table -> Symbol]

Empty == [n \in {} |-> [kind |-> "variable", address |-> 0, params |-> 0]]

OfKind(table, kind) == {n \in DOMAIN table : table[n].kind = kind}

\* Fault: names that exist keep their old symbol.
MergeKeepingOld(table, other) ==
  [n \in DOMAIN table \cup DOMAIN other |-> IF n \in DOMAIN table THEN table[n] ELSE other[n]]

\* merge(), which defines every symbol of the other table: a name that is new is
\* added, and one that exists takes the other's address, and the parameters of a
\* function, and keeps its own kind.
Merge(table, other) ==
  [n \in DOMAIN table \cup DOMAIN other |->
     IF n \notin DOMAIN table THEN other[n]
     ELSE IF n \notin DOMAIN other THEN table[n]
     ELSE [table[n] EXCEPT !.address = other[n].address,
                           !.params = IF other[n].kind = "function" THEN other[n].params ELSE @]]

\* define_variable(), define_function(), for names and their addresses and parameters
Define(table, kind, address, params) ==
  Merge(table, [n \in DOMAIN address |->
                  [kind |-> kind, address |-> address[n], params |-> params[n]]])
=============================================================================
