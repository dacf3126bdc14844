------------------------------ MODULE Opcodes ------------------------------
(***************************************************************************)
(* The instructions of opcodes.hpp, in the order of their numbers, and how *)
(* many words after the opcode are its operands.                           *)
(***************************************************************************)
EXTENDS Naturals, Sequences

OpcodeNames ==
  <<"HALT", "PUSH", "POP", "DUP", "SWAP", "ADD", "SUB", "MUL", "DIV", "MOD",
    "EQ", "LT", "GT", "LTE", "GTE", "JMP", "JZ", "ENTER", "LEAVE", "CALL",
    "RET", "IRET", "LOAD", "STORE", "LOAD_BYTE", "STORE_BYTE", "LOAD32", "STORE32",
    "BP_LOAD", "BP_STORE", "PRINT", "PRINT_STR", "AND", "OR", "XOR",
    "SHL", "SHR", "ASHR", "CLI", "STI", "SIGNAL_REG", "ABORT", "FUNCALL",
    "EVAL", "COMPILE", "C_CALL">>

Instructions == {OpcodeNames[i] : i \in DOMAIN OpcodeNames}

OpcodeNumber ==
  [op \in Instructions |-> (CHOOSE i \in DOMAIN OpcodeNames : OpcodeNames[i] = op) - 1]

OperandCount(op) ==
  CASE op \in {"PUSH", "JMP", "JZ", "ENTER", "LEAVE", "RET"} -> 1
    [] op = "CALL" -> 2
    [] OTHER -> 0
=============================================================================
