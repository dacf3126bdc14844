---------------------------- MODULE MCCheckpoint ----------------------------
(***************************************************************************)
(* The machine of MCStackVM and a host that calls it in any order, takes a *)
(* snapshot, and puts it back.                                             *)
(***************************************************************************)
EXTENDS Checkpoint, MCStackVM

(***************************************************************************)
(* Signals: a handler registered by the program, while it runs and halts.  *)
(***************************************************************************)
Handled(rest) ==
  Asm(<<<<"PUSH", 12>>, <<"PUSH", 1>>, <<"SIGNAL_REG">>>> \o rest)

SignalPrograms ==
  {Handled(<<<<"PUSH", 5>>, <<"POP">>, <<"JMP", 5>>, <<"HALT">>, <<"IRET">>>>),
   Handled(<<<<"ENTER", 6>>, <<"CLI">>, <<"STI">>, <<"PUSH", 1>>, <<"HALT">>, <<"IRET">>>>),
   Handled(<<<<"JMP", 5>>, <<"HALT">>, <<"HALT">>, <<"HALT">>, <<"HALT">>, <<"HALT">>, <<"STI">>, <<"IRET">>>>),
   Asm(<<<<"PUSH", 40>>, <<"PUSH", 1>>, <<"SIGNAL_REG">>>>),
   Asm(<<<<"PUSH", 1>>, <<"PUSH", 9>>, <<"SIGNAL_REG">>>>),
   Asm(<<<<"PUSH", 40>>, <<"IRET">>>>),
   Asm(<<<<"PUSH", 4>>, <<"PUSH", 2>>, <<"SIGNAL_REG">>, <<"JMP", 5>>>>)}

(***************************************************************************)
(* A host that calls the machine in any order.                             *)
(***************************************************************************)
HostPrograms == {Asm(<<<<"PUSH", 1>>, <<"POP">>, <<"HALT">>>>),
                 Asm(<<<<"POP">>, <<"HALT">>>>),
                 Asm(<<<<"JMP", 0>>>>),
                 [code |-> [i \in 1..15 |-> 0], data |-> NoData]}
HostPairs == {<<3, 1>>, <<14, 5>>, <<31, 1>>}

(***************************************************************************)
(* Programs that change all a snapshot holds: the stack, the frame, words  *)
(* of memory, handlers, the mask and the run flag.  Each runs again from   *)
(* its start, or is stopped in the middle by a limit.                      *)
(***************************************************************************)
RerunPrograms ==
  {Handled(<<<<"ENTER", 1>>, <<"PUSH", 3>>, <<"HALT">>, <<"IRET">>>>),
   Asm(<<<<"PUSH", 14>>, <<"LOAD">>, <<"PUSH", 1>>, <<"ADD">>, <<"PUSH", 14>>, <<"STORE">>, <<"HALT">>>>),
   Asm(<<<<"PUSH", 40>>, <<"ABORT">>, <<"CLI">>, <<"ENTER", 1>>, <<"JMP", 0>>>>)}

\* Snapshots are only taken of machines with these programs.
HostInit == \/ CheckpointInit(Init \/ InitLoaded(SignalPrograms, {FALSE}), MaxRestores)
            \/ CheckpointInit(InitLoaded(RerunPrograms, {FALSE}), 0)

HostSpec == HostInit /\ [][CheckpointNext]_checkpointVars /\ WF_checkpointVars(Run)
=============================================================================
