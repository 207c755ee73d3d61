------------------------------ MODULE MCKernel ------------------------------
(* Three tasks with programs like those bricklib's tasks have: a tick task *)
(* and a message loop that share the EEPROM mutex; tasks of Bricklet       *)
(* plugins that wait for a signal an interrupt gives; three that delay and *)
(* leave the processor to the idle task.                                   *)
EXTENDS Kernel
CONSTANTS t1, t2, t3
Program(a, b, c) == [t \in Task |-> CASE t = t1 -> a [] t = t2 -> b [] t = t3 -> c]
MCPrograms ==
  {Program({"tick", "mutex"}, {"mutex"}, {}),
   Program({"signal"}, {"signal"}, {}),
   Program({"delay"}, {"delay"}, {"delay"})}
=============================================================================
