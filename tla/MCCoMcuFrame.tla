---------------------------- MODULE MCCoMcuFrame ----------------------------
(***************************************************************************)
(* Instances of CoMcuFrame for TLC; the .cfg files give the constants.     *)
(***************************************************************************)
EXTENDS CoMcuFrame

\* What the bytes after the first look like: never, all or one of them like the
\* first byte of a message, all like the first of an ack, all like nothing.
FrUniform(value) == [i \in 2..FrUpLength |-> value]
FrSomeLooks == {FrUniform(value) : value \in FrValues}
               \cup {[FrUniform(FrSize) EXCEPT ![3] = FrUpLength]}
FrOneLook == {FrUniform(FrSize)}
\* The bytes after the first all look like nothing.
FrPlainLooks == {FrUniform(0)}
=============================================================================
