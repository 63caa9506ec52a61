---------------------------- MODULE MCRegisters ----------------------------
(* Small instances of Registers for TLC. *)
EXTENDS Registers

BothSetters == {"setReturned", "setThrown"}

\* Callbacks that wait for their helpers, and helpers that only call
\* setReturned, at any moment.
MCSafeUses == {[serialised |-> TRUE, setters |-> BothSetters],
               [serialised |-> FALSE, setters |-> {"setReturned"}]}
\* Helpers that call either setter at any moment.
MCFreeUses == {[serialised |-> FALSE, setters |-> BothSetters]}
=============================================================================
