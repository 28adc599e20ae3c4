------------------------------- MODULE Clients -------------------------------
(***************************************************************************)
(* The threads of a program that uses the compatibility layers: those the  *)
(* program itself makes, and those Android's libraries make in it.         *)
(***************************************************************************)
EXTENDS Naturals, FiniteSets

CONSTANTS
  Thread,    \* the program's own
  Binder,    \* the binder threads, which deliver messages of the services
  NoThread,
  NULL

Actor == Thread \cup Binder

ASSUME ClientsAssumption ==
  /\ Thread \cap Binder = {} /\ NoThread \notin Actor /\ NULL \notin Actor
=============================================================================
