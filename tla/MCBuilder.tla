------------------------------- MODULE MCBuilder -------------------------------
(***************************************************************************)
(* The instance of Builder that TLC checks: two modules beside the         *)
(* builder, receivers of two types, and relays that take a type as a       *)
(* message only, as a request only, or as both.                            *)
(***************************************************************************)
EXTENDS Builder

CONSTANTS x, y,            \* types
          bus, lib, plugin \* modules

Nothing == [t \in Tags |-> <<>>]
BuilderSubscriptions == {<<x, {<<x, y>>}>>, <<y, {<<x, x>>}>>}
BuilderTables ==
  {AddAny(Nothing, x, {}),
   AddAny(Nothing, x, {<<y, y>>}),
   AddAny(AddAny(AddAny(Nothing, x, {<<x, y>>}), x, {<<y, x>>}), y, {})}
=============================================================================
