-------------------------------- MODULE Builder --------------------------------
(***************************************************************************)
(* How a bus is put together: threads that fill modules, the last of which *)
(* is the BusBuilder itself, and build, which makes the lookup table,      *)
(* spawns the pollers and sends Init to the receivers while the pollers    *)
(* already run.  A module is owned: it is being filled, in one             *)
(* RegisterEntry at most, or it was moved into another.                    *)
(***************************************************************************)
EXTENDS Dispatch

CONSTANTS Modules,       \* the modules that are filled
          Root,          \* the one inside the BusBuilder
          Subscriptions, \* the types of the receivers: pairs <<message, way>>
          RelayTables,   \* the tables of the relays
          MaxReceivers   \* bound: receivers that are made

ASSUME BuilderAssumption ==
  /\ Root \in Modules
  /\ Subscriptions \subseteq Tags \X {{x} : x \in Tags \X Tags}
  /\ RelayTables \subseteq Tables
  /\ MaxReceivers \in Nat

VARIABLES sequence,   \* RECEVIER_ID_SEQ, shared by all threads
          stage,      \* what becomes of a module
          receivers,  \* the HashSet of a module, by receiver id
          pollings,   \* its pollers: pairs <<receiver id, what is polled>>
          entry,      \* the RegisterEntry it is inside of: receivers and pollers
          lookup,     \* the table of the bus
          spawned,    \* the pollers that were spawned, in that order
          inits,      \* how often a receiver was sent Init
          made        \* history: every receiver that was made, in that order

vars == <<sequence, stage, receivers, pollings, entry, lookup, spawned, inits, made>>

NoEntry == [receivers |-> {}, pollers |-> <<>>]

Init ==
  /\ sequence = 1
  /\ stage = [p \in Modules |-> "module"]
  /\ receivers = [p \in Modules |-> {}]
  /\ pollings = [p \in Modules |-> <<>>]
  /\ entry = [p \in Modules |-> NoEntry]
  /\ lookup = Lookup({})
  /\ spawned = <<>>
  /\ inits = [n \in 1..MaxReceivers |-> 0]
  /\ made = <<>>

\* HashSet::insert: a receiver with an id that is in the set is not put into it.
Insert(set, r) == IF \E x \in set : x.id = r.id THEN set ELSE set \cup {r}

\* MUTANT: ids are counted for each module.
NextIdOfModule(p) == Len(pollings[p]) + Len(entry[p].pollers) + 1

\* RECEVIER_ID_SEQ.fetch_add(1)
NextId(p) == sequence

Made(r) ==
  /\ Len(made) < MaxReceivers
  /\ sequence' = sequence + 1
  /\ made' = Append(made, r)

\* register and register_unsync: the module moves into an entry, for one object.
Register(p) ==
  /\ stage[p] = "module"
  /\ stage' = [stage EXCEPT ![p] = "entry"]
  /\ entry' = [entry EXCEPT ![p] = NoEntry]
  /\ UNCHANGED <<sequence, receivers, pollings, lookup, spawned, inits, made>>

\* subscribe: a receiver, the poller of its implementation and its event loop.
Subscribe(p, type) ==
  LET r == Typed(NextId(p), type[1], type[2]) IN
  /\ stage[p] = "entry"
  /\ Made(r)
  /\ entry' = [entry EXCEPT ![p] =
       [receivers |-> Insert(@.receivers, r),
        pollers   |-> @.pollers \o <<<<r.id, "messages">>, <<r.id, "events">>>>]]
  /\ UNCHANGED <<stage, receivers, pollings, lookup, spawned, inits>>

\* done: the receivers and the pollers of the entry join those of the module.
Done(p) ==
  /\ stage[p] = "entry"
  /\ stage' = [stage EXCEPT ![p] = "module"]
  /\ receivers' = [receivers EXCEPT ![p] =
       @ \cup {r \in entry[p].receivers : \A x \in @ : x.id # r.id}]
  /\ pollings' = [pollings EXCEPT ![p] = @ \o entry[p].pollers]
  /\ entry' = [entry EXCEPT ![p] = NoEntry]
  /\ UNCHANGED <<sequence, lookup, spawned, inits, made>>

RegisterRelay(p, table) ==
  LET r == Relayed(NextId(p), table) IN
  /\ stage[p] = "module"
  /\ Made(r)
  /\ receivers' = [receivers EXCEPT ![p] = Insert(@, r)]
  /\ pollings' = [pollings EXCEPT ![p] = Append(@, <<r.id, "events">>)]
  /\ UNCHANGED <<stage, entry, lookup, spawned, inits>>

\* MUTANT: the pollers of the module that is added are forgotten.
AddModuleUnpolled(p, other) ==
  /\ p # other
  /\ stage[p] = "module"
  /\ stage[other] = "module"
  /\ other # Root
  /\ stage' = [stage EXCEPT ![other] = "moved"]
  /\ receivers' = [receivers EXCEPT ![p] = @ \cup receivers[other], ![other] = {}]
  /\ pollings' = [pollings EXCEPT ![other] = <<>>]
  /\ UNCHANGED <<sequence, entry, lookup, spawned, inits, made>>

\* add_module: another module moves into this one.
AddModule(p, other) ==
  /\ p # other
  /\ stage[p] = "module"
  /\ stage[other] = "module"
  /\ other # Root
  /\ stage' = [stage EXCEPT ![other] = "moved"]
  /\ receivers' = [receivers EXCEPT
       ![p] = @ \cup {r \in receivers[other] : \A x \in @ : x.id # r.id}, ![other] = {}]
  /\ pollings' = [pollings EXCEPT ![p] = @ \o pollings[other], ![other] = <<>>]
  /\ UNCHANGED <<sequence, entry, lookup, spawned, inits, made>>

\* build: the lookup table, then the pollers, then Init for every receiver.
Build ==
  /\ stage[Root] = "module"
  /\ stage' = [stage EXCEPT ![Root] = "spawning"]
  /\ lookup' = Lookup(receivers[Root])
  /\ UNCHANGED <<sequence, receivers, pollings, entry, spawned, inits, made>>

\* One poller is spawned; it may run from here on.
Spawn ==
  /\ stage[Root] = "spawning"
  /\ pollings[Root] # <<>>
  /\ spawned' = Append(spawned, Head(pollings[Root]))
  /\ pollings' = [pollings EXCEPT ![Root] = Tail(@)]
  /\ UNCHANGED <<sequence, stage, receivers, entry, lookup, inits, made>>

\* bus.init(): Init goes to one receiver after the other.  init_sent is never
\* set, so every one of them is sent Init.
SendInit(r) ==
  /\ stage[Root] = "spawning"
  /\ pollings[Root] = <<>>
  /\ r \in receivers[Root]
  /\ inits[r.id] = 0
  /\ inits' = [inits EXCEPT ![r.id] = @ + 1]
  /\ UNCHANGED <<sequence, stage, receivers, pollings, entry, lookup, spawned, made>>

\* build returns the bus.
Built ==
  /\ stage[Root] = "spawning"
  /\ pollings[Root] = <<>>
  /\ \A r \in receivers[Root] : inits[r.id] > 0
  /\ stage' = [stage EXCEPT ![Root] = "built"]
  /\ UNCHANGED <<sequence, receivers, pollings, entry, lookup, spawned, inits, made>>

Next ==
  \/ \E p \in Modules :
       \/ Register(p) \/ Done(p)
       \/ \E type \in Subscriptions : Subscribe(p, type)
       \/ \E table \in RelayTables : RegisterRelay(p, table)
       \/ \E other \in Modules : AddModule(p, other)
  \/ Build \/ Spawn \/ Built
  \/ \E r \in receivers[Root] : SendInit(r)

Spec == Init /\ [][Next]_vars

---------------------------------------------------------------------------
Holds(p) == receivers[p] \cup entry[p].receivers
InBus == receivers[Root]
IsBuilt == stage[Root] = "built"

\* A receiver is never lost in a HashSet because another thread's has its id: every
\* one that was made is in exactly one module or entry.
NoReceiverLost ==
  \A i \in DOMAIN made :
    \E p \in Modules :
      /\ made[i] \in Holds(p)
      /\ \A q \in Modules : made[i] \in Holds(q) => q = p

\* Once build has returned, every receiver of the bus has its event loop and, unless
\* it is a relay, the poller of its implementation, each of them once (a stream of
\* events can be taken once only), and was sent Init; and no other poller runs.
PolledOnce ==
  IsBuilt =>
    /\ \A i, j \in DOMAIN spawned : spawned[i] = spawned[j] => i = j
    /\ {spawned[i] : i \in DOMAIN spawned} =
         {<<r.id, "events">> : r \in InBus}
           \cup {<<r.id, "messages">> : r \in {x \in InBus : ~x.relay}}
    /\ \A r \in InBus : inits[r.id] = 1

Options == {<<"Broadcast">>} \cup ({"Except", "Direct"} \X {r.id : r \in InBus})

\* A request finds every receiver that accepts it, whatever of its response and
\* error it asks for, and so does a message that is sent boxed: the lookup table
\* hides nobody, and the options leave out whom they should.
SelectsAccepting ==
  IsBuilt =>
    \A m \in Tags, options \in Options, resp, err \in Option(Tags), isReq \in BOOLEAN :
      (isReq \/ (resp = {} /\ err = {})) =>
        Select(lookup, m, options, resp, err, isReq) =
          {r \in InBus : Accept(r, isReq, m, resp, err) /\ Chosen(options, r)}

\* A plain send reaches the receivers that accept its message, and besides them the
\* relays that take the type as a request only.
SendsReach ==
  IsBuilt =>
    \A m \in Tags : Reached(lookup, m) =
      {r \in InBus : AcceptMessage(r, m) \/ (r.relay /\ AcceptRequest(r, m, {}, {}))}
=============================================================================
