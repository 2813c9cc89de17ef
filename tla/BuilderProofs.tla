---------------------------- MODULE BuilderProofs ----------------------------
(***************************************************************************)
(* What holds of every bus, whatever its modules, types and tables are: no *)
(* receiver is lost while it is put together, and its lookup table finds   *)
(* the receivers that accept a message.                                    *)
(***************************************************************************)
EXTENDS Builder, Functions, SequenceTheorems, TLAPS

---------------------------------------------------------------------------
(* The lookup table.                                                       *)

\* A receiver of the bus is in an entry of the table exactly if the entry is one
\* that BusInner::new makes for a type it announces.
LEMMA LookupEntry ==
  ASSUME NEW rs, NEW m \in Tags, NEW resp \in Option(Tags), NEW err \in Option(Tags), NEW r
  PROVE  r \in Lookup(rs)[<<m, resp, err>>] <=>
           r \in rs /\ \E k \in Tags : \E way \in WaysOf(r, k) : <<m, resp, err>> \in Keys(k, way)
<1>1. <<m, resp, err>> \in Queries
  BY DEF Queries
<1> QED BY <1>1 DEF Lookup

\* The entries of a type name that type, and one of them asks for nothing more.
LEMMA KeysOfType ==
  ASSUME NEW m, NEW k, NEW way, NEW resp, NEW err
  PROVE  /\ <<m, {}, {}>> \in Keys(m, way)
         /\ <<m, resp, err>> \in Keys(k, way) => m = k
BY DEF Keys

\* What is asked of the response and of the error is nothing or a type of its own.
LEMMA AskedOption ==
  ASSUME NEW o \in Option(Tags), NEW x, o \subseteq {x}
  PROVE  o = {} \/ o = {x}
BY DEF Option

\* The table hides no receiver that accepts a request.
LEMMA RequestFound ==
  ASSUME NEW rs, NEW r \in rs, NEW m \in Tags,
         NEW resp \in Option(Tags), NEW err \in Option(Tags),
         AcceptRequest(r, m, resp, err)
  PROVE  r \in Lookup(rs)[<<m, resp, err>>]
<1>1. PICK way \in WaysOf(r, m) : \E x \in way : resp \subseteq {x[1]} /\ err \subseteq {x[2]}
  BY DEF AcceptRequest
<1>2. PICK x \in way : resp \subseteq {x[1]} /\ err \subseteq {x[2]}
  BY <1>1
<1>3. resp = {} \/ resp = {x[1]}
  BY <1>2, AskedOption
<1>4. err = {} \/ err = {x[2]}
  BY <1>2, AskedOption
<1>5. <<m, resp, err>> \in Keys(m, way)
  BY <1>2, <1>3, <1>4 DEF Keys
<1> QED BY <1>5, LookupEntry

\* The entry of a plain type has the receivers that announce the type in any way.
LEMMA PlainEntry ==
  ASSUME NEW rs, NEW r, NEW m \in Tags
  PROVE  r \in Lookup(rs)[<<m, {}, {}>>] <=> r \in rs /\ WaysOf(r, m) # {}
<1>1. {} \in Option(Tags)
  BY DEF Option
<1>2. r \in Lookup(rs)[<<m, {}, {}>>] <=>
        r \in rs /\ \E k \in Tags : \E way \in WaysOf(r, k) : <<m, {}, {}>> \in Keys(k, way)
  BY <1>1, LookupEntry
<1>3. ASSUME NEW k \in Tags, NEW way \in WaysOf(r, k), <<m, {}, {}>> \in Keys(k, way)
      PROVE  WaysOf(r, m) # {}
  BY <1>3, KeysOfType
<1>4. ASSUME NEW way \in WaysOf(r, m)
      PROVE  \E k \in Tags : \E w \in WaysOf(r, k) : <<m, {}, {}>> \in Keys(k, w)
  BY KeysOfType
<1> QED BY <1>2, <1>3, <1>4

\* select_receivers of a table that was made of the receivers.
LEMMA SelectAccepting ==
  ASSUME NEW rs, NEW m \in Tags, NEW options, NEW resp \in Option(Tags),
         NEW err \in Option(Tags), NEW isReq \in BOOLEAN,
         isReq \/ (resp = {} /\ err = {})
  PROVE  Select(Lookup(rs), m, options, resp, err, isReq) =
           {r \in rs : Accept(r, isReq, m, resp, err) /\ Chosen(options, r)}
<1>1. ASSUME NEW r \in Lookup(rs)[<<m, resp, err>>]
      PROVE  r \in rs
  BY <1>1, LookupEntry
<1>2. ASSUME NEW r \in rs, Accept(r, isReq, m, resp, err)
      PROVE  r \in Lookup(rs)[<<m, resp, err>>]
  <2>1. CASE isReq
    BY <1>2, <2>1, RequestFound DEF Accept
  <2>2. CASE ~isReq
    <3>1. AcceptMessage(r, m) /\ resp = {} /\ err = {}
      BY <1>2, <2>2 DEF Accept
    <3>2. WaysOf(r, m) # {}
      BY <3>1 DEF AcceptMessage
    <3> QED BY <3>1, <3>2, PlainEntry
  <2> QED BY <2>1, <2>2
<1> QED BY <1>1, <1>2 DEF Select

\* The receivers of a plain send.
LEMMA ReachedAccepting ==
  ASSUME NEW rs, NEW m \in Tags
  PROVE  Reached(Lookup(rs), m) =
           {r \in rs : AcceptMessage(r, m) \/ (r.relay /\ AcceptRequest(r, m, {}, {}))}
<1>1. ASSUME NEW r \in rs
      PROVE  r \in Lookup(rs)[<<m, {}, {}>>] <=>
               AcceptMessage(r, m) \/ (r.relay /\ AcceptRequest(r, m, {}, {}))
  <2>1. r \in Lookup(rs)[<<m, {}, {}>>] <=> WaysOf(r, m) # {}
    BY PlainEntry
  <2>2. CASE ~r.relay
    BY <2>1, <2>2 DEF AcceptMessage
  <2>3. CASE r.relay
    <3>1. AcceptMessage(r, m) <=> {} \in WaysOf(r, m)
      BY <2>3 DEF AcceptMessage
    <3>2. AcceptRequest(r, m, {}, {}) <=> \E way \in WaysOf(r, m) : way # {}
      BY DEF AcceptRequest
    <3> QED BY <2>1, <2>3, <3>1, <3>2
  <2> QED BY <2>2, <2>3
<1>2. ASSUME NEW r \in Lookup(rs)[<<m, {}, {}>>]
      PROVE  r \in rs
  BY <1>2, PlainEntry
<1> QED BY <1>1, <1>2 DEF Reached

---------------------------------------------------------------------------
(* The table of a bus is that of its receivers, which nobody changes once   *)
(* build was called.                                                       *)

Fixed == stage[Root] \in {"spawning", "built"}
TableInv ==
  /\ stage \in [Modules -> {"module", "entry", "moved", "spawning", "built"}]
  /\ DOMAIN receivers = Modules
  /\ Fixed => lookup = Lookup(receivers[Root])

LEMMA TableStep == TableInv /\ [Next]_vars => TableInv'
<1> SUFFICES ASSUME TableInv, [Next]_vars
             PROVE  TableInv'
  OBVIOUS
<1> USE BuilderAssumption DEF TableInv, Fixed
<1>1. ASSUME NEW p \in Modules, Register(p)
      PROVE  TableInv'
  BY <1>1 DEF Register
<1>2. ASSUME NEW p \in Modules, NEW type \in Subscriptions, Subscribe(p, type)
      PROVE  TableInv'
  BY <1>2 DEF Subscribe
<1>3. ASSUME NEW p \in Modules, Done(p)
      PROVE  TableInv'
  <2>1. Fixed' => p # Root
    BY <1>3 DEF Done
  <2>2. p # Root => receivers'[Root] = receivers[Root] /\ stage'[Root] = stage[Root]
    BY <1>3 DEF Done
  <2>3. Fixed' => lookup' = Lookup(receivers'[Root])
    BY <1>3, <2>1, <2>2 DEF Done
  <2> QED BY <1>3, <2>3 DEF Done
<1>4. ASSUME NEW p \in Modules, NEW table \in RelayTables, RegisterRelay(p, table)
      PROVE  TableInv'
  <2>1. Fixed' => p # Root
    BY <1>4 DEF RegisterRelay
  <2>2. p # Root => receivers'[Root] = receivers[Root]
    BY <1>4 DEF RegisterRelay
  <2> QED BY <1>4, <2>1, <2>2 DEF RegisterRelay
<1>5. ASSUME NEW p \in Modules, NEW other \in Modules, AddModule(p, other)
      PROVE  TableInv'
  <2>1. Fixed' => p # Root
    BY <1>5 DEF AddModule
  <2>2. p # Root => receivers'[Root] = receivers[Root] /\ stage'[Root] = stage[Root]
    <3>1. other # Root /\ stage' = [stage EXCEPT ![other] = "moved"]
      BY <1>5 DEF AddModule
    <3>2. p # Root => receivers'[Root] = receivers[Root]
      BY <1>5, <3>1 DEF AddModule
    <3> QED BY <3>1, <3>2
  <2>3. Fixed' => lookup' = Lookup(receivers'[Root])
    BY <1>5, <2>1, <2>2 DEF AddModule
  <2> QED BY <1>5, <2>3 DEF AddModule
<1>6. CASE Build
  BY <1>6 DEF Build
<1>7. CASE Spawn
  BY <1>7 DEF Spawn
<1>8. CASE Built
  BY <1>8 DEF Built
<1>9. ASSUME NEW r \in receivers[Root], SendInit(r)
      PROVE  TableInv'
  BY <1>9 DEF SendInit
<1>10. CASE UNCHANGED vars
  BY <1>10 DEF vars
<1> QED BY <1>1, <1>2, <1>3, <1>4, <1>5, <1>6, <1>7, <1>8, <1>9, <1>10 DEF Next

LEMMA TableInvariant == Spec => []TableInv
<1>1. Init => TableInv
  BY BuilderAssumption DEF Init, TableInv, Fixed
<1> QED BY <1>1, TableStep, PTL DEF Spec

\* A request and a boxed message find every receiver that accepts them, and nobody
\* else: select_receivers over the table of BusInner::new.
THEOREM LookupFinds == Spec => []SelectsAccepting
<1>1. TableInv => SelectsAccepting
  <2> SUFFICES ASSUME TableInv, IsBuilt,
                      NEW m \in Tags, NEW options \in Options, NEW resp \in Option(Tags),
                      NEW err \in Option(Tags), NEW isReq \in BOOLEAN,
                      isReq \/ (resp = {} /\ err = {})
               PROVE  Select(lookup, m, options, resp, err, isReq) =
                        {r \in InBus : Accept(r, isReq, m, resp, err) /\ Chosen(options, r)}
    BY DEF SelectsAccepting
  <2>1. lookup = Lookup(InBus)
    BY DEF TableInv, Fixed, IsBuilt, InBus
  <2> QED BY <2>1, SelectAccepting
<1> QED BY <1>1, TableInvariant, PTL

\* A plain send reaches the receivers that accept its message, and the relays that
\* take its type as a request only.
THEOREM PlainSendsReach == Spec => []SendsReach
<1>1. TableInv => SendsReach
  <2> SUFFICES ASSUME TableInv, IsBuilt, NEW m \in Tags
               PROVE  Reached(lookup, m) =
                        {r \in InBus : AcceptMessage(r, m) \/ (r.relay /\ AcceptRequest(r, m, {}, {}))}
    BY DEF SendsReach
  <2>1. lookup = Lookup(InBus)
    BY DEF TableInv, Fixed, IsBuilt, InBus
  <2> QED BY <2>1, ReachedAccepting
<1> QED BY <1>1, TableInvariant, PTL

---------------------------------------------------------------------------
(* The receivers.  Ids are given out once, so that two receivers that are   *)
(* held anywhere are the same if their ids are, and no HashSet refuses one. *)

Pollers == Nat \X {"messages", "events"}
IdInv ==
  /\ DOMAIN stage = Modules /\ DOMAIN receivers = Modules
  /\ entry \in [Modules -> [receivers : SUBSET Profiles, pollers : Seq(Pollers)]]
  /\ made \in Seq(Profiles)
  /\ sequence = Len(made) + 1
  /\ \A i \in DOMAIN made : made[i].id = i
  /\ \A p \in Modules : \A r \in Holds(p) : \E i \in DOMAIN made : r = made[i]
  /\ \A p \in Modules : stage[p] # "entry" => entry[p].receivers = {}
  /\ NoReceiverLost

\* Receivers that are held somewhere are told apart by their ids.
LEMMA SameId ==
  ASSUME IdInv, NEW p \in Modules, NEW q \in Modules, NEW r \in Holds(p), NEW x \in Holds(q),
         r.id = x.id
  PROVE  r = x
BY DEF IdInv

\* An id that was not given out yet belongs to nobody.
LEMMA FreshId ==
  ASSUME IdInv, NEW p \in Modules, NEW r \in Holds(p)
  PROVE  r.id # sequence
<1>1. PICK i \in DOMAIN made : r = made[i]
  BY DEF IdInv
<1>2. i \in 1..Len(made)
  BY DEF IdInv
<1>3. r.id = i /\ Len(made) \in Nat
  BY <1>1 DEF IdInv
<1> QED BY <1>2, <1>3 DEF IdInv

LEMMA TypedProfile ==
  ASSUME NEW n \in Nat, NEW type \in Subscriptions
  PROVE  Typed(n, type[1], type[2]) \in Profiles /\ Typed(n, type[1], type[2]).id = n
<1>1. type[2] \in Ways
  BY BuilderAssumption DEF Ways, Option
<1>2. [t \in Tags |-> IF t = type[1] THEN <<type[2]>> ELSE <<>>] \in Tables
  <2>1. <<type[2]>> \in Seq(Ways)
    BY <1>1
  <2>2. <<>> \in Seq(Ways)
    OBVIOUS
  <2> QED BY <2>1, <2>2 DEF Tables
<1> QED BY <1>2 DEF Typed, Profiles

LEMMA RelayedProfile ==
  ASSUME NEW n \in Nat, NEW table \in RelayTables
  PROVE  Relayed(n, table) \in Profiles /\ Relayed(n, table).id = n
BY BuilderAssumption DEF Relayed, Profiles

\* A new receiver is held by the module that made it, and by no other.
LEMMA NewReceiver ==
  ASSUME IdInv, NEW p \in Modules, NEW r \in Profiles, r.id = sequence, Made(r),
         Holds(p)' = Holds(p) \cup {r},
         \A q \in Modules \ {p} : Holds(q)' = Holds(q)
  PROVE  /\ made' \in Seq(Profiles)
         /\ sequence' = Len(made') + 1
         /\ \A i \in DOMAIN made' : made'[i].id = i
         /\ \A q \in Modules : \A x \in Holds(q)' : \E i \in DOMAIN made' : x = made'[i]
         /\ NoReceiverLost'
<1> DEFINE n == Len(made)
<1>1. /\ n \in Nat /\ DOMAIN made = 1..n /\ sequence = n + 1
      /\ made \in Seq(Profiles)
  BY DEF IdInv
<1>2. /\ made' = Append(made, r) /\ made' \in Seq(Profiles)
      /\ Len(made') = n + 1 /\ DOMAIN made' = 1..(n + 1)
      /\ made'[n + 1] = r
      /\ \A i \in 1..n : made'[i] = made[i]
  BY <1>1 DEF Made
<1>3. sequence' = Len(made') + 1
  BY <1>1, <1>2 DEF Made
<1>4. \A i \in DOMAIN made' : made'[i].id = i
  <2>1. \A i \in 1..n : made'[i].id = i
    BY <1>1, <1>2 DEF IdInv
  <2>2. \A i \in 1..(n + 1) : i \in 1..n \/ i = n + 1
    BY <1>1
  <2> QED BY <1>1, <1>2, <2>1, <2>2
<1>5. ASSUME NEW q \in Modules, NEW x \in Holds(q)'
      PROVE  \E i \in DOMAIN made' : x = made'[i]
  <2>1. CASE x = r
    BY <1>1, <1>2, <2>1
  <2>2. CASE x # r
    <3>1. x \in Holds(q)
      BY <1>5, <2>2
    <3>2. PICK i \in 1..n : x = made[i]
      BY <1>1, <3>1 DEF IdInv
    <3>3. i \in 1..(n + 1)
      BY <1>1
    <3> QED BY <1>2, <3>2, <3>3
  <2> QED BY <2>1, <2>2
<1>6. ASSUME NEW i \in DOMAIN made'
      PROVE  \E o \in Modules : /\ made'[i] \in Holds(o)'
                               /\ \A q \in Modules : made'[i] \in Holds(q)' => q = o
  <2>1. CASE i \in 1..n
    <3>1. made'[i] = made[i] /\ made[i] # r
      <4>1. made'[i] = made[i] /\ made[i].id = i
        BY <1>1, <1>2, <2>1 DEF IdInv
      <4> QED BY <1>1, <2>1, <4>1
    <3>2. \A q \in Modules : made[i] \in Holds(q)' <=> made[i] \in Holds(q)
      BY <3>1
    <3>3. \E o \in Modules : /\ made[i] \in Holds(o)
                            /\ \A q \in Modules : made[i] \in Holds(q) => q = o
      BY <1>1, <2>1 DEF IdInv, NoReceiverLost
    <3> QED BY <3>1, <3>2, <3>3
  <2>2. CASE i = n + 1
    <3>1. made'[i] = r
      BY <1>2, <2>2
    <3>2. \A q \in Modules : r \notin Holds(q)
      BY FreshId
    <3> QED BY <3>1, <3>2
  <2>3. i \in 1..n \/ i = n + 1
    BY <1>1, <1>2
  <2> QED BY <2>1, <2>2, <2>3
<1> QED BY <1>2, <1>3, <1>4, <1>5, <1>6 DEF NoReceiverLost

\* Receivers that change hands stay held by one module.
LEMMA MovedReceivers ==
  ASSUME IdInv, UNCHANGED <<sequence, made>>, NEW p \in Modules, NEW other \in Modules,
         Holds(p)' = Holds(p) \cup Holds(other), p # other => Holds(other)' = {},
         \A q \in Modules \ {p, other} : Holds(q)' = Holds(q)
  PROVE  /\ \A q \in Modules : \A x \in Holds(q)' : \E i \in DOMAIN made' : x = made'[i]
         /\ NoReceiverLost'
<1>1. ASSUME NEW q \in Modules, NEW x \in Holds(q)'
      PROVE  \E o \in Modules : x \in Holds(o)
  BY <1>1
<1>2. ASSUME NEW i \in DOMAIN made
      PROVE  \E o \in Modules : /\ made[i] \in Holds(o)'
                               /\ \A q \in Modules : made[i] \in Holds(q)' => q = o
  <2>1. PICK o \in Modules : /\ made[i] \in Holds(o)
                             /\ \A q \in Modules : made[i] \in Holds(q) => q = o
    BY <1>2 DEF IdInv, NoReceiverLost
  <2>2. CASE o \in {p, other}
    <3>1. made[i] \in Holds(p)'
      BY <2>1, <2>2
    <3>2. \A q \in Modules \ {p, other} : made[i] \notin Holds(q)'
      BY <2>1, <2>2
    <3> QED BY <3>1, <3>2
  <2>3. CASE o \notin {p, other}
    BY <2>1, <2>3
  <2> QED BY <2>2, <2>3
<1>3. \A q \in Modules : \A x \in Holds(q)' : \E i \in DOMAIN made' : x = made'[i]
  BY <1>1 DEF IdInv
<1> QED BY <1>2, <1>3 DEF NoReceiverLost

LEMMA IdStep == IdInv /\ [Next]_vars => IdInv'
<1> SUFFICES ASSUME IdInv, [Next]_vars
             PROVE  IdInv'
  OBVIOUS
<1>0. sequence \in Nat
  BY DEF IdInv
<1>1. ASSUME NEW p \in Modules, Register(p)
      PROVE  IdInv'
  <2>1. entry[p].receivers = {} /\ entry' = [entry EXCEPT ![p] = NoEntry]
    BY <1>1 DEF Register, IdInv
  <2>2. NoEntry \in [receivers : SUBSET Profiles, pollers : Seq(Pollers)]
    BY DEF NoEntry
  <2>3. \A q \in Modules : entry'[q].receivers = entry[q].receivers
    BY <2>1 DEF IdInv, NoEntry
  <2>4. \A q \in Modules : Holds(q)' = Holds(q)
    BY <1>1, <2>3 DEF Register, Holds
  <2>5. UNCHANGED <<sequence, made, receivers>> /\ DOMAIN stage' = Modules
    BY <1>1 DEF Register, IdInv
  <2>6. entry' \in [Modules -> [receivers : SUBSET Profiles, pollers : Seq(Pollers)]]
    BY <2>1, <2>2 DEF IdInv
  <2>7. \A q \in Modules : stage'[q] # "entry" => entry'[q].receivers = {}
    BY <1>1, <2>3 DEF Register, IdInv
  <2>8. NoReceiverLost'
    BY <2>4, <2>5 DEF IdInv, NoReceiverLost
  <2> QED BY <2>4, <2>5, <2>6, <2>7, <2>8 DEF IdInv
<1>2. ASSUME NEW p \in Modules, NEW type \in Subscriptions, Subscribe(p, type)
      PROVE  IdInv'
  <2> DEFINE r == Typed(sequence, type[1], type[2])
             new == [receivers |-> Insert(entry[p].receivers, r),
                     pollers   |-> entry[p].pollers \o <<<<r.id, "messages">>, <<r.id, "events">>>>]
  <2>1. r \in Profiles /\ r.id = sequence
    BY <1>0, TypedProfile
  <2>2. Made(r) /\ stage[p] = "entry" /\ UNCHANGED <<stage, receivers>>
    BY <1>2 DEF Subscribe, NextId
  <2>3. Insert(entry[p].receivers, r) = entry[p].receivers \cup {r}
    BY <2>1, FreshId DEF Insert, Holds
  <2>4. entry' = [entry EXCEPT ![p] = new]
    BY <1>2 DEF Subscribe, NextId
  <2>5. new \in [receivers : SUBSET Profiles, pollers : Seq(Pollers)]
    <3>1. entry[p] \in [receivers : SUBSET Profiles, pollers : Seq(Pollers)]
      BY DEF IdInv
    <3>2. <<<<r.id, "messages">>, <<r.id, "events">>>> \in Seq(Pollers)
      <4>1. r.id \in Nat
        BY <1>0, <2>1
      <4> DEFINE first == <<r.id, "messages">>
                 second == <<r.id, "events">>
      <4>2. first \in Pollers /\ second \in Pollers
        BY <4>1 DEF Pollers
      <4> HIDE DEF first, second
      <4>3. <<first, second>> \in Seq(Pollers)
        BY <4>2
      <4> QED BY <4>3 DEF first, second
    <3>3. entry[p].pollers \o <<<<r.id, "messages">>, <<r.id, "events">>>> \in Seq(Pollers)
      BY <3>1, <3>2
    <3>4. Insert(entry[p].receivers, r) \in SUBSET Profiles
      BY <2>1, <2>3, <3>1
    <3> QED BY <3>3, <3>4
  <2>6. entry' \in [Modules -> [receivers : SUBSET Profiles, pollers : Seq(Pollers)]]
    BY <2>4, <2>5 DEF IdInv
  <2>7. /\ entry'[p].receivers = entry[p].receivers \cup {r}
        /\ \A q \in Modules \ {p} : entry'[q] = entry[q]
    BY <2>3, <2>4 DEF IdInv
  <2>8. Holds(p)' = Holds(p) \cup {r} /\ \A q \in Modules \ {p} : Holds(q)' = Holds(q)
    BY <2>2, <2>7 DEF Holds
  <2>9. \A q \in Modules : stage'[q] # "entry" => entry'[q].receivers = {}
    BY <2>2, <2>7 DEF IdInv
  <2>10. /\ made' \in Seq(Profiles)
         /\ sequence' = Len(made') + 1
         /\ \A i \in DOMAIN made' : made'[i].id = i
         /\ \A q \in Modules : \A x \in Holds(q)' : \E i \in DOMAIN made' : x = made'[i]
         /\ NoReceiverLost'
    <3> HIDE DEF r
    <3> QED BY <2>1, <2>2, <2>8, NewReceiver
  <2> QED BY <2>2, <2>6, <2>9, <2>10 DEF IdInv
<1>3. ASSUME NEW p \in Modules, Done(p)
      PROVE  IdInv'
  <2>1. /\ entry' = [entry EXCEPT ![p] = NoEntry]
        /\ UNCHANGED <<sequence, made>>
        /\ DOMAIN stage' = Modules /\ DOMAIN receivers' = Modules
    BY <1>3 DEF Done, IdInv
  <2>2. entry' \in [Modules -> [receivers : SUBSET Profiles, pollers : Seq(Pollers)]]
    BY <2>1 DEF IdInv, NoEntry
  <2>3. receivers'[p] = receivers[p]
          \cup {r \in entry[p].receivers : \A x \in receivers[p] : x.id # r.id}
    BY <1>3 DEF Done, IdInv
  <2>4. receivers'[p] = Holds(p)
    <3>1. ASSUME NEW r \in entry[p].receivers, NEW x \in receivers[p], x.id = r.id
          PROVE  r \in receivers[p]
      BY <3>1, SameId DEF Holds
    <3> QED BY <2>3, <3>1 DEF Holds
  <2>5. entry'[p].receivers = {}
    BY <2>1 DEF IdInv, NoEntry
  <2>6. Holds(p)' = Holds(p)
    BY <2>4, <2>5 DEF Holds
  <2>7. \A q \in Modules \ {p} : Holds(q)' = Holds(q)
    BY <1>3 DEF Done, Holds, IdInv
  <2>8. \A q \in Modules : stage'[q] # "entry" => entry'[q].receivers = {}
    BY <1>3, <2>5 DEF Done, IdInv
  <2>9. /\ \A q \in Modules : \A x \in Holds(q)' : \E i \in DOMAIN made' : x = made'[i]
        /\ NoReceiverLost'
    BY <2>1, <2>6, <2>7, MovedReceivers
  <2> QED BY <2>1, <2>2, <2>8, <2>9 DEF IdInv
<1>4. ASSUME NEW p \in Modules, NEW table \in RelayTables, RegisterRelay(p, table)
      PROVE  IdInv'
  <2> DEFINE r == Relayed(sequence, table)
  <2>1. r \in Profiles /\ r.id = sequence
    BY <1>0, RelayedProfile
  <2>2. Made(r) /\ UNCHANGED <<stage, entry>>
    BY <1>4 DEF RegisterRelay, NextId
  <2>3. receivers' = [receivers EXCEPT ![p] = Insert(@, r)]
    BY <1>4 DEF RegisterRelay, NextId
  <2>4. Insert(receivers[p], r) = receivers[p] \cup {r}
    BY <2>1, FreshId DEF Insert, Holds
  <2>5. /\ receivers'[p] = receivers[p] \cup {r} /\ DOMAIN receivers' = Modules
        /\ \A q \in Modules \ {p} : receivers'[q] = receivers[q]
    <3> HIDE DEF r
    <3> QED BY <2>3, <2>4 DEF IdInv
  <2>6. Holds(p)' = Holds(p) \cup {r} /\ \A q \in Modules \ {p} : Holds(q)' = Holds(q)
    BY <2>2, <2>5 DEF Holds
  <2>7. /\ made' \in Seq(Profiles)
        /\ sequence' = Len(made') + 1
        /\ \A i \in DOMAIN made' : made'[i].id = i
        /\ \A q \in Modules : \A x \in Holds(q)' : \E i \in DOMAIN made' : x = made'[i]
        /\ NoReceiverLost'
    <3> HIDE DEF r
    <3> QED BY <2>1, <2>2, <2>6, NewReceiver
  <2> QED BY <2>2, <2>5, <2>7 DEF IdInv
<1>5. ASSUME NEW p \in Modules, NEW other \in Modules, AddModule(p, other)
      PROVE  IdInv'
  <2>1. /\ p # other /\ stage[p] = "module" /\ stage[other] = "module"
        /\ UNCHANGED <<sequence, made, entry>>
        /\ stage' = [stage EXCEPT ![other] = "moved"]
    BY <1>5 DEF AddModule
  <2>2. entry[p].receivers = {} /\ entry[other].receivers = {}
    BY <2>1 DEF IdInv
  <2>3. /\ receivers'[p] = receivers[p]
             \cup {r \in receivers[other] : \A x \in receivers[p] : x.id # r.id}
        /\ receivers'[other] = {} /\ DOMAIN receivers' = Modules
        /\ \A q \in Modules \ {p, other} : receivers'[q] = receivers[q]
    BY <1>5, <2>1 DEF AddModule, IdInv
  <2>4. receivers'[p] = receivers[p] \cup receivers[other]
    <3>1. ASSUME NEW r \in receivers[other], NEW x \in receivers[p], x.id = r.id
          PROVE  r \in receivers[p]
      BY <3>1, SameId DEF Holds
    <3> QED BY <2>3, <3>1
  <2>5. /\ Holds(p)' = Holds(p) \cup Holds(other) /\ Holds(other)' = {}
        /\ \A q \in Modules \ {p, other} : Holds(q)' = Holds(q)
    BY <2>1, <2>2, <2>3, <2>4 DEF Holds
  <2>6. \A q \in Modules : stage'[q] # "entry" => entry'[q].receivers = {}
    BY <2>1, <2>2 DEF IdInv
  <2>7. /\ \A q \in Modules : \A x \in Holds(q)' : \E i \in DOMAIN made' : x = made'[i]
        /\ NoReceiverLost'
    BY <2>1, <2>5, MovedReceivers
  <2>8. DOMAIN stage' = Modules
    BY <2>1 DEF IdInv
  <2> QED BY <2>1, <2>3, <2>6, <2>7, <2>8 DEF IdInv
<1>6. ASSUME UNCHANGED <<sequence, receivers, entry, made>>, DOMAIN stage' = Modules,
             \A q \in Modules : stage[q] = "entry" => stage'[q] = "entry"
      PROVE  IdInv'
  <2>1. \A q \in Modules : Holds(q)' = Holds(q)
    BY <1>6 DEF Holds
  <2>2. NoReceiverLost'
    BY <1>6, <2>1 DEF IdInv, NoReceiverLost
  <2> QED BY <1>6, <2>1, <2>2 DEF IdInv
<1>7. CASE Build \/ Built
  BY <1>6, <1>7, BuilderAssumption DEF Build, Built, IdInv
<1>8. CASE Spawn \/ (\E r \in receivers[Root] : SendInit(r)) \/ UNCHANGED vars
  BY <1>6, <1>8 DEF Spawn, SendInit, vars, IdInv
<1> QED BY <1>1, <1>2, <1>3, <1>4, <1>5, <1>7, <1>8 DEF Next

LEMMA InitIds == Init => IdInv
<1> SUFFICES ASSUME Init
             PROVE  IdInv
  OBVIOUS
<1>1. NoEntry \in [receivers : SUBSET Profiles, pollers : Seq(Pollers)]
  BY DEF NoEntry
<1>2. entry \in [Modules -> [receivers : SUBSET Profiles, pollers : Seq(Pollers)]]
  BY <1>1 DEF Init
<1>3. \A p \in Modules : Holds(p) = {} /\ entry[p].receivers = {}
  BY DEF Init, Holds, NoEntry
<1>4. made = <<>> /\ sequence = 1 /\ DOMAIN made = {} /\ Len(made) = 0
  BY DEF Init
<1> QED BY <1>2, <1>3, <1>4 DEF Init, IdInv, NoReceiverLost

LEMMA IdInvariant == Spec => []IdInv
BY InitIds, IdStep, PTL DEF Spec

\* No receiver is lost while modules are put together, by however many threads:
\* RECEVIER_ID_SEQ gives every receiver an id of its own.
THEOREM ReceiversKept == Spec => []NoReceiverLost
<1>1. IdInv => NoReceiverLost
  BY DEF IdInv
<1> QED BY <1>1, IdInvariant, PTL

---------------------------------------------------------------------------
(* The pollers.  Every receiver has its pollers in the list of whoever      *)
(* holds it, once, and those of the bus move from there to the runtime.     *)

LEMMA Concatenated ==
  ASSUME NEW T, NEW a \in Seq(T), NEW b \in Seq(T)
  PROVE  /\ a \o b \in Seq(T) /\ Range(a \o b) = Range(a) \cup Range(b)
         /\ IsInjective(a) /\ IsInjective(b) /\ Range(a) \cap Range(b) = {}
              => IsInjective(a \o b)
<1> DEFINE m == Len(a)
           n == Len(b)
<1>1. /\ m \in Nat /\ n \in Nat /\ DOMAIN a = 1..m /\ DOMAIN b = 1..n
      /\ a \o b \in Seq(T) /\ DOMAIN (a \o b) = 1..(m + n)
      /\ \A i \in 1..m : (a \o b)[i] = a[i]
      /\ \A i \in 1..n : (a \o b)[m + i] = b[i]
  BY ConcatProperties, LenProperties
<1> HIDE DEF m, n
<1>2. \A i \in 1..(m + n) : i \in 1..m \/ (i - m \in 1..n /\ i = m + (i - m))
  BY <1>1
<1>3. \A i \in 1..m : i \in 1..(m + n)
  BY <1>1
<1>4. \A i \in 1..n : m + i \in 1..(m + n)
  BY <1>1
<1>5. \A i \in 1..(m + n) :
        \/ i \in DOMAIN a /\ (a \o b)[i] = a[i]
        \/ i - m \in DOMAIN b /\ (a \o b)[i] = b[i - m]
  BY <1>1, <1>2
<1>6. Range(a \o b) = Range(a) \cup Range(b)
  <2>1. ASSUME NEW i \in DOMAIN a
        PROVE  a[i] \in Range(a \o b)
    BY <1>1, <1>3 DEF Range
  <2>2. ASSUME NEW i \in DOMAIN b
        PROVE  b[i] \in Range(a \o b)
    BY <1>1, <1>4 DEF Range
  <2>3. Range(a \o b) \subseteq Range(a) \cup Range(b)
    BY <1>1, <1>5 DEF Range
  <2> QED BY <2>1, <2>2, <2>3 DEF Range
<1>7. ASSUME IsInjective(a), IsInjective(b), Range(a) \cap Range(b) = {},
             NEW i \in 1..(m + n), NEW j \in 1..(m + n), (a \o b)[i] = (a \o b)[j]
      PROVE  i = j
  <2>1. \A k \in DOMAIN a, l \in DOMAIN b : a[k] # b[l]
    BY <1>7 DEF Range
  <2>2. CASE i \in DOMAIN a /\ (a \o b)[i] = a[i]
    BY <1>5, <1>7, <2>1, <2>2 DEF IsInjective
  <2>3. CASE i - m \in DOMAIN b /\ (a \o b)[i] = b[i - m]
    <3>1. j - m \in DOMAIN b /\ (a \o b)[j] = b[j - m]
      BY <1>5, <1>7, <2>1, <2>3
    <3>2. i - m = j - m
      BY <1>7, <2>3, <3>1 DEF IsInjective
    <3> QED BY <1>1, <3>2
  <2> QED BY <1>5, <2>2, <2>3
<1> QED BY <1>1, <1>6, <1>7 DEF IsInjective

LEMMA Appended ==
  ASSUME NEW T, NEW a \in Seq(T), NEW x \in T
  PROVE  /\ Append(a, x) \in Seq(T) /\ Range(Append(a, x)) = Range(a) \cup {x}
         /\ IsInjective(a) /\ x \notin Range(a) => IsInjective(Append(a, x))
<1>1. PICK b \in Seq(T) : b = <<x>> /\ Append(a, x) = a \o b
  <2>1. <<x>> \in Seq(T) /\ Append(a, x) = a \o <<x>>
    BY AppendIsConcat
  <2> QED BY <2>1
<1>2. DOMAIN b = {1} /\ b[1] = x
  BY <1>1
<1>3. Range(b) = {x} /\ IsInjective(b)
  BY <1>2 DEF Range, IsInjective
<1>4. a \o b \in Seq(T) /\ Range(a \o b) = Range(a) \cup Range(b)
  BY Concatenated
<1>5. ASSUME IsInjective(a), x \notin Range(a)
      PROVE  IsInjective(a \o b)
  <2>1. Range(a) \cap Range(b) = {}
    BY <1>3, <1>5
  <2> QED BY <1>3, <1>5, <2>1, Concatenated
<1> QED BY <1>1, <1>3, <1>4, <1>5

LEMMA TakenOff ==
  ASSUME NEW T, NEW q \in Seq(T), q # <<>>
  PROVE  /\ Head(q) \in T /\ Tail(q) \in Seq(T)
         /\ Range(q) = {Head(q)} \cup Range(Tail(q))
         /\ IsInjective(q) => IsInjective(Tail(q)) /\ Head(q) \notin Range(Tail(q))
<1> DEFINE n == Len(q)
<1>1. /\ Head(q) \in T /\ Tail(q) \in Seq(T) /\ Head(q) = q[1]
      /\ n \in Nat \ {0} /\ DOMAIN q = 1..n /\ DOMAIN Tail(q) = 1..(n - 1)
      /\ \A i \in 1..(n - 1) : Tail(q)[i] = q[i + 1]
  BY HeadTailProperties, LenProperties, EmptySeq
<1> HIDE DEF n
<1>2. /\ 1 \in 1..n /\ \A i \in 1..(n - 1) : i + 1 \in 1..n /\ i + 1 # 1
      /\ \A i \in 1..n : i = 1 \/ (i - 1 \in 1..(n - 1) /\ (i - 1) + 1 = i)
  BY <1>1
<1>3. Range(q) = {Head(q)} \cup Range(Tail(q))
  <2>1. ASSUME NEW i \in 1..n
        PROVE  q[i] \in {Head(q)} \cup Range(Tail(q))
    <3>1. CASE i = 1
      BY <1>1, <3>1
    <3>2. CASE i - 1 \in 1..(n - 1) /\ (i - 1) + 1 = i
      <4>1. Tail(q)[i - 1] = q[i]
        BY <1>1, <3>2
      <4> QED BY <1>1, <3>2, <4>1 DEF Range
    <3> QED BY <1>2, <2>1, <3>1, <3>2
  <2>2. ASSUME NEW i \in 1..(n - 1)
        PROVE  Tail(q)[i] \in Range(q)
    BY <1>1, <1>2 DEF Range
  <2>3. Head(q) \in Range(q)
    BY <1>1, <1>2 DEF Range
  <2> QED BY <1>1, <2>1, <2>2, <2>3 DEF Range
<1>4. ASSUME IsInjective(q)
      PROVE  IsInjective(Tail(q)) /\ Head(q) \notin Range(Tail(q))
  <2>1. ASSUME NEW i \in 1..(n - 1), NEW j \in 1..(n - 1), Tail(q)[i] = Tail(q)[j]
        PROVE  i = j
    <3>1. i + 1 = j + 1
      BY <1>1, <1>2, <1>4, <2>1 DEF IsInjective
    <3> QED BY <1>1, <3>1
  <2>2. ASSUME NEW i \in 1..(n - 1)
        PROVE  Head(q) # Tail(q)[i]
    BY <1>1, <1>2, <1>4 DEF IsInjective
  <2> QED BY <1>1, <2>1, <2>2 DEF IsInjective, Range
<1> QED BY <1>1, <1>3, <1>4

\* The pollers of a set of receivers, and that those of receivers with ids of their own
\* are others.
PollersOf(rs) ==
  {<<r.id, "events">> : r \in rs} \cup {<<r.id, "messages">> : r \in {x \in rs : ~x.relay}}

LEMMA PollersJoin ==
  ASSUME NEW rs, NEW xs
  PROVE  /\ PollersOf(rs \cup xs) = PollersOf(rs) \cup PollersOf(xs)
         /\ (\A r \in rs : \A x \in xs : r.id # x.id) => PollersOf(rs) \cap PollersOf(xs) = {}
BY DEF PollersOf

\* A list with the pollers of some receivers, each of them once, but for those that
\* are gone; and one that takes over the list of others.
Lists(q, gone, rs) ==
  /\ q \in Seq(Pollers) /\ IsInjective(q)
  /\ Range(q) \cap gone = {}
  /\ Range(q) \cup gone = PollersOf(rs)

LEMMA Joined ==
  ASSUME NEW q, NEW new, NEW gone, NEW rs, NEW xs, Lists(q, gone, rs), Lists(new, {}, xs),
         \A r \in rs : \A x \in xs : r.id # x.id
  PROVE  Lists(q \o new, gone, rs \cup xs)
<1>1. PollersOf(rs) \cap PollersOf(xs) = {} /\ PollersOf(rs \cup xs) = PollersOf(rs) \cup PollersOf(xs)
  BY PollersJoin
<1>2. /\ q \o new \in Seq(Pollers) /\ Range(q \o new) = Range(q) \cup Range(new)
      /\ Range(q) \cap Range(new) = {} => IsInjective(q \o new)
  BY Concatenated DEF Lists
<1> QED BY <1>1, <1>2 DEF Lists

LEMMA NothingListed == Lists(<<>>, {}, {})
<1>1. Range(<<>>) = {} /\ PollersOf({}) = {} /\ IsInjective(<<>>) /\ <<>> \in Seq(Pollers)
  BY DEF Range, PollersOf, IsInjective
<1> QED BY <1>1 DEF Lists

\* The pollers that subscribe and register_relay make for a receiver.
LEMMA SubscribePollers ==
  ASSUME NEW n \in Nat, NEW type \in Subscriptions
  PROVE  LET r    == Typed(n, type[1], type[2])
             list == <<<<n, "messages">>, <<n, "events">>>>
         IN  Lists(list, {}, {r})
<1> DEFINE r == Typed(n, type[1], type[2])
           first == <<n, "messages">>
           second == <<n, "events">>
<1>1. first \in Pollers /\ second \in Pollers /\ first # second
  BY DEF Pollers
<1>2. r.id = n /\ ~r.relay
  BY DEF Typed
<1>3. PollersOf({r}) = {first, second}
  BY <1>2 DEF PollersOf
<1> HIDE DEF first, second, r
<1>4. /\ <<first, second>> \in Seq(Pollers) /\ DOMAIN <<first, second>> = {1, 2}
      /\ <<first, second>>[1] = first /\ <<first, second>>[2] = second
  BY <1>1
<1>5. IsInjective(<<first, second>>) /\ Range(<<first, second>>) = {first, second}
  BY <1>1, <1>4 DEF IsInjective, Range
<1>6. Lists(<<first, second>>, {}, {r})
  BY <1>3, <1>4, <1>5 DEF Lists
<1> QED BY <1>6 DEF first, second, r

LEMMA RelayPollers ==
  ASSUME NEW n \in Nat, NEW table \in RelayTables
  PROVE  Lists(<<<<n, "events">>>>, {}, {Relayed(n, table)})
<1> DEFINE r == Relayed(n, table)
           poller == <<n, "events">>
<1>1. poller \in Pollers /\ r.id = n /\ r.relay
  BY DEF Relayed, Pollers
<1>2. PollersOf({r}) = {poller}
  BY <1>1 DEF PollersOf
<1> HIDE DEF poller, r
<1>3. <<poller>> \in Seq(Pollers) /\ DOMAIN <<poller>> = {1} /\ <<poller>>[1] = poller
  BY <1>1
<1>4. IsInjective(<<poller>>) /\ Range(<<poller>>) = {poller}
  BY <1>3 DEF IsInjective, Range
<1>5. Lists(<<poller>>, {}, {r})
  BY <1>2, <1>3, <1>4 DEF Lists
<1> QED BY <1>5 DEF poller, r

\* The pollers of a module that were spawned.
Gone(p) == IF p = Root THEN Range(spawned) ELSE {}
EntryPolled(p) ==
  /\ Lists(entry[p].pollers, {}, entry[p].receivers)
  /\ entry[p].receivers \cap receivers[p] = {}
ListPolled(p) == Lists(pollings[p], Gone(p), receivers[p])
PollInv ==
  /\ IdInv /\ DOMAIN pollings = Modules /\ Len(made) <= MaxReceivers
  /\ \A p \in Modules : EntryPolled(p) /\ ListPolled(p)
  /\ spawned \in Seq(Pollers) /\ IsInjective(spawned)
  /\ inits \in [1..MaxReceivers -> {0, 1}]
  /\ IsBuilt => pollings[Root] = <<>> /\ \A r \in receivers[Root] : inits[r.id] = 1

\* Receivers at two places have two ids.
LEMMA HeldApart ==
  ASSUME PollInv, NEW p \in Modules, NEW q \in Modules, p # q,
         NEW r \in Holds(p), NEW x \in Holds(q)
  PROVE  r.id # x.id
<1> SUFFICES ASSUME r.id = x.id
             PROVE  FALSE
  OBVIOUS
<1>1. r = x
  BY SameId DEF PollInv
<1>2. PICK i \in DOMAIN made : r = made[i]
  BY DEF PollInv, IdInv
<1> QED BY <1>1, <1>2 DEF PollInv, IdInv, NoReceiverLost

LEMMA EntryApart ==
  ASSUME PollInv, NEW p \in Modules, NEW r \in receivers[p], NEW x \in entry[p].receivers
  PROVE  r.id # x.id
<1> SUFFICES ASSUME r.id = x.id
             PROVE  FALSE
  OBVIOUS
<1>1. r = x
  BY SameId DEF PollInv, Holds
<1> QED BY <1>1 DEF PollInv, EntryPolled

LEMMA PollStep == PollInv /\ [Next]_vars => PollInv'
<1> SUFFICES ASSUME PollInv, [Next]_vars
             PROVE  PollInv'
  OBVIOUS
<1>1. IdInv' /\ sequence \in Nat
  BY IdStep DEF PollInv, IdInv
<1>0. ASSUME NEW r \in Profiles, Made(r)
      PROVE  Len(made') <= MaxReceivers
  <2>1. made \in Seq(Profiles) /\ made' = Append(made, r) /\ Len(made) < MaxReceivers
    BY <1>0 DEF Made, PollInv, IdInv
  <2>2. Len(made') = Len(made) + 1 /\ Len(made) \in Nat /\ MaxReceivers \in Nat
    BY <2>1, BuilderAssumption
  <2> QED BY <2>1, <2>2
<1>2. ASSUME NEW p \in Modules, Register(p)
      PROVE  PollInv'
  <2>1. /\ entry' = [entry EXCEPT ![p] = NoEntry] /\ stage[p] = "module"
        /\ stage' = [stage EXCEPT ![p] = "entry"]
        /\ UNCHANGED <<receivers, pollings, spawned, inits, made>>
    BY <1>2 DEF Register
  <2>3. EntryPolled(p)'
    BY <2>1, NothingListed DEF PollInv, IdInv, EntryPolled, NoEntry
  <2>4. ASSUME NEW q \in Modules
        PROVE  (EntryPolled(q) /\ ListPolled(q))'
    <3>1. q # p => EntryPolled(q)'
      BY <2>1 DEF PollInv, IdInv, EntryPolled
    <3>2. ListPolled(q)'
      BY <2>1 DEF PollInv, ListPolled, Gone
    <3> QED BY <2>3, <3>1, <3>2
  <2>5. IsBuilt' => IsBuilt
    BY <2>1 DEF IsBuilt, PollInv, IdInv
  <2> QED BY <1>1, <2>1, <2>4, <2>5 DEF PollInv
<1>3. ASSUME NEW p \in Modules, NEW type \in Subscriptions, Subscribe(p, type)
      PROVE  PollInv'
  <2> DEFINE r == Typed(sequence, type[1], type[2])
             list == <<<<sequence, "messages">>, <<sequence, "events">>>>
  <2>1. Lists(list, {}, {r})
    BY <1>1, SubscribePollers
  <2>2. r.id = sequence
    BY DEF Typed
  <2>3. /\ Made(r) /\ stage[p] = "entry"
        /\ UNCHANGED <<stage, receivers, pollings, spawned, inits>>
        /\ entry' = [entry EXCEPT ![p] =
             [receivers |-> Insert(@.receivers, r), pollers |-> @.pollers \o list]]
    BY <1>3, <2>2 DEF Subscribe, NextId
  <2> HIDE DEF r, list
  <2>4. Insert(entry[p].receivers, r) = entry[p].receivers \cup {r}
    BY <2>2, FreshId DEF Insert, Holds, PollInv
  <2>5. /\ entry'[p].receivers = entry[p].receivers \cup {r}
        /\ entry'[p].pollers = entry[p].pollers \o list
        /\ \A q \in Modules \ {p} : entry'[q] = entry[q]
    BY <2>3, <2>4 DEF PollInv, IdInv
  <2>6. EntryPolled(p)'
    <3>1. \A x \in entry[p].receivers \cup receivers[p] : x.id # r.id
      BY <2>2, FreshId DEF Holds, PollInv
    <3>2. \A x \in entry[p].receivers : \A y \in {r} : x.id # y.id
      BY <3>1
    <3>3. Lists(entry[p].pollers, {}, entry[p].receivers)
      BY DEF PollInv, EntryPolled
    <3>4. Lists(entry[p].pollers \o list, {}, entry[p].receivers \cup {r})
      BY <2>1, <3>2, <3>3, Joined
    <3>5. (entry[p].receivers \cup {r}) \cap receivers[p] = {}
      BY <3>1 DEF PollInv, EntryPolled
    <3> QED BY <2>3, <2>5, <3>4, <3>5 DEF EntryPolled
  <2>7. ASSUME NEW q \in Modules
        PROVE  (EntryPolled(q) /\ ListPolled(q))'
    <3>1. q # p => EntryPolled(q)'
      BY <2>3, <2>5 DEF PollInv, EntryPolled
    <3>2. ListPolled(q)'
      BY <2>3 DEF PollInv, ListPolled, Gone
    <3> QED BY <2>6, <3>1, <3>2
  <2>8. Len(made') <= MaxReceivers
    <3>1. r \in Profiles
      BY <1>1, TypedProfile DEF r
    <3> QED BY <1>0, <2>3, <3>1
  <2> QED BY <1>1, <2>3, <2>7, <2>8 DEF PollInv, IsBuilt
<1>4. ASSUME NEW p \in Modules, Done(p)
      PROVE  PollInv'
  <2>1. /\ entry' = [entry EXCEPT ![p] = NoEntry] /\ stage[p] = "entry"
        /\ stage' = [stage EXCEPT ![p] = "module"]
        /\ UNCHANGED <<spawned, inits, made>>
        /\ receivers'[p] = receivers[p]
             \cup {r \in entry[p].receivers : \A x \in receivers[p] : x.id # r.id}
        /\ pollings'[p] = pollings[p] \o entry[p].pollers
        /\ DOMAIN pollings' = Modules
        /\ \A q \in Modules \ {p} : receivers'[q] = receivers[q] /\ pollings'[q] = pollings[q]
    BY <1>4 DEF Done, PollInv, IdInv
  <2>2. receivers'[p] = receivers[p] \cup entry[p].receivers
    BY <2>1, EntryApart
  <2>3. EntryPolled(p)'
    BY <2>1, NothingListed DEF PollInv, IdInv, EntryPolled, NoEntry
  <2>4. ListPolled(p)'
    <3>1. \A r \in receivers[p] : \A x \in entry[p].receivers : r.id # x.id
      BY EntryApart
    <3>2. Lists(pollings[p], Gone(p), receivers[p]) /\ Lists(entry[p].pollers, {}, entry[p].receivers)
      BY DEF PollInv, ListPolled, EntryPolled
    <3>3. Lists(pollings'[p], Gone(p), receivers'[p])
      BY <2>1, <2>2, <3>1, <3>2, Joined
    <3> QED BY <2>1, <3>3 DEF ListPolled, Gone
  <2>5. ASSUME NEW q \in Modules
        PROVE  (EntryPolled(q) /\ ListPolled(q))'
    <3>1. CASE q = p
      BY <2>3, <2>4, <3>1
    <3>2. CASE q # p
      <4>1. EntryPolled(q)'
        BY <2>1, <3>2 DEF PollInv, IdInv, EntryPolled
      <4>2. ListPolled(q)'
        BY <2>1, <3>2 DEF PollInv, ListPolled, Gone
      <4> QED BY <4>1, <4>2
    <3> QED BY <3>1, <3>2
  <2>6. IsBuilt' => IsBuilt /\ p # Root
    <3>1. DOMAIN stage = Modules
      BY DEF PollInv, IdInv
    <3>2. stage'[p] = "module" /\ (p # Root => stage'[Root] = stage[Root])
      BY <2>1, <3>1
    <3> QED BY <3>2 DEF IsBuilt
  <2>7. IsBuilt' => pollings'[Root] = <<>> /\ \A r \in receivers'[Root] : inits'[r.id] = 1
    <3>1. p # Root => receivers'[Root] = receivers[Root] /\ pollings'[Root] = pollings[Root]
      BY <2>1, BuilderAssumption
    <3> QED BY <2>1, <2>6, <3>1 DEF PollInv
  <2> QED BY <1>1, <2>1, <2>5, <2>7 DEF PollInv

<1>5. ASSUME NEW p \in Modules, NEW table \in RelayTables, RegisterRelay(p, table)
      PROVE  PollInv'
  <2> DEFINE r == Relayed(sequence, table)
             poller == <<sequence, "events">>
  <2>1. Lists(<<poller>>, {}, {r})
    BY <1>1, RelayPollers
  <2>2. r.id = sequence
    BY DEF Relayed
  <2>3. /\ Made(r) /\ stage[p] = "module"
        /\ UNCHANGED <<stage, entry, spawned, inits>>
        /\ receivers' = [receivers EXCEPT ![p] = Insert(@, r)]
        /\ pollings' = [pollings EXCEPT ![p] = Append(@, poller)]
    BY <1>5, <2>2 DEF RegisterRelay, NextId
  <2> HIDE DEF r, poller
  <2>4. \A x \in Holds(p) : x.id # r.id
    BY <2>2, FreshId DEF PollInv
  <2>5. /\ receivers'[p] = receivers[p] \cup {r} /\ pollings'[p] = Append(pollings[p], poller)
        /\ DOMAIN pollings' = Modules
        /\ \A q \in Modules \ {p} : receivers'[q] = receivers[q] /\ pollings'[q] = pollings[q]
    BY <2>3, <2>4 DEF Insert, Holds, PollInv, IdInv
  <2>6. EntryPolled(p)'
    BY <2>3, <2>4, <2>5 DEF EntryPolled, Holds, PollInv
  <2>7. ListPolled(p)'
    <3>1. \A x \in receivers[p] : \A y \in {r} : x.id # y.id
      BY <2>4 DEF Holds
    <3>2. Lists(pollings[p], Gone(p), receivers[p])
      BY DEF PollInv, ListPolled
    <3>3. Lists(pollings[p] \o <<poller>>, Gone(p), receivers[p] \cup {r})
      BY <2>1, <3>1, <3>2, Joined
    <3>4. Append(pollings[p], poller) = pollings[p] \o <<poller>>
      <4>1. poller \in Pollers
        BY <1>1 DEF poller, Pollers
      <4>2. pollings[p] \in Seq(Pollers)
        BY <3>2 DEF Lists
      <4> QED BY <4>1, <4>2, AppendIsConcat
    <3> QED BY <2>3, <2>5, <3>3, <3>4 DEF ListPolled, Gone
  <2>8. ASSUME NEW q \in Modules
        PROVE  (EntryPolled(q) /\ ListPolled(q))'
    <3>1. CASE q = p
      BY <2>6, <2>7, <3>1
    <3>2. CASE q # p
      BY <2>3, <2>5, <3>2 DEF PollInv, EntryPolled, ListPolled, Gone
    <3> QED BY <3>1, <3>2
  <2>9. Len(made') <= MaxReceivers
    <3>1. r \in Profiles
      BY <1>1, RelayedProfile DEF r
    <3> QED BY <1>0, <2>3, <3>1
  <2>10. IsBuilt' => IsBuilt /\ p # Root
    BY <2>3 DEF IsBuilt
  <2> QED BY <1>1, <2>3, <2>5, <2>8, <2>9, <2>10, BuilderAssumption DEF PollInv
<1>6. ASSUME NEW p \in Modules, NEW other \in Modules, AddModule(p, other)
      PROVE  PollInv'
  <2>1. /\ p # other /\ stage[p] = "module" /\ stage[other] = "module" /\ other # Root
        /\ stage' = [stage EXCEPT ![other] = "moved"]
        /\ UNCHANGED <<entry, spawned, inits, made>>
        /\ receivers'[p] = receivers[p]
             \cup {r \in receivers[other] : \A x \in receivers[p] : x.id # r.id}
        /\ receivers'[other] = {}
        /\ pollings'[p] = pollings[p] \o pollings[other] /\ pollings'[other] = <<>>
        /\ DOMAIN pollings' = Modules
        /\ \A q \in Modules \ {p, other} :
             receivers'[q] = receivers[q] /\ pollings'[q] = pollings[q]
    BY <1>6 DEF AddModule, PollInv, IdInv
  <2>2. \A r \in receivers[p] : \A x \in Holds(other) : r.id # x.id
    BY <2>1, HeldApart DEF Holds
  <2>3. receivers'[p] = receivers[p] \cup receivers[other]
    BY <2>1, <2>2 DEF Holds
  <2>4. entry[p].receivers = {}
    BY <2>1 DEF PollInv, IdInv
  <2>5. ListPolled(p)'
    <3>1. /\ Lists(pollings[other], {}, receivers[other])
          /\ Lists(pollings[p], Gone(p), receivers[p])
      BY <2>1 DEF PollInv, ListPolled, Gone
    <3>2. \A r \in receivers[p] : \A x \in receivers[other] : r.id # x.id
      BY <2>2 DEF Holds
    <3>3. Lists(pollings'[p], Gone(p), receivers'[p])
      BY <2>1, <2>3, <3>1, <3>2, Joined
    <3> QED BY <2>1, <3>3 DEF ListPolled, Gone
  <2>6. ListPolled(other)'
    BY <2>1, NothingListed DEF ListPolled, Gone
  <2>7. ASSUME NEW q \in Modules
        PROVE  (EntryPolled(q) /\ ListPolled(q))'
    <3>1. EntryPolled(q)'
      BY <2>1, <2>3, <2>4 DEF PollInv, EntryPolled
    <3>2. CASE q \in {p, other}
      BY <2>5, <2>6, <3>1, <3>2
    <3>3. CASE q \notin {p, other}
      BY <2>1, <3>1, <3>3 DEF PollInv, ListPolled, Gone
    <3> QED BY <3>2, <3>3
  <2>8. IsBuilt' => IsBuilt /\ p # Root
    BY <2>1 DEF IsBuilt, PollInv, IdInv
  <2> QED BY <1>1, <2>1, <2>7, <2>8, BuilderAssumption DEF PollInv
<1>7. CASE Build
  <2>1. stage'[Root] = "spawning" /\ UNCHANGED <<receivers, pollings, entry, spawned, inits, made>>
    BY <1>7, BuilderAssumption DEF Build, PollInv, IdInv
  <2> QED BY <1>1, <2>1 DEF PollInv, EntryPolled, ListPolled, Gone, IsBuilt
<1>8. CASE Spawn
  <2> DEFINE q == pollings[Root]
  <2>1. /\ q # <<>> /\ stage[Root] = "spawning"
        /\ spawned' = Append(spawned, Head(q)) /\ pollings'[Root] = Tail(q)
        /\ DOMAIN pollings' = Modules
        /\ \A p \in Modules \ {Root} : pollings'[p] = pollings[p]
        /\ UNCHANGED <<stage, receivers, entry, inits, made>>
    BY <1>8, BuilderAssumption DEF Spawn, PollInv
  <2>2. /\ q \in Seq(Pollers) /\ IsInjective(q) /\ Range(q) \cap Range(spawned) = {}
        /\ Range(q) \cup Range(spawned) = PollersOf(receivers[Root])
    BY BuilderAssumption DEF PollInv, ListPolled, Lists, Gone
  <2> HIDE DEF q
  <2>3. /\ Head(q) \in Pollers /\ Tail(q) \in Seq(Pollers) /\ IsInjective(Tail(q))
        /\ Range(q) = {Head(q)} \cup Range(Tail(q)) /\ Head(q) \notin Range(Tail(q))
    BY <2>1, <2>2, TakenOff
  <2>4. /\ spawned' \in Seq(Pollers) /\ IsInjective(spawned')
        /\ Range(spawned') = Range(spawned) \cup {Head(q)}
    BY <2>1, <2>2, <2>3, Appended DEF PollInv
  <2>5. ListPolled(Root)'
    <3>1. /\ Range(pollings'[Root]) \cap Range(spawned') = {}
          /\ Range(pollings'[Root]) \cup Range(spawned') = PollersOf(receivers'[Root])
      BY <2>1, <2>2, <2>3, <2>4
    <3> QED BY <2>1, <2>3, <3>1 DEF ListPolled, Lists, Gone
  <2>6. \A p \in Modules : p # Root => ListPolled(p)'
    BY <2>1 DEF PollInv, ListPolled, Gone
  <2>7. \A p \in Modules : EntryPolled(p)'
    BY <2>1 DEF PollInv, EntryPolled
  <2> QED BY <1>1, <2>1, <2>4, <2>5, <2>6, <2>7 DEF PollInv, IsBuilt
<1>9. ASSUME NEW r \in receivers[Root], SendInit(r)
      PROVE  PollInv'
  <2>1. /\ inits[r.id] = 0 /\ inits' = [inits EXCEPT ![r.id] = @ + 1] /\ stage[Root] = "spawning"
        /\ UNCHANGED <<stage, receivers, pollings, entry, spawned, made>>
    BY <1>9 DEF SendInit
  <2>2. inits' \in [1..MaxReceivers -> {0, 1}]
    <3>1. PICK n : n = r.id
      OBVIOUS
    <3>2. inits' = [inits EXCEPT ![n] = 1]
      BY <2>1, <3>1
    <3> QED BY <3>2 DEF PollInv
  <2> QED BY <1>1, <2>1, <2>2 DEF PollInv, EntryPolled, ListPolled, Gone, IsBuilt
<1>10. CASE Built
  <2>1. /\ pollings[Root] = <<>> /\ \A r \in receivers[Root] : inits[r.id] > 0
        /\ UNCHANGED <<receivers, pollings, entry, spawned, inits, made>>
    BY <1>10 DEF Built
  <2>2. ASSUME NEW r \in receivers[Root]
        PROVE  inits[r.id] = 1
    <3>1. PICK i \in DOMAIN made : r = made[i] /\ r.id = i
      BY BuilderAssumption DEF PollInv, IdInv, Holds
    <3>2. Len(made) \in Nat /\ i \in 1..Len(made)
      BY DEF PollInv, IdInv
    <3>3. r.id \in 1..MaxReceivers
      BY <3>1, <3>2, BuilderAssumption DEF PollInv
    <3>4. inits[r.id] \in {0, 1} /\ inits[r.id] > 0
      BY <2>1, <3>3 DEF PollInv
    <3> QED BY <3>4
  <2> QED BY <1>1, <2>1, <2>2 DEF PollInv, EntryPolled, ListPolled, Gone
<1>11. CASE UNCHANGED vars
  BY <1>1, <1>11 DEF vars, PollInv, EntryPolled, ListPolled, Gone, IsBuilt
<1> QED BY <1>2, <1>3, <1>4, <1>5, <1>6, <1>7, <1>8, <1>9, <1>10, <1>11 DEF Next

LEMMA PollInvariant == Spec => []PollInv
<1>1. Init => PollInv
  <2> SUFFICES ASSUME Init
               PROVE  PollInv
    OBVIOUS
  <2>1. Gone(Root) = {} /\ \A p \in Modules : Gone(p) = {}
    BY DEF Init, Gone, Range
  <2>2. \A p \in Modules : EntryPolled(p) /\ ListPolled(p)
    BY <2>1, NothingListed DEF Init, EntryPolled, ListPolled, NoEntry
  <2>3. Len(made) <= MaxReceivers /\ ~IsBuilt
    BY BuilderAssumption DEF Init, IsBuilt
  <2>4. IdInv
    BY InitIds
  <2>5. spawned = <<>> /\ spawned \in Seq(Pollers) /\ IsInjective(spawned)
    BY NothingListed DEF Init, Lists
  <2> QED BY <2>2, <2>3, <2>4, <2>5 DEF Init, PollInv
<1> QED BY <1>1, PollStep, PTL DEF Spec

\* The bus that build returns polls every receiver's implementation and its event loop
\* once and nothing else, whoever made the receivers and however their modules were
\* nested, and every one of its receivers was sent Init once.
THEOREM PollersRunOnce == Spec => []PolledOnce
<1>1. PollInv => PolledOnce
  <2> SUFFICES ASSUME PollInv, IsBuilt
               PROVE  PolledOnce
    BY DEF PolledOnce
  <2>1. Range(spawned) = PollersOf(receivers[Root])
    <3>1. Range(<<>>) = {}
      BY DEF Range
    <3> QED BY <3>1, BuilderAssumption DEF PollInv, ListPolled, Lists, Gone
  <2>2. Range(spawned) = {spawned[i] : i \in DOMAIN spawned}
    BY DEF Range
  <2>3. \A i, j \in DOMAIN spawned : spawned[i] = spawned[j] => i = j
    BY DEF PollInv, IsInjective
  <2> QED BY <2>1, <2>2, <2>3 DEF PolledOnce, PollersOf, InBus, PollInv
<1> QED BY <1>1, PollInvariant, PTL

=============================================================================
