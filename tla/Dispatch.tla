------------------------------- MODULE Dispatch -------------------------------
(***************************************************************************)
(* Which receivers a call reaches: the types a receiver announces and      *)
(* accepts, the lookup table the bus makes of them, and select_receivers.  *)
(* An Option is a set with at most one element.                            *)
(***************************************************************************)
EXTENDS Sequences, Naturals

CONSTANT Tags   \* type tags

Option(S) == {{}} \cup {{x} : x \in S}
Ways == Option(Tags \X Tags)                   \* how a type is taken: as a plain
                                               \* message, or with <<resp, err>>
Tables == [Tags -> Seq(Ways)]                  \* MessageTable, <<>> for no entry
Queries == Tags \X Option(Tags) \X Option(Tags) \* LookupQuery

\* What is known of a receiver: a typed one has one message type, and a relay the
\* table it was made with.
Profiles == [id : Nat, relay : BOOLEAN, table : Tables]
Typed(n, m, way) ==
  [id |-> n, relay |-> FALSE, table |-> [t \in Tags |-> IF t = m THEN <<way>> ELSE <<>>]]
Relayed(n, table) == [id |-> n, relay |-> TRUE, table |-> table]

\* MessageTable::from: add_any for every entry.
AddAny(table, m, way) == [table EXCEPT ![m] = Append(@, way)]

WaysOf(r, m) == {r.table[m][i] : i \in DOMAIN r.table[m]}

\* accept_message of a table; a typed receiver takes any message of its type.
AcceptMessage(r, m) == IF r.relay THEN {} \in WaysOf(r, m) ELSE WaysOf(r, m) # {}

\* accept_request: some response and error go with the type, and agree with those
\* asked for.
AcceptRequest(r, m, resp, err) ==
  \E way \in WaysOf(r, m) : \E x \in way : resp \subseteq {x[1]} /\ err \subseteq {x[2]}

Accept(r, isReq, m, resp, err) ==
  IF isReq THEN AcceptRequest(r, m, resp, err) ELSE AcceptMessage(r, m)

\* MUTANT: no entry for the pair of a response and any error.
KeysWithoutResponse(m, way) ==
  {<<m, {}, {}>>} \cup UNION {{<<m, {}, {x[2]}>>, <<m, {x[1]}, {x[2]}>>} : x \in way}

\* MUTANT: the plain entry is made for plain messages only.
KeysOfRequest(m, way) ==
  {<<m, {}, {}>> : x \in {w \in {way} : w = {}}}
    \cup UNION {{<<m, {x[1]}, {}>>, <<m, {}, {x[2]}>>, <<m, {x[1]}, {x[2]}>>} : x \in way}

\* The entries BusInner::new makes for one of the types of a receiver.
Keys(m, way) ==
  {<<m, {}, {}>>}
    \cup UNION {{<<m, {x[1]}, {}>>, <<m, {}, {x[2]}>>, <<m, {x[1]}, {x[2]}>>} : x \in way}

\* BusInner::new.  An entry is a set: the order of its receivers is that of the
\* HashSet it was made from.
Lookup(receivers) ==
  [q \in Queries |-> {r \in receivers : \E m \in Tags : \E way \in WaysOf(r, m) : q \in Keys(m, way)}]

\* SendOptions; Broadcast, Random and Balanced leave every receiver in.
Chosen(options, r) ==
  CASE options[1] = "Except" -> r.id # options[2]
    [] options[1] = "Direct" -> r.id = options[2]
    [] OTHER                 -> TRUE

\* select_receivers
Select(lookup, m, options, resp, err, isReq) ==
  {r \in lookup[<<m, resp, err>>] : Accept(r, isReq, m, resp, err) /\ Chosen(options, r)}

\* The receivers of send, try_send, force_send and their like: the entry of the
\* type, whatever is asked of whom.
Reached(lookup, m) == lookup[<<m, {}, {}>>]
=============================================================================
