--------------------------------- MODULE Wire ---------------------------------
(***************************************************************************)
(* The protocol of the remote relays: how a ProtocolItem becomes the       *)
(* header and body of a packet and what the other side makes of it.  An    *)
(* item is what the relays queue: an Action, an Event or a Send.  Text and *)
(* the bytes of CBOR are left out: a body is the value it was made from.   *)
(***************************************************************************)
EXTENDS Naturals

CONSTANTS Bodies,     \* the messages that may travel
          KnownTo,    \* the sides that have the type of a message registered
          Sides       \* the two ends of a link

ASSUME WireAssumption == KnownTo \in [Bodies -> SUBSET Sides]

\* What an item carries besides its number: nothing, a message, an error with
\* the type tag it had, or a bare type tag.
Nothing == [is |-> "none"]
Message(m) == [is |-> "msg", body |-> m]
Failure(tag) == [is |-> "err", tag |-> tag]
Tag(tag) == [is |-> "tag", tag |-> tag]
GenericError == "GenericError"

\* ProtocolItem: "what" names its variant; num is the message id of a Send and
\* of a Response, n of a BatchComplete and the id in Action::Init.
Item(what, num, req, load) == [what |-> what, num |-> num, req |-> req, load |-> load]
Plain(what) == Item(what, 0, FALSE, Nothing)
Rejected == [what |-> "rejected"]

PlainActions == {"Close", "Flush", "Synchronize"}
PlainEvents == {"Ready", "Pause", "Exited", "Flushed", "Synchronized"}

\* MUTANT: a request does not set the ARGUMENT flag.
FlagsForgetful(x) ==
  {f \in {"TYPE_TAG", "BODY", "ERROR", "ARGUMENT"} :
     CASE f = "TYPE_TAG" -> x.load.is # "none"
       [] f = "BODY"     -> x.load.is \in {"msg", "err"}
       [] f = "ERROR"    -> x.load.is = "err"
       [] OTHER          -> x.what \in {"Response", "BatchComplete"}}

\* The ProtocolHeaderFlags serialize sets; ARGUMENT tells a request from a send.
Flags(x) ==
  {f \in {"TYPE_TAG", "BODY", "ERROR", "ARGUMENT"} :
     CASE f = "TYPE_TAG" -> x.load.is # "none"
       [] f = "BODY"     -> x.load.is \in {"msg", "err"}
       [] f = "ERROR"    -> x.load.is = "err"
       [] OTHER          -> x.what \in {"Response", "BatchComplete"} \/ x.req}

\* ProtocolItem::serialize with BodyType::Cbor.  An error is sent as its text
\* under the tag "GenericError", the id of Init is not sent, and InitFailed goes
\* out under the kind of Ready.
Serialize(x) ==
  [kind     |-> IF x.what = "InitFailed" THEN "Ready" ELSE x.what,
   flags    |-> Flags(x),
   codec    |-> IF x.load.is = "err" THEN "Utf8" ELSE "Cbor",
   argument |-> IF x.what = "Init" THEN 0 ELSE x.num,
   load     |-> IF x.load.is = "err" THEN Failure(GenericError) ELSE x.load]

\* deserialize_shared_message by the registry of "side": a type that is not
\* registered there, or only without shared, is an error instead of the message.
Body(p, side) ==
  IF "ERROR" \in p.flags THEN p.load
  ELSE IF {"TYPE_TAG", "BODY"} \subseteq p.flags
  THEN IF side \in KnownTo[p.load.body] THEN p.load ELSE Failure(GenericError)
  ELSE Nothing

\* ProtocolPacket::deserialize.  The error flag is looked at before the body, a
\* Send without a readable body is a parse error, InitFailed comes out as Ready.
Deserialize(p, side) ==
  LET load == Body(p, side)
      argument == "ARGUMENT" \in p.flags
  IN  CASE p.kind = "Response" ->
             IF argument /\ load # Nothing
             THEN Item("Response", p.argument, FALSE, load) ELSE Rejected
        [] p.kind = "Send" ->
             IF load.is = "msg"
             THEN Item("Send", p.argument, argument, load) ELSE Rejected
        [] p.kind = "Error" ->
             IF load.is = "err" THEN Item("Error", 0, FALSE, load) ELSE Rejected
        [] p.kind = "BatchComplete" ->
             Item("BatchComplete", p.argument, FALSE, p.load)
        [] p.kind = "Synchronized" ->
             Item("Synchronized", 0, FALSE, IF load.is = "err" THEN load ELSE Nothing)
        [] p.kind = "Init" -> Item("Init", p.argument, FALSE, Nothing)
        [] OTHER -> Plain(p.kind)
=============================================================================
