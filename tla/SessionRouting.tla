--------------------------- MODULE SessionRouting ---------------------------
(***************************************************************************)
(* The routing keys of packages/core/src/session-routing.ts: what a turn   *)
(* is enqueued under, made of the session of a command line turn, or of    *)
(* the channel, account, room, thread and sender of a channel turn.        *)
(*                                                                         *)
(* A component as it comes in is a name and a spelling: spaces around it,  *)
(* another Unicode form.  A key stands for the JSON text of its parts,     *)
(* which are always written in the same order, so that two texts are equal *)
(* exactly if the parts are.                                               *)
(***************************************************************************)

CONSTANTS
  Names,
  Blank,    \* the name of a component that is empty or all spaces
  Spellings

FieldNames == {"account", "room", "thread", "sender"}
Scopes     == {"thread", "room", "sender"}

Components == [name : Names \cup {Blank}, spelling : Spellings]

\* What createCliSessionRoutingKey and createChannelSessionRoutingKey are given;
\* a scope may be left to the default.
CliInputs     == [kind : {"cli"}, session : Components]
ChannelInputs == [kind : {"channel"}, channel : Components,
                  ids : UNION {[part -> Components] : part \in SUBSET FieldNames},
                  scope : Scopes \cup {"default"}]
-----------------------------------------------------------------------------
\* Bug (mutation runs only): the component is used as it was spelled.
BugNormalizeNothing(component) == component

\* normalizeRoutingComponent: trimmed, and in Unicode's form NFC.
Normalize(component) == component.name

\* Blank components are refused, and a scope without its field.
Acceptable(i) ==
  IF i.kind = "cli"
  THEN i.session.name # Blank
  ELSE /\ i.channel.name # Blank
       /\ \A f \in DOMAIN i.ids : i.ids[f].name # Blank
       /\ i.scope = "default" \/ i.scope \in DOMAIN i.ids

\* The scope of a channel key, if it is not given: the narrowest place there is.
ScopeOf(i) ==
  CASE i.scope # "default" -> i.scope
    [] i.scope = "default" /\ "thread" \in DOMAIN i.ids -> "thread"
    [] i.scope = "default" /\ "thread" \notin DOMAIN i.ids /\ "room" \in DOMAIN i.ids -> "room"
    [] OTHER -> "sender"

CliKey(i) == [kind |-> "cli", session |-> Normalize(i.session)]

\* All fields that are given are part of the key, whatever the scope.
ChannelKey(i) ==
  [kind |-> "channel", scope |-> ScopeOf(i), channel |-> Normalize(i.channel),
   ids |-> [f \in DOMAIN i.ids |-> Normalize(i.ids[f])]]

RoutingKey(i) == IF i.kind = "cli" THEN CliKey(i) ELSE ChannelKey(i)
-----------------------------------------------------------------------------
\* Two inputs mean the same conversation: they name the same things, however
\* they spell them, and ask for the same scope or leave it out where that comes
\* to the same.
Covers(scope, i) ==
  /\ i.scope = "default"
  /\ scope = "thread" => "thread" \in DOMAIN i.ids
  /\ scope = "room" => "room" \in DOMAIN i.ids /\ "thread" \notin DOMAIN i.ids
  /\ scope = "sender" => DOMAIN i.ids \cap {"thread", "room"} = {}

SameConversation(i, j) ==
  /\ i.kind = j.kind
  /\ i.kind = "cli" => i.session.name = j.session.name
  /\ i.kind = "channel" =>
       /\ i.channel.name = j.channel.name
       /\ DOMAIN i.ids = DOMAIN j.ids
       /\ \A f \in DOMAIN i.ids : i.ids[f].name = j.ids[f].name
       /\ i.scope = j.scope \/ Covers(j.scope, i) \/ Covers(i.scope, j)
=============================================================================
