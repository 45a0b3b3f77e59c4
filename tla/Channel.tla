------------------------------- MODULE Channel -------------------------------
(***************************************************************************)
(* The channels of one event loop (muduo/net/channel.h) as a poller sees   *)
(* them: objects that enable and disable events, are removed, and are then *)
(* destroyed together with their descriptor. A descriptor belongs to one   *)
(* channel at a time, so a channel stands for its descriptor too.          *)
(***************************************************************************)
EXTENDS Integers, Sequences

CONSTANTS
  Channels,
  FirstOpts  \* the calls with which channels are first registered

Opts == {"kEnReadOpt", "kDisReadOpt", "kEnWriteOpt", "kDisWriteOpt", "kDisAllOpt"}

ASSUME ChannelAssumption == FirstOpts \subseteq {"kEnReadOpt", "kEnWriteOpt"}

VARIABLES
  object,  \* "new", "added" (to the loop) or "removed"
  events   \* events_: a set of "read" and "write"

channelVars == <<object, events>>

ChannelInit ==
  /\ object = [c \in Channels |-> "new"]
  /\ events = [c \in Channels |-> {}]

ChannelTypeOK ==
  /\ object \in [Channels -> {"new", "added", "removed"}]
  /\ events \in [Channels -> SUBSET {"read", "write"}]
  /\ \A c \in Channels : object[c] # "added" => events[c] = {}

Changed(e, opt) ==
  IF opt = "kEnReadOpt" THEN e \cup {"read"}
  ELSE IF opt = "kDisReadOpt" THEN e \ {"read"}
  ELSE IF opt = "kEnWriteOpt" THEN e \cup {"write"}
  ELSE IF opt = "kDisWriteOpt" THEN e \ {"write"}
  ELSE {}

\* enableReading and so on: events_ changes, then the poller is told. A
\* channel is registered by enabling an event, and not again after remove().
Change(c, opt) ==
  /\ object[c] = "added" \/ (object[c] = "new" /\ opt \in FirstOpts)
  /\ object' = [object EXCEPT ![c] = "added"]
  /\ events' = [events EXCEPT ![c] = Changed(events[c], opt)]

\* Mutant: a channel is removed with events enabled.
RemoveEnabled(c) ==
  /\ object[c] = "added"
  /\ object' = [object EXCEPT ![c] = "removed"]
  /\ UNCHANGED events

\* remove(): assert(isNoneEvent()) is the caller's duty.
Remove(c) ==
  /\ object[c] = "added"
  /\ events[c] = {}
  /\ object' = [object EXCEPT ![c] = "removed"]
  /\ UNCHANGED events

\* The removed channel is destroyed and its descriptor closed; the number is
\* given to a new channel.
Recreate(c) ==
  /\ object[c] = "removed"
  /\ object' = [object EXCEPT ![c] = "new"]
  /\ UNCHANGED events

=============================================================================
