----------------------------- MODULE PollPoller -----------------------------
(***************************************************************************)
(* muduo/net/poller/poll_poller.cc: the array of pollfd and, in each       *)
(* channel, the index of its entry. A removed entry is replaced by the     *)
(* last one.                                                               *)
(***************************************************************************)
EXTENDS Channel

VARIABLES
  channels,  \* channels_: those the poller knows
  index,     \* index_ of each channel, -1 when it has no entry yet
  poll_fds,  \* the array: descriptor, ignored (its sign), events
  aborted    \* an assertion has failed

pollVars == <<channels, index, poll_fds, aborted>>

PollInit ==
  /\ channels = {}
  /\ index = [c \in Channels |-> -1]
  /\ poll_fds = <<>>
  /\ aborted = FALSE

Entries ==
  [fd : Channels, ignored : BOOLEAN, events : SUBSET {"read", "write"}]

Entry(c, ignored, e) == [fd |-> c, ignored |-> ignored, events |-> e]

Abort == aborted' = TRUE /\ UNCHANGED <<channels, index, poll_fds>>

\* The checks that updateChannel and removeChannel make of a known channel.
Known(c) ==
  /\ c \in channels
  /\ index[c] \in 0..Len(poll_fds) - 1
  /\ poll_fds[index[c] + 1].fd = c

AddEntry(c) ==
  IF c \in channels
    THEN Abort
    ELSE /\ poll_fds' = Append(poll_fds, Entry(c, FALSE, events'[c]))
         /\ index' = [index EXCEPT ![c] = Len(poll_fds)]
         /\ channels' = channels \cup {c}
         /\ UNCHANGED aborted

ChangeEntry(c) ==
  IF ~Known(c)
    THEN Abort
    ELSE /\ poll_fds' = [poll_fds EXCEPT ![index[c] + 1] =
                           Entry(c, events'[c] = {}, events'[c])]
         /\ UNCHANGED <<channels, index, aborted>>

updateChannel(c) == IF index[c] < 0 THEN AddEntry(c) ELSE ChangeEntry(c)

\* The last entry takes the place of the i-th, and the last place goes.
SwapAndPop(s, i) == SubSeq([s EXCEPT ![i] = s[Len(s)]], 1, Len(s) - 1)

\* Mutant: the entry that fills the gap keeps its old index.
RemoveNoReindex(c) ==
  /\ channels' = channels \ {c}
  /\ poll_fds' = SwapAndPop(poll_fds, index[c] + 1)
  /\ UNCHANGED <<index, aborted>>

\* Mutant: the channel stays in channels_.
RemoveKeepsChannel(c) ==
  /\ poll_fds' = SwapAndPop(poll_fds, index[c] + 1)
  /\ index' = [index EXCEPT ![poll_fds[Len(poll_fds)].fd] = index[c]]
  /\ UNCHANGED <<channels, aborted>>

\* The index of the removed channel itself is left as it is.
removeChannel(c) ==
  LET last == poll_fds[Len(poll_fds)]
      entry == poll_fds[index[c] + 1]
  IN IF ~Known(c) \/ ~entry.ignored \/ entry.events # events[c]
       THEN Abort
       ELSE /\ channels' = channels \ {c}
            /\ poll_fds' = SwapAndPop(poll_fds, index[c] + 1)
            /\ index' = IF index[c] = Len(poll_fds) - 1 THEN index
                        ELSE [index EXCEPT ![last.fd] = index[c]]
            /\ UNCHANGED aborted

\* index_ of a new Channel object.
newChannel(c) ==
  /\ index' = [index EXCEPT ![c] = -1]
  /\ UNCHANGED <<channels, poll_fds, aborted>>

\* What poll() can report of c: the events asked for by entries of c that are
\* not ignored.
Watched(c) ==
  {e \in {"read", "write"} :
     \E i \in 1..Len(poll_fds) :
       /\ poll_fds[i].fd = c
       /\ ~poll_fds[i].ignored
       /\ e \in poll_fds[i].events}

Update(c, opt) == ~aborted /\ Change(c, opt) /\ updateChannel(c)
Forget(c) == ~aborted /\ Remove(c) /\ removeChannel(c)
Renew(c) == ~aborted /\ Recreate(c) /\ newChannel(c)

Init == ChannelInit /\ PollInit

-----------------------------------------------------------------------------
\* The types of the members; a channel outside the loop has no events.
TypeOK ==
  /\ ChannelTypeOK
  /\ channels \subseteq Channels
  /\ index \in [Channels -> Int]
  /\ poll_fds \in Seq(Entries)
  /\ aborted \in BOOLEAN

\* Every channel in the loop has exactly one entry, at its index, and there
\* are no others, although removals move entries (poll_poller.cc:120-133).
EachAtItsIndex ==
  /\ channels = {c \in Channels : object[c] = "added"}
  /\ \A c \in channels : Known(c)
  /\ \A i \in 1..Len(poll_fds) :
       poll_fds[i].fd \in channels /\ index[poll_fds[i].fd] = i - 1

=============================================================================
