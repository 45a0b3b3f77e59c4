------------------------------- MODULE Pollers -------------------------------
(***************************************************************************)
(* The two implementations of Poller under the same calls: whatever a loop *)
(* does with its channels, both must ask the kernel for the same events,   *)
(* those the channels have enabled.                                        *)
(***************************************************************************)
EXTENDS Channel

VARIABLES
  channels, index, poll_fds, aborted,  \* of the PollPoller
  known, kq_events, filters, exited,   \* of the KqueuePoller
  refused

vars == <<channelVars, channels, index, poll_fds, aborted, known, kq_events,
          filters, exited, refused>>

Poll == INSTANCE PollPoller
Kqueue == INSTANCE KqueuePoller

Init == Poll!Init /\ Kqueue!Init

Update(c, opt) == Poll!Update(c, opt) /\ Kqueue!Update(c, opt)
Forget(c) == Poll!Forget(c) /\ Kqueue!Forget(c)
Renew(c) == Poll!Renew(c) /\ Kqueue!Renew(c)

Next ==
  \E c \in Channels :
    \/ \E opt \in Opts : Update(c, opt)
    \/ Forget(c)
    \/ Renew(c)

Spec == Init /\ [][Next]_vars

-----------------------------------------------------------------------------
\* The variables have the types of the two pollers' members.
TypeOK == Poll!TypeOK /\ Kqueue!TypeOK

\* Every channel in the loop has exactly one pollfd, at its index, although
\* removals move entries (poll_poller.cc:120-133).
EachAtItsIndex == Poll!EachAtItsIndex

\* The kqueue poller's record of filters and the kernel's agree, from the
\* first registration to the reuse of the descriptor (kqueue_poller.cc:60-124,
\* 174-202).
RecordMatchesKernel == Kqueue!RecordMatchesKernel

\* Both pollers wait for exactly the events that the channels have enabled:
\* none is missed, and none of a channel that was removed is reported.
WatchesWhatIsEnabled ==
  \A c \in Channels : Poll!Watched(c) = events[c] /\ Kqueue!Watched(c) = events[c]

\* When channels are first registered for reading, no assertion of
\* updateChannel or removeChannel fails and update() does not end the program,
\* and the one change that the kernel may refuse (kqueue_poller.cc:164-166) is
\* that of a disableWriting() before the first enableWriting(), which leaves
\* nothing behind: WatchesWhatIsEnabled holds after it as well.
NeverFails == ~aborted /\ ~exited /\ refused \subseteq {"kDisWriteOpt"}

=============================================================================
