---------------------------- MODULE KqueuePoller ----------------------------
(***************************************************************************)
(* muduo/net/poller/kqueue_poller.cc: the poller's own record of the       *)
(* filters it has enabled (kq_events_), and the filters the kernel has.    *)
(* EV_DISABLE and EV_DELETE fail for a filter that was never added;        *)
(* update_one logs that, update() ends the program.                        *)
(***************************************************************************)
EXTENDS Channel

VARIABLES
  known,      \* channels_: those the poller knows, with index kAdded
  kq_events,  \* the filters recorded for each of them
  filters,    \* the kernel's: "absent", "enabled" or "disabled"
  exited,     \* an assertion has failed, or update() has ended the program
  refused     \* history: the calls of which the kernel refused the change

kqueueVars == <<known, kq_events, filters, exited, refused>>

Filters == {"read", "write"}

KqueueInit ==
  /\ known = {}
  /\ kq_events = [c \in Channels |-> {}]
  /\ filters = [c \in Channels |-> [e \in Filters |-> "absent"]]
  /\ exited = FALSE
  /\ refused = {}

\* EV_ADD | EV_ENABLE, EV_DISABLE and EV_DELETE of the filters in es.
Enabled(c, es) ==
  [filters EXCEPT ![c] = [e \in Filters |-> IF e \in es THEN "enabled" ELSE @[e]]]
Disabled(c, es) ==
  [filters EXCEPT ![c] = [e \in Filters |->
     IF e \in es /\ @[e] # "absent" THEN "disabled" ELSE @[e]]]
Deleted(c, es) ==
  [filters EXCEPT ![c] = [e \in Filters |-> IF e \in es THEN "absent" ELSE @[e]]]

AllThere(c, es) == \A e \in es : filters[c][e] # "absent"

Exit == exited' = TRUE /\ UNCHANGED <<known, kq_events, filters, refused>>

\* The first registration records the read filter, whichever was added.
AddChannel(c, opt) ==
  IF c \in known \/ opt \notin {"kEnReadOpt", "kEnWriteOpt"}
    THEN Exit
    ELSE /\ known' = known \cup {c}
         /\ filters' = Enabled(c, IF opt = "kEnReadOpt" THEN {"read"} ELSE {"write"})
         /\ kq_events' = [kq_events EXCEPT ![c] = {"read"}]
         /\ UNCHANGED <<exited, refused>>

\* Mutant: the record is cleared before the filters are disabled.
DisableNothing(c) ==
  /\ kq_events' = [kq_events EXCEPT ![c] = {}]
  /\ UNCHANGED <<known, filters, exited, refused>>

\* kDisAllOpt: update(EV_DISABLE) of what is recorded, then the record is
\* cleared.
DisableAll(c) ==
  IF ~AllThere(c, kq_events[c])
    THEN Exit
    ELSE /\ filters' = Disabled(c, kq_events[c])
         /\ kq_events' = [kq_events EXCEPT ![c] = {}]
         /\ UNCHANGED <<known, exited, refused>>

Disabling(opt) ==
  {e \in Filters : opt = IF e = "read" THEN "kDisReadOpt" ELSE "kDisWriteOpt"}

\* update_one of one filter. To disable a filter that was never added is
\* refused (ENOENT), which is only logged; the record changes all the same.
ChangeFilter(c, opt) ==
  /\ \/ opt = "kEnReadOpt" /\ filters' = Enabled(c, {"read"})
     \/ opt = "kDisReadOpt" /\ filters' = Disabled(c, {"read"})
     \/ opt = "kEnWriteOpt" /\ filters' = Enabled(c, {"write"})
     \/ opt = "kDisWriteOpt" /\ filters' = Disabled(c, {"write"})
  /\ refused' = IF AllThere(c, Disabling(opt)) THEN refused ELSE refused \cup {opt}
  /\ kq_events' = [kq_events EXCEPT ![c] = Changed(@, opt)]
  /\ UNCHANGED <<known, exited>>

\* index_ is kNew in a new object, and kAdded from then on.
updateChannel(c, opt) ==
  IF object[c] = "new" THEN AddChannel(c, opt)
  ELSE IF c \notin known THEN Exit
  ELSE IF opt = "kDisAllOpt" THEN DisableAll(c)
  ELSE ChangeFilter(c, opt)

\* update(EV_DELETE) deletes what is recorded, which is nothing once the
\* channel has disabled all: the disabled filters stay in the kernel.
removeChannel(c) ==
  IF c \notin known \/ ~AllThere(c, kq_events[c])
    THEN Exit
    ELSE /\ known' = known \ {c}
         /\ filters' = Deleted(c, kq_events[c])
         /\ kq_events' = [kq_events EXCEPT ![c] = {}]
         /\ UNCHANGED <<exited, refused>>

\* Closing a descriptor deletes its filters.
closeDescriptor(c) ==
  /\ filters' = Deleted(c, Filters)
  /\ UNCHANGED <<known, kq_events, exited, refused>>

\* What kevent() can report of c: the enabled filters.
Watched(c) == {e \in Filters : filters[c][e] = "enabled"}

Update(c, opt) == ~exited /\ Change(c, opt) /\ updateChannel(c, opt)
Forget(c) == ~exited /\ Remove(c) /\ removeChannel(c)
Renew(c) == ~exited /\ Recreate(c) /\ closeDescriptor(c)

Init == ChannelInit /\ KqueueInit

-----------------------------------------------------------------------------
\* The types of the members; a channel outside the loop has no events.
TypeOK ==
  /\ ChannelTypeOK
  /\ known \subseteq Channels
  /\ kq_events \in [Channels -> SUBSET Filters]
  /\ filters \in [Channels -> [Filters -> {"absent", "enabled", "disabled"}]]
  /\ exited \in BOOLEAN
  /\ refused \subseteq Opts

\* The record and the kernel agree: exactly the recorded filters are enabled
\* (so update() never names one that is absent), also while a channel that
\* was removed still has its disabled filters in the kernel.
RecordMatchesKernel ==
  \A c \in Channels : \A e \in Filters :
    e \in kq_events[c] <=> filters[c][e] = "enabled"

=============================================================================
