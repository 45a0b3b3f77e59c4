---------------------------- MODULE PollersProofs ----------------------------
(***************************************************************************)
(* Theorems about Pollers, for any number of channels. Each poller has an  *)
(* inductive invariant of its own; the two are proved together because the *)
(* calls they receive are the same.                                        *)
(***************************************************************************)
EXTENDS Pollers, SequenceTheorems, TLAPS

\* The channels of the library are registered for reading first.
ReadFirst == FirstOpts = {"kEnReadOpt"}

\* EachAtItsIndex, and what makes the assertions of updateChannel and
\* removeChannel true: a new object has no index, and each entry holds the
\* events of its channel and is ignored when there are none.
PollInv ==
  /\ Poll!TypeOK
  /\ ~aborted
  /\ EachAtItsIndex
  /\ \A c \in Channels : object[c] = "new" => index[c] = -1
  /\ \A i \in 1..Len(poll_fds) :
       /\ poll_fds[i].events = events[poll_fds[i].fd]
       /\ poll_fds[i].ignored = (events[poll_fds[i].fd] = {})

\* RecordMatchesKernel, that the record is the channels' events, and that the
\* kernel has the read filter of every channel in the loop.
KqueueInv ==
  /\ Kqueue!TypeOK
  /\ ~exited
  /\ refused \subseteq {"kDisWriteOpt"}
  /\ \A c \in Channels : object[c] = "added" => filters[c]["read"] # "absent"
  /\ known = {c \in Channels : object[c] = "added"}
  /\ kq_events = events
  /\ RecordMatchesKernel

PollersInv == PollInv /\ KqueueInv

-----------------------------------------------------------------------------
\* A call changes the set of events as its name says.
LEMMA ChangedEvents ==
  ASSUME NEW e \in SUBSET {"read", "write"}, NEW opt \in Opts
  PROVE  /\ Changed(e, opt) \in SUBSET {"read", "write"}
         /\ opt \in {"kEnReadOpt", "kEnWriteOpt"} => Changed(e, opt) # {}
         /\ opt = "kEnReadOpt" => Changed(e, opt) = e \cup {"read"}
         /\ opt = "kEnWriteOpt" => Changed(e, opt) = e \cup {"write"}
         /\ opt = "kDisReadOpt" => Changed(e, opt) = e \ {"read"}
         /\ opt = "kDisWriteOpt" => Changed(e, opt) = e \ {"write"}
         /\ opt = "kDisAllOpt" => Changed(e, opt) = {}
  BY DEF Changed, Opts

\* The fields of an entry.
LEMMA EntryFields ==
  ASSUME NEW c, NEW ignored, NEW e
  PROVE  /\ Poll!Entry(c, ignored, e).fd = c
         /\ Poll!Entry(c, ignored, e).ignored = ignored
         /\ Poll!Entry(c, ignored, e).events = e
  BY DEF Poll!Entry

\* updateChannel of the PollPoller keeps PollInv.
LEMMA PollUpdate ==
  ASSUME NEW c \in Channels, NEW opt \in Opts, PollInv, Poll!Update(c, opt)
  PROVE  PollInv'
<1> DEFINE e == Changed(events[c], opt)
<1>1. /\ object[c] = "added" \/ (object[c] = "new" /\ opt \in FirstOpts)
      /\ object' = [object EXCEPT ![c] = "added"]
      /\ events' = [events EXCEPT ![c] = e]
      /\ Poll!updateChannel(c)
  BY DEF Poll!Update, Poll!Change, Poll!Changed, Changed
<1>2. /\ object \in [Channels -> {"new", "added", "removed"}]
      /\ events \in [Channels -> SUBSET {"read", "write"}]
      /\ index \in [Channels -> Int]
      /\ poll_fds \in Seq(Poll!Entries)
      /\ \A d \in Channels : object[d] # "added" => events[d] = {}
  BY DEF PollInv, Poll!TypeOK, Poll!ChannelTypeOK
<1>3. /\ e \in SUBSET {"read", "write"}
      /\ opt \in FirstOpts => e # {}
  <2>1. events[c] \in SUBSET {"read", "write"}
    BY <1>2
  <2>2. /\ e \in SUBSET {"read", "write"}
        /\ opt \in {"kEnReadOpt", "kEnWriteOpt"} => e # {}
    BY ONLY <2>1, ChangedEvents, opt \in Opts
  <2> QED
    BY <2>2, ChannelAssumption
<1>4. Poll!ChannelTypeOK'
  BY <1>1, <1>2, <1>3 DEF Poll!ChannelTypeOK
<1>5. CASE object[c] = "new"
  <2>1. c \notin channels /\ index[c] = -1
    BY <1>5 DEF PollInv, EachAtItsIndex, Poll!EachAtItsIndex
  <2>2. /\ poll_fds' = Append(poll_fds, [fd |-> c, ignored |-> FALSE, events |-> e])
        /\ index' = [index EXCEPT ![c] = Len(poll_fds)]
        /\ channels' = channels \cup {c}
        /\ aborted' = aborted
    BY <1>1, <1>2, <2>1 DEF Poll!updateChannel, Poll!AddEntry, Poll!Entry
  <2>3. Poll!TypeOK'
    BY <1>2, <1>3, <1>4, <2>2 DEF PollInv, Poll!TypeOK, Poll!Entries
  <2>4. EachAtItsIndex'
    BY <1>1, <1>2, <1>5, <2>1, <2>2
    DEF PollInv, EachAtItsIndex, Poll!EachAtItsIndex, Poll!Known
  <2>5. \A i \in 1..Len(poll_fds') :
          /\ poll_fds'[i].events = events'[poll_fds'[i].fd]
          /\ poll_fds'[i].ignored = (events'[poll_fds'[i].fd] = {})
    <3>0. Len(poll_fds') = Len(poll_fds) + 1
      BY <1>2, <2>2
    <3>1. SUFFICES ASSUME NEW i \in 1..Len(poll_fds) + 1
                   PROVE  /\ poll_fds'[i].events = events'[poll_fds'[i].fd]
                          /\ poll_fds'[i].ignored = (events'[poll_fds'[i].fd] = {})
      BY <3>0, Zenon
    <3>2. CASE i = Len(poll_fds) + 1
      <4>1. poll_fds'[i] = [fd |-> c, ignored |-> FALSE, events |-> e]
        BY <1>2, <2>2, <3>2
      <4>2. events'[c] = e /\ e # {}
        BY <1>1, <1>2, <1>3, <1>5
      <4>3. /\ poll_fds'[i].fd = c
            /\ poll_fds'[i].events = e
            /\ poll_fds'[i].ignored = FALSE
        BY <4>1
      <4> QED BY <4>2, <4>3
    <3>3. CASE i \in 1..Len(poll_fds)
      <4>1. poll_fds'[i] = poll_fds[i]
        BY <1>2, <2>2, <3>3
      <4>2. poll_fds[i].fd # c /\ poll_fds[i].fd \in Channels
        BY <1>2, <2>1, <3>3 DEF PollInv, EachAtItsIndex, Poll!EachAtItsIndex
      <4>3. events'[poll_fds[i].fd] = events[poll_fds[i].fd]
        BY <1>1, <1>2, <4>2
      <4> QED BY <3>3, <4>1, <4>3, Zenon DEF PollInv
    <3> QED BY <3>2, <3>3
  <2> QED
    BY <1>1, <1>2, <2>2, <2>3, <2>4, <2>5 DEF PollInv
<1>6. CASE object[c] = "added"
  <2>1. Poll!Known(c) /\ index[c] >= 0
    BY <1>2, <1>6 DEF PollInv, EachAtItsIndex, Poll!EachAtItsIndex, Poll!Known
  <2>2. /\ poll_fds' = [poll_fds EXCEPT ![index[c] + 1] =
                          Poll!Entry(c, e = {}, e)]
        /\ UNCHANGED <<channels, index, aborted>>
    BY <1>1, <1>2, <2>1 DEF Poll!updateChannel, Poll!ChangeEntry
  <2>3. /\ Poll!TypeOK'
        /\ Len(poll_fds') = Len(poll_fds)
    BY <1>2, <1>3, <1>4, <2>1, <2>2
    DEF PollInv, Poll!TypeOK, Poll!Known, Poll!Entries, Poll!Entry
  <2>4. \A i \in 1..Len(poll_fds) : poll_fds'[i].fd = poll_fds[i].fd
    BY <1>2, <2>1, <2>2 DEF Poll!Known, Poll!Entry
  <2>5. EachAtItsIndex'
    BY <1>1, <1>2, <1>6, <2>1, <2>2, <2>3, <2>4
    DEF PollInv, EachAtItsIndex, Poll!EachAtItsIndex, Poll!Known
  <2>6. \A i \in 1..Len(poll_fds') :
          /\ poll_fds'[i].events = events'[poll_fds'[i].fd]
          /\ poll_fds'[i].ignored = (events'[poll_fds'[i].fd] = {})
    <3>1. SUFFICES ASSUME NEW i \in 1..Len(poll_fds)
                   PROVE  /\ poll_fds'[i].events = events'[poll_fds'[i].fd]
                          /\ poll_fds'[i].ignored = (events'[poll_fds'[i].fd] = {})
      BY <2>3
    <3>2. CASE i = index[c] + 1
      <4>1. poll_fds'[i] = Poll!Entry(c, e = {}, e)
        BY <1>2, <2>2, <3>2
      <4>2. events'[c] = e
        BY <1>1, <1>2
      <4>3. /\ poll_fds'[i].fd = c
            /\ poll_fds'[i].events = e
            /\ poll_fds'[i].ignored = (e = {})
        BY <4>1, EntryFields DEF Poll!Entry
      <4> QED BY <4>2, <4>3, Zenon
    <3>3. CASE i # index[c] + 1
      <4>1. poll_fds'[i] = poll_fds[i]
        BY <1>2, <2>2, <3>3
      <4>2. poll_fds[i].fd # c /\ poll_fds[i].fd \in Channels
        <5>1. poll_fds[i].fd \in channels /\ index[poll_fds[i].fd] = i - 1
          BY DEF PollInv, EachAtItsIndex, Poll!EachAtItsIndex
        <5>2. poll_fds[i].fd \in Channels
          BY <5>1 DEF PollInv, Poll!TypeOK
        <5>3. index[c] # i - 1
          BY <1>2, <3>3
        <5> QED BY <5>1, <5>2, <5>3, Zenon
      <4>3. events'[poll_fds[i].fd] = events[poll_fds[i].fd]
        BY <1>1, <1>2, <4>2
      <4> QED BY <4>1, <4>3 DEF PollInv
    <3> QED BY <3>2, <3>3
  <2> QED
    BY <1>1, <1>2, <2>2, <2>3, <2>5, <2>6 DEF PollInv
<1> QED
  BY <1>1, <1>5, <1>6

\* A prefix of a sequence.
LEMMA Prefix ==
  ASSUME NEW S, NEW u \in Seq(S), NEW k \in Nat, k <= Len(u)
  PROVE  /\ SubSeq(u, 1, k) \in Seq(S)
         /\ Len(SubSeq(u, 1, k)) = k
         /\ \A j \in 1..k : SubSeq(u, 1, k)[j] = u[j]
  OBVIOUS

\* What removing the i-th entry does to the array.
LEMMA SwapAndPopped ==
  ASSUME NEW S, NEW s \in Seq(S), NEW i \in 1..Len(s)
  PROVE  /\ Poll!SwapAndPop(s, i) \in Seq(S)
         /\ Len(Poll!SwapAndPop(s, i)) = Len(s) - 1
         /\ \A j \in 1..Len(s) - 1 :
              Poll!SwapAndPop(s, i)[j] = IF j = i THEN s[Len(s)] ELSE s[j]
<1> DEFINE k == Len(s) - 1
           u == [s EXCEPT ![i] = s[Len(s)]]
<1>1. k \in Nat /\ k <= Len(s) /\ s[Len(s)] \in S
  OBVIOUS
<1>2. /\ u \in Seq(S)
      /\ Len(u) = Len(s)
      /\ \A j \in 1..Len(s) : u[j] = IF j = i THEN s[Len(s)] ELSE s[j]
  BY <1>1, ExceptSeq
<1>3. Poll!SwapAndPop(s, i) = SubSeq(u, 1, k)
  BY DEF Poll!SwapAndPop
<1> HIDE DEF u
<1>4. /\ SubSeq(u, 1, k) \in Seq(S)
      /\ Len(SubSeq(u, 1, k)) = k
      /\ \A j \in 1..k : SubSeq(u, 1, k)[j] = u[j]
  BY <1>1, <1>2, Prefix
<1> QED
  BY <1>1, <1>2, <1>3, <1>4

\* removeChannel of the PollPoller keeps PollInv: the entry that moves takes
\* its index along.
LEMMA PollForget ==
  ASSUME NEW c \in Channels, PollInv, Poll!Forget(c)
  PROVE  PollInv'
<1> DEFINE n == Len(poll_fds)
           last == poll_fds[n]
<1>1. /\ object[c] = "added"
      /\ events[c] = {}
      /\ object' = [object EXCEPT ![c] = "removed"]
      /\ events' = events
      /\ Poll!removeChannel(c)
  BY DEF Poll!Forget, Poll!Remove
<1>2. /\ object \in [Channels -> {"new", "added", "removed"}]
      /\ events \in [Channels -> SUBSET {"read", "write"}]
      /\ index \in [Channels -> Int]
      /\ poll_fds \in Seq(Poll!Entries)
      /\ \A d \in Channels : object[d] # "added" => events[d] = {}
  BY DEF PollInv, Poll!TypeOK, Poll!ChannelTypeOK
<1>3. /\ c \in channels
      /\ index[c] \in 0..n - 1
      /\ poll_fds[index[c] + 1].fd = c
      /\ n \in Nat \ {0}
      /\ Poll!Known(c)
  BY <1>1, <1>2 DEF PollInv, EachAtItsIndex, Poll!EachAtItsIndex, Poll!Known
<1>4. /\ poll_fds[index[c] + 1].ignored
      /\ poll_fds[index[c] + 1].events = events[c]
  <2>1. index[c] + 1 \in 1..n
    BY <1>3
  <2>2. /\ poll_fds[index[c] + 1].events = events[c]
        /\ poll_fds[index[c] + 1].ignored = (events[c] = {})
    BY <1>3, <2>1, Zenon DEF PollInv
  <2> QED BY <1>1, <2>2, Zenon
<1>5. /\ channels' = channels \ {c}
      /\ poll_fds' = Poll!SwapAndPop(poll_fds, index[c] + 1)
      /\ index' = IF index[c] = n - 1 THEN index
                  ELSE [index EXCEPT ![last.fd] = index[c]]
      /\ aborted' = aborted
  BY <1>1, <1>3, <1>4 DEF Poll!removeChannel
<1>6. /\ poll_fds' \in Seq(Poll!Entries)
      /\ Len(poll_fds') = n - 1
      /\ \A i \in 1..n - 1 :
           poll_fds'[i] = IF i = index[c] + 1 THEN last ELSE poll_fds[i]
  <2>1. index[c] + 1 \in 1..Len(poll_fds)
    BY <1>3
  <2> QED
    BY <1>2, <1>5, <2>1, SwapAndPopped
<1>7. \A i \in 1..n : poll_fds[i].fd \in channels /\ index[poll_fds[i].fd] = i - 1
  BY DEF PollInv, EachAtItsIndex, Poll!EachAtItsIndex
<1>8. \A d \in channels : /\ d \in Channels
                         /\ index[d] \in 0..n - 1
                         /\ poll_fds[index[d] + 1].fd = d
  BY DEF PollInv, EachAtItsIndex, Poll!EachAtItsIndex, Poll!Known
<1>9. /\ last.fd \in channels
      /\ index[last.fd] = n - 1
      /\ \A d \in Channels \ {last.fd} : index'[d] = index[d]
      /\ last.fd # c => index'[last.fd] = index[c]
      /\ index' \in [Channels -> Int]
  BY <1>2, <1>3, <1>5, <1>7, <1>8
<1>10. Poll!TypeOK'
  BY <1>1, <1>2, <1>5, <1>6, <1>9 DEF PollInv, Poll!TypeOK, Poll!ChannelTypeOK
<1>11. ASSUME NEW i \in 1..n - 1
       PROVE  /\ poll_fds'[i].fd \in channels \ {c}
              /\ index'[poll_fds'[i].fd] = i - 1
  <2>1. CASE i = index[c] + 1
    BY <1>3, <1>6, <1>9, <2>1
  <2>2. CASE i # index[c] + 1
    <3>1. poll_fds'[i] = poll_fds[i]
      BY <1>6, <2>2
    <3>2. /\ poll_fds[i].fd \in channels
          /\ index[poll_fds[i].fd] = i - 1
          /\ poll_fds[i].fd # last.fd
      BY <1>3, <1>7, <1>9
    <3> QED
      BY <1>3, <1>8, <1>9, <2>2, <3>1, <3>2
  <2> QED BY <2>1, <2>2
<1>12. ASSUME NEW d \in channels \ {c}
       PROVE  index'[d] \in 0..n - 2 /\ poll_fds'[index'[d] + 1].fd = d
  <2>1. index[d] # index[c]
    BY <1>3, <1>8
  <2>2. CASE d = last.fd
    BY <1>3, <1>6, <1>9, <2>1, <2>2
  <2>3. CASE d # last.fd
    <3>1. index'[d] = index[d] /\ index[d] \in 0..n - 1
      BY <1>8, <1>9, <2>3
    <3>2. poll_fds[index[d] + 1].fd = d
      BY <1>8
    <3>3. index[d] + 1 # n
      BY <2>3, <3>2, Zenon
    <3>4. index[d] + 1 \in 1..n - 1 /\ index[d] \in 0..n - 2
      BY <1>3, <3>1, <3>3
    <3>5. index[d] + 1 # index[c] + 1
      BY <1>3, <2>1, <3>1
    <3> QED
      BY <1>6, <3>1, <3>2, <3>4, <3>5
  <2> QED BY <2>2, <2>3
<1>13. EachAtItsIndex'
  <2>1. channels' = {d \in Channels : object'[d] = "added"}
    BY <1>1, <1>2, <1>5 DEF PollInv, EachAtItsIndex, Poll!EachAtItsIndex
  <2>2. \A d \in channels' : Poll!Known(d)'
    BY <1>3, <1>5, <1>6, <1>12 DEF Poll!Known
  <2> QED
    BY <1>5, <1>6, <1>11, <2>1, <2>2 DEF EachAtItsIndex, Poll!EachAtItsIndex
<1>14. \A d \in Channels : object'[d] = "new" => index'[d] = -1
  BY <1>1, <1>2, <1>9 DEF PollInv, EachAtItsIndex, Poll!EachAtItsIndex
<1>15. \A i \in 1..Len(poll_fds') :
         /\ poll_fds'[i].events = events'[poll_fds'[i].fd]
         /\ poll_fds'[i].ignored = (events'[poll_fds'[i].fd] = {})
  <2>1. \A i \in 1..n : /\ poll_fds[i].events = events[poll_fds[i].fd]
                        /\ poll_fds[i].ignored = (events[poll_fds[i].fd] = {})
    BY DEF PollInv
  <2>2. \A i \in 1..n - 1 : \E j \in 1..n : poll_fds'[i] = poll_fds[j]
    BY <1>3, <1>6
  <2>3. SUFFICES ASSUME NEW i \in 1..n - 1
                 PROVE  /\ poll_fds'[i].events = events[poll_fds'[i].fd]
                        /\ poll_fds'[i].ignored = (events[poll_fds'[i].fd] = {})
    BY <1>1, <1>6
  <2>4. PICK j \in 1..n : poll_fds'[i] = poll_fds[j]
    BY <2>2
  <2> QED
    BY <2>1, <2>4, Zenon
<1> QED
  BY <1>5, <1>10, <1>13, <1>14, <1>15 DEF PollInv

\* A new channel on a descriptor that is not in the poller keeps PollInv.
LEMMA PollRenew ==
  ASSUME NEW c \in Channels, PollInv, Poll!Renew(c)
  PROVE  PollInv'
<1>1. /\ object[c] = "removed"
      /\ object' = [object EXCEPT ![c] = "new"]
      /\ index' = [index EXCEPT ![c] = -1]
      /\ UNCHANGED <<events, channels, poll_fds, aborted>>
  BY DEF Poll!Renew, Poll!Recreate, Poll!newChannel
<1>2. c \notin channels
  BY <1>1 DEF PollInv, EachAtItsIndex, Poll!EachAtItsIndex
<1>3. Poll!TypeOK'
  BY <1>1 DEF PollInv, Poll!TypeOK, Poll!ChannelTypeOK
<1>4. EachAtItsIndex'
  BY <1>1, <1>2
  DEF PollInv, EachAtItsIndex, Poll!EachAtItsIndex, Poll!Known, Poll!TypeOK,
      Poll!ChannelTypeOK
<1> QED
  BY <1>1, <1>3, <1>4 DEF PollInv, Poll!TypeOK, Poll!ChannelTypeOK

-----------------------------------------------------------------------------
\* updateChannel of the KqueuePoller keeps KqueueInv when channels are
\* registered for reading first.
LEMMA KqueueUpdate ==
  ASSUME ReadFirst, NEW c \in Channels, NEW opt \in Opts, KqueueInv,
         Kqueue!Update(c, opt)
  PROVE  KqueueInv'
<1> DEFINE e == Changed(events[c], opt)
<1>1. /\ object[c] = "added" \/ (object[c] = "new" /\ opt = "kEnReadOpt")
      /\ object' = [object EXCEPT ![c] = "added"]
      /\ events' = [events EXCEPT ![c] = e]
      /\ Kqueue!updateChannel(c, opt)
  BY DEF Kqueue!Update, Kqueue!Change, Kqueue!Changed, Changed, ReadFirst
<1>2. /\ object \in [Channels -> {"new", "added", "removed"}]
      /\ events \in [Channels -> SUBSET {"read", "write"}]
      /\ filters \in [Channels -> [{"read", "write"} ->
                                     {"absent", "enabled", "disabled"}]]
      /\ known = {d \in Channels : object[d] = "added"}
      /\ \A d \in Channels : object[d] # "added" => events[d] = {}
      /\ \A d \in Channels : \A f \in {"read", "write"} :
           f \in events[d] <=> filters[d][f] = "enabled"
      /\ refused \subseteq {"kDisWriteOpt"}
      /\ \A d \in Channels : object[d] = "added" => filters[d]["read"] # "absent"
  BY DEF KqueueInv, Kqueue!TypeOK, Kqueue!ChannelTypeOK, Kqueue!Filters,
         RecordMatchesKernel, Kqueue!RecordMatchesKernel
<1>3. /\ e \in SUBSET {"read", "write"}
      /\ opt = "kEnReadOpt" => e = events[c] \cup {"read"}
      /\ opt = "kEnWriteOpt" => e = events[c] \cup {"write"}
      /\ opt = "kDisReadOpt" => e = events[c] \ {"read"}
      /\ opt = "kDisWriteOpt" => e = events[c] \ {"write"}
      /\ opt = "kDisAllOpt" => e = {}
  BY <1>2, ChangedEvents
<1>4. Kqueue!ChannelTypeOK'
  BY <1>1, <1>2, <1>3 DEF Kqueue!ChannelTypeOK
<1>5. /\ known' = {d \in Channels : object'[d] = "added"}
      /\ kq_events' = events'
      /\ exited' = exited
      /\ filters' \in [Channels -> [{"read", "write"} ->
                                      {"absent", "enabled", "disabled"}]]
      /\ \A d \in Channels : \A f \in {"read", "write"} :
           f \in events'[d] <=> filters'[d][f] = "enabled"
      /\ refused' \subseteq {"kDisWriteOpt"}
      /\ \A d \in Channels : object'[d] = "added" => filters'[d]["read"] # "absent"
  <2> DEFINE After(new) ==
        /\ filters' = [filters EXCEPT ![c] = new]
        /\ new \in [{"read", "write"} -> {"absent", "enabled", "disabled"}]
        /\ \A f \in {"read", "write"} : f \in e <=> new[f] = "enabled"
        /\ new["read"] # "absent"
             Result ==
        /\ known' = known \cup {c}
        /\ kq_events' = [kq_events EXCEPT ![c] = e]
        /\ exited' = exited
        /\ refused' \subseteq {"kDisWriteOpt"}
        /\ \E new : After(new)
  <2>1. ASSUME object[c] = "new" PROVE Result
    <3>1. /\ c \notin known
          /\ opt = "kEnReadOpt"
          /\ events[c] = {}
      BY <1>1, <1>2, <2>1
    <3>2. /\ known' = known \cup {c}
          /\ kq_events' = [kq_events EXCEPT ![c] = {"read"}]
          /\ exited' = exited
          /\ refused' = refused
          /\ filters' = Kqueue!Enabled(c, {"read"})
      BY <1>1, <2>1, <3>1 DEF Kqueue!updateChannel, Kqueue!AddChannel
    <3>3. \E new : After(new)
      <4> DEFINE new == [f \in {"read", "write"} |->
                           IF f \in {"read"} THEN "enabled" ELSE filters[c][f]]
      <4>1. filters' = [filters EXCEPT ![c] = new]
        BY <1>2, <3>2 DEF Kqueue!Enabled, Kqueue!Filters
      <4>2. After(new)
        BY <1>2, <1>3, <3>1, <4>1
      <4> QED BY <4>2
    <3>4. kq_events' = [kq_events EXCEPT ![c] = e]
      BY <1>3, <3>1, <3>2
    <3>6. refused' \subseteq {"kDisWriteOpt"}
      BY <1>2, <3>2
    <3> HIDE DEF After
    <3> QED BY <3>2, <3>3, <3>4, <3>6
  <2>2. ASSUME object[c] = "added", opt = "kDisAllOpt" PROVE Result
    <3>1. c \in known /\ kq_events[c] = events[c]
      BY <1>2, <2>2 DEF KqueueInv
    <3>2. Kqueue!AllThere(c, kq_events[c])
      BY <1>2, <3>1 DEF Kqueue!AllThere
    <3>3. /\ known' = known
          /\ kq_events' = [kq_events EXCEPT ![c] = {}]
          /\ exited' = exited
          /\ refused' = refused
          /\ filters' = Kqueue!Disabled(c, kq_events[c])
      BY <1>1, <2>2, <3>1, <3>2 DEF Kqueue!updateChannel, Kqueue!DisableAll
    <3>4. \E new : After(new)
      <4> DEFINE new == [f \in {"read", "write"} |->
                           IF f \in events[c] /\ filters[c][f] # "absent"
                             THEN "disabled" ELSE filters[c][f]]
      <4>1. filters' = [filters EXCEPT ![c] = new]
        BY <1>2, <3>1, <3>3 DEF Kqueue!Disabled, Kqueue!Filters
      <4>2. After(new)
        BY <1>2, <1>3, <2>2, <4>1
      <4> QED BY <4>2
    <3>5. kq_events' = [kq_events EXCEPT ![c] = e]
      BY <1>3, <2>2, <3>3
    <3>6. refused' \subseteq {"kDisWriteOpt"}
      BY <1>2, <3>3
    <3> HIDE DEF After
    <3> QED BY <3>1, <3>3, <3>4, <3>5, <3>6
  <2>3. ASSUME object[c] = "added", opt # "kDisAllOpt" PROVE Result
    <3>1. c \in known /\ kq_events[c] = events[c]
      BY <1>2, <2>3 DEF KqueueInv
    <3>2. Kqueue!ChangeFilter(c, opt)
      BY <1>1, <2>3, <3>1 DEF Kqueue!updateChannel
    <3>3. /\ known' = known
          /\ kq_events' = [kq_events EXCEPT ![c] = e]
          /\ exited' = exited
      BY <3>1, <3>2 DEF Kqueue!ChangeFilter, Kqueue!Changed, Changed
    <3>5. refused' \subseteq {"kDisWriteOpt"}
      <4>1. refused' = IF Kqueue!AllThere(c, Kqueue!Disabling(opt)) THEN refused
                       ELSE refused \cup {opt}
        BY <3>2 DEF Kqueue!ChangeFilter
      <4>2. CASE opt = "kDisWriteOpt"
        BY <1>2, <4>1, <4>2
      <4>3. CASE opt = "kDisReadOpt"
        <5>1. Kqueue!Disabling(opt) = {"read"} /\ filters[c]["read"] # "absent"
          BY <1>2, <2>3, <4>3 DEF Kqueue!Disabling, Kqueue!Filters
        <5> QED BY <1>2, <4>1, <5>1 DEF Kqueue!AllThere
      <4>4. CASE opt \notin {"kDisWriteOpt", "kDisReadOpt"}
        BY <1>2, <4>1, <4>4 DEF Kqueue!Disabling, Kqueue!AllThere
      <4> QED BY <4>2, <4>3, <4>4
    <3>4. \E new : After(new)
      <4>1. CASE opt \in {"kEnReadOpt", "kEnWriteOpt"}
        <5> DEFINE g == IF opt = "kEnReadOpt" THEN "read" ELSE "write"
                   new == [f \in {"read", "write"} |->
                             IF f \in {g} THEN "enabled" ELSE filters[c][f]]
        <5>1. filters' = [filters EXCEPT ![c] = new]
          BY <1>2, <3>2, <4>1
          DEF Kqueue!ChangeFilter, Kqueue!Enabled, Kqueue!Filters
        <5>2. e = events[c] \cup {g}
          BY <1>3, <4>1
        <5>3. After(new)
          BY <1>2, <2>3, <5>1, <5>2
        <5> QED BY <5>3
      <4>2. CASE opt \in {"kDisReadOpt", "kDisWriteOpt"}
        <5> DEFINE g == IF opt = "kDisReadOpt" THEN "read" ELSE "write"
                   new == [f \in {"read", "write"} |->
                             IF f \in {g} /\ filters[c][f] # "absent"
                               THEN "disabled" ELSE filters[c][f]]
        <5>1. filters' = [filters EXCEPT ![c] = new]
          BY <1>2, <3>2, <4>2
          DEF Kqueue!ChangeFilter, Kqueue!Disabled, Kqueue!Filters
        <5>2. e = events[c] \ {g}
          BY <1>3, <4>2
        <5>3. After(new)
          BY <1>2, <2>3, <5>1, <5>2
        <5> QED BY <5>3
      <4> QED
        BY <2>3, <4>1, <4>2 DEF Opts
    <3> QED BY <3>1, <3>3, <3>4, <3>5
  <2>4. Result
    BY <1>1, <2>1, <2>2, <2>3
  <2>5. PICK new : After(new)
    BY <2>4
  <2>6. /\ known' = known \cup {c}
        /\ kq_events' = [kq_events EXCEPT ![c] = e]
        /\ exited' = exited
        /\ refused' \subseteq {"kDisWriteOpt"}
    BY <2>4
  <2> HIDE DEF e
  <2> QED
    BY <1>1, <1>2, <1>3, <2>5, <2>6 DEF KqueueInv
<1> QED
  BY <1>1, <1>2, <1>3, <1>4, <1>5
  DEF KqueueInv, Kqueue!TypeOK, Kqueue!Filters, Kqueue!Opts, RecordMatchesKernel,
      Kqueue!RecordMatchesKernel

\* removeChannel of the KqueuePoller keeps KqueueInv: the record is empty.
LEMMA KqueueForget ==
  ASSUME NEW c \in Channels, KqueueInv, Kqueue!Forget(c)
  PROVE  KqueueInv'
<1>1. /\ object[c] = "added"
      /\ events[c] = {}
      /\ object' = [object EXCEPT ![c] = "removed"]
      /\ events' = events
      /\ Kqueue!removeChannel(c)
  BY DEF Kqueue!Forget, Kqueue!Remove
<1>2. c \in known /\ kq_events[c] = {} /\ Kqueue!AllThere(c, {})
  BY <1>1 DEF KqueueInv, Kqueue!AllThere
<1>3. /\ known' = known \ {c}
      /\ filters' = filters
      /\ kq_events' = kq_events
      /\ UNCHANGED <<exited, refused>>
  <2>1. /\ known' = known \ {c}
        /\ filters' = Kqueue!Deleted(c, {})
        /\ kq_events' = [kq_events EXCEPT ![c] = {}]
        /\ UNCHANGED <<exited, refused>>
    BY <1>1, <1>2 DEF Kqueue!removeChannel
  <2>2. /\ filters \in [Channels -> [{"read", "write"} ->
                                     {"absent", "enabled", "disabled"}]]
        /\ kq_events \in [Channels -> SUBSET {"read", "write"}]
    BY DEF KqueueInv, Kqueue!TypeOK, Kqueue!Filters
  <2>3. Kqueue!Deleted(c, {}) = filters
    <3>1. [f \in {"read", "write"} |-> filters[c][f]] = filters[c]
      BY <2>2
    <3>2. [f \in {"read", "write"} |-> IF f \in {} THEN "absent" ELSE filters[c][f]]
            = filters[c]
      BY <3>1
    <3>3. Kqueue!Deleted(c, {}) = [filters EXCEPT ![c] = filters[c]]
      BY <2>2, <3>2 DEF Kqueue!Deleted, Kqueue!Filters
    <3> QED BY <2>2, <3>3
  <2>4. [kq_events EXCEPT ![c] = {}] = kq_events
    BY <1>2, <2>2
  <2> QED BY <2>1, <2>3, <2>4
<1> QED
  BY <1>1, <1>3
  DEF KqueueInv, Kqueue!TypeOK, Kqueue!ChannelTypeOK, RecordMatchesKernel,
      Kqueue!RecordMatchesKernel

\* Closing the descriptor of a removed channel keeps KqueueInv.
LEMMA KqueueRenew ==
  ASSUME NEW c \in Channels, KqueueInv, Kqueue!Renew(c)
  PROVE  KqueueInv'
<1>1. /\ object[c] = "removed"
      /\ object' = [object EXCEPT ![c] = "new"]
      /\ filters' = [filters EXCEPT ![c] = [f \in {"read", "write"} |-> "absent"]]
      /\ UNCHANGED <<events, known, kq_events, exited, refused>>
  BY DEF Kqueue!Renew, Kqueue!Recreate, Kqueue!closeDescriptor, Kqueue!Deleted,
         Kqueue!Filters, KqueueInv, Kqueue!TypeOK
<1> QED
  BY <1>1
  DEF KqueueInv, Kqueue!TypeOK, Kqueue!ChannelTypeOK, RecordMatchesKernel,
      Kqueue!RecordMatchesKernel, Kqueue!Filters

-----------------------------------------------------------------------------
\* PollersInv is an invariant of the two pollers under the same calls.
LEMMA PollersInvariant ==
  ASSUME ReadFirst
  PROVE  Spec => []PollersInv
<1>1. Init => PollersInv
  <2>1. SUFFICES ASSUME Init PROVE PollInv /\ KqueueInv
    BY DEF PollersInv
  <2>2. PollInv
    <3>1. poll_fds = <<>> /\ Len(poll_fds) = 0 /\ poll_fds \in Seq(Poll!Entries)
      BY <2>1 DEF Init, Poll!Init, Poll!PollInit
    <3>2. ~aborted /\ aborted \in BOOLEAN
      BY <2>1, Zenon DEF Init, Poll!Init, Poll!PollInit
    <3>3. Poll!TypeOK
      BY <2>1, <3>1, <3>2
      DEF Init, Poll!Init, Poll!ChannelInit, Poll!PollInit, Poll!TypeOK,
          Poll!ChannelTypeOK
    <3>4. EachAtItsIndex
      BY <2>1, <3>1
      DEF Init, Poll!Init, Poll!ChannelInit, Poll!PollInit, EachAtItsIndex,
          Poll!EachAtItsIndex
    <3>5. \A d \in Channels : object[d] = "new" => index[d] = -1
      BY <2>1 DEF Init, Poll!Init, Poll!ChannelInit, Poll!PollInit
    <3> QED
      BY <3>1, <3>2, <3>3, <3>4, <3>5 DEF PollInv
  <2>3. KqueueInv
    BY <2>1
    DEF Init, Kqueue!Init, Kqueue!ChannelInit, Kqueue!KqueueInit, KqueueInv,
        Kqueue!TypeOK, Kqueue!ChannelTypeOK, Kqueue!Filters, RecordMatchesKernel,
        Kqueue!RecordMatchesKernel
  <2> QED BY <2>2, <2>3
<1>2. PollersInv /\ [Next]_vars => PollersInv'
  <2>1. SUFFICES ASSUME PollersInv, [Next]_vars PROVE PollersInv'
    OBVIOUS
  <2>2. ASSUME NEW c \in Channels, NEW opt \in Opts, Update(c, opt)
        PROVE  PollersInv'
    BY <2>1, <2>2, PollUpdate, KqueueUpdate DEF Update, PollersInv
  <2>3. ASSUME NEW c \in Channels, Forget(c) PROVE PollersInv'
    BY <2>1, <2>3, PollForget, KqueueForget DEF Forget, PollersInv
  <2>4. ASSUME NEW c \in Channels, Renew(c) PROVE PollersInv'
    BY <2>1, <2>4, PollRenew, KqueueRenew DEF Renew, PollersInv
  <2>5. CASE UNCHANGED vars
    BY <2>1, <2>5
    DEF vars, channelVars, PollersInv, PollInv, KqueueInv, Poll!TypeOK,
        Kqueue!TypeOK, Poll!ChannelTypeOK, Kqueue!ChannelTypeOK, EachAtItsIndex,
        Poll!EachAtItsIndex, Poll!Known, RecordMatchesKernel,
        Kqueue!RecordMatchesKernel
  <2> QED
    BY <2>1, <2>2, <2>3, <2>4, <2>5 DEF Next
<1> QED
  BY <1>1, <1>2, PTL DEF Spec

\* Both registration tables keep the types of the pollers' members.
THEOREM TypeCorrect ==
  ASSUME ReadFirst
  PROVE  Spec => []TypeOK
<1>1. PollersInv => TypeOK
  BY DEF PollersInv, PollInv, KqueueInv, TypeOK
<1> QED BY <1>1, PollersInvariant, PTL

\* Every channel in the loop has exactly one pollfd, at its index, whatever
\* the order of removals (poll_poller.cc:120-133).
THEOREM IndicesCorrect ==
  ASSUME ReadFirst
  PROVE  Spec => []EachAtItsIndex
<1>1. PollersInv => EachAtItsIndex
  BY DEF PollersInv, PollInv
<1> QED BY <1>1, PollersInvariant, PTL

\* The kqueue poller's record and the kernel's filters always agree
\* (kqueue_poller.cc:60-124, 174-202).
THEOREM RecordCorrect ==
  ASSUME ReadFirst
  PROVE  Spec => []RecordMatchesKernel
<1>1. PollersInv => RecordMatchesKernel
  BY DEF PollersInv, KqueueInv
<1> QED BY <1>1, PollersInvariant, PTL

\* No assertion of either poller fails, update() does not end the program, and
\* the kernel refuses nothing but to disable a write filter that was never
\* added (kqueue_poller.cc:119, 164-166).
THEOREM CallsSucceed ==
  ASSUME ReadFirst
  PROVE  Spec => []NeverFails
<1>1. PollersInv => NeverFails
  BY DEF PollersInv, PollInv, KqueueInv, NeverFails
<1> QED BY <1>1, PollersInvariant, PTL

\* Both pollers wait for exactly the enabled events, so they are
\* interchangeable for a loop.
THEOREM PollersAgree ==
  ASSUME ReadFirst
  PROVE  Spec => []WatchesWhatIsEnabled
<1>1. ASSUME PollersInv, NEW c \in Channels
      PROVE  Poll!Watched(c) = events[c] /\ Kqueue!Watched(c) = events[c]
  <2>1. events[c] \subseteq {"read", "write"} /\ (c \notin channels => events[c] = {})
    BY <1>1
    DEF PollersInv, PollInv, Poll!TypeOK, Poll!ChannelTypeOK, EachAtItsIndex,
        Poll!EachAtItsIndex
  <2>2. c \in channels => \E i \in 1..Len(poll_fds) : poll_fds[i].fd = c
    BY <1>1
    DEF PollersInv, PollInv, Poll!TypeOK, EachAtItsIndex, Poll!EachAtItsIndex,
        Poll!Known
  <2>3. \A i \in 1..Len(poll_fds) : poll_fds[i].fd = c =>
          /\ poll_fds[i].events = events[c]
          /\ poll_fds[i].ignored = (events[c] = {})
    BY <1>1 DEF PollersInv, PollInv
  <2>4. Poll!Watched(c) = events[c]
    BY <2>1, <2>2, <2>3 DEF Poll!Watched
  <2>5. Kqueue!Watched(c) = events[c]
    BY <1>1, <2>1
    DEF PollersInv, KqueueInv, RecordMatchesKernel, Kqueue!RecordMatchesKernel,
        Kqueue!Watched, Kqueue!Filters
  <2> QED BY <2>4, <2>5
<1>2. PollersInv => WatchesWhatIsEnabled
  BY <1>1 DEF WatchesWhatIsEnabled
<1> QED BY <1>2, PollersInvariant, PTL

=============================================================================
