-------------------------------- MODULE Pollers --------------------------------
(***************************************************************************)
(* The channels of an EventLoop and the two pollers below it               *)
(* (src/muduo/net/Channel, poller/EPollPoller.cc, poller/PollPoller.cc and *)
(* the part of EventLoop.cc that hands events out): what each channel      *)
(* wants, the poller's books about it, and what the kernel has been told.  *)
(* The kind of poller is chosen once, in newDefaultPoller.                 *)
(*                                                                         *)
(* While the loop hands events out a handler may change any channel, but   *)
(* removes only its own or one with no event waiting (the assert of        *)
(* EventLoop::removeChannel); the objects of removed channels go when no   *)
(* handler runs, and their descriptors are used again.                     *)
(***************************************************************************)
EXTENDS Integers, SequencesExt

CONSTANTS Fds,         \* the descriptors, of which each has at most one channel
          Kinds        \* "epoll", "poll"

ASSUME PollersAssumption ==
    Fds \subseteq Nat \ {0} /\ IsFiniteSet(Fds) /\ Kinds \subseteq {"epoll", "poll"}

Interests == {"in", "out"}
kNew == -1
kAdded == 1
kDeleted == 2

VARIABLES
  kind,       \* the class of poller_
  events,     \* events[c]: events_ of the channel c
  index,      \* index[c]: index_
  channels,   \* channels_
  kernel,     \* epoll: the events of each descriptor that the kernel has
  pollfds,    \* poll: pollfds_
  active,     \* activeChannels_, those still to be handled
  current,    \* currentActiveChannel_, 0 when no handler runs
  muted,      \* history: the channels whose pollfd updateChannel has negated
  fatal       \* epoll_ctl has failed

pollerVars == <<kind, events, index, channels, kernel, pollfds, active, current, muted, fatal>>
handing == <<kind, active, current>>

PollersInit ==
    /\ kind \in Kinds
    /\ events = [c \in Fds |-> {}] /\ index = [c \in Fds |-> kNew] /\ channels = {}
    /\ kernel = <<>> /\ pollfds = <<>> /\ active = <<>> /\ current = 0
    /\ muted = {} /\ fatal = FALSE

-----------------------------------------------------------------------------
(* EPollPoller: index_ tells whether the kernel has the descriptor. *)
Known == DOMAIN kernel
Told(c, ev) == kernel' = [d \in Known \cup {c} |-> IF d = c THEN ev ELSE kernel[d]]
Add(c, ev) == Told(c, ev) /\ fatal' = (c \in Known)
Mod(c, ev) == Told(c, ev) /\ fatal' = (c \notin Known)
Del(c) == kernel' = [d \in Known \ {c} |-> kernel[d]] /\ UNCHANGED fatal

IsNew_Only(c) == index[c] = kNew
IsNew(c) == index[c] \in {kNew, kDeleted}

EPollUpdate(c, ev) ==
    /\ channels' = channels \cup {c}
    /\ IF IsNew(c) THEN Add(c, ev) /\ index' = [index EXCEPT ![c] = kAdded]
       ELSE IF ev = {} THEN Del(c) /\ index' = [index EXCEPT ![c] = kDeleted]
       ELSE Mod(c, ev) /\ UNCHANGED index
    /\ UNCHANGED <<pollfds, muted>>

EPollRemove(c) ==
    /\ channels' = channels \ {c}
    /\ IF index[c] = kAdded THEN Del(c) ELSE UNCHANGED <<kernel, fatal>>
    /\ index' = [index EXCEPT ![c] = kNew]
    /\ UNCHANGED <<pollfds, muted>>

-----------------------------------------------------------------------------
(* PollPoller: index_ is the place in pollfds_, counted from 0; a negated fd is
   one that poll(2) ignores. *)
Negated(fd) == -fd - 1
FdOf(fd) == IF fd < 0 THEN -fd - 1 ELSE fd

PollUpdate(c, ev) ==
    /\ channels' = channels \cup {c}
    /\ IF index[c] < 0
       THEN /\ pollfds' = Append(pollfds, [fd |-> c, events |-> ev])
            /\ index' = [index EXCEPT ![c] = Len(pollfds)]
            /\ UNCHANGED muted
       ELSE /\ pollfds' = [pollfds EXCEPT ![index[c] + 1] =
                             [fd |-> IF ev = {} THEN Negated(c) ELSE @.fd, events |-> ev]]
            /\ muted' = IF ev = {} THEN muted \cup {c} ELSE muted
            /\ UNCHANGED index
    /\ UNCHANGED <<kernel, fatal>>

(* The last pollfd takes the place of the one that goes. *)
PollRemove(c) ==
    LET place == index[c] + 1
        last == pollfds[Len(pollfds)]
    IN /\ channels' = channels \ {c} /\ muted' = muted \ {c}
       /\ pollfds' = Front([pollfds EXCEPT ![place] = last])
       /\ index' = IF place = Len(pollfds) THEN index
                   ELSE [index EXCEPT ![FdOf(last.fd)] = index[c]]
       /\ UNCHANGED <<kernel, fatal>>

-----------------------------------------------------------------------------
(* Channel::update(): the channel object is new or the poller has it. *)
Alive(c) == c \in channels \/ index[c] = kNew

Update(c, ev) ==
    /\ Alive(c)
    /\ events' = [events EXCEPT ![c] = ev]
    /\ IF kind = "epoll" THEN EPollUpdate(c, ev) ELSE PollUpdate(c, ev)
    /\ UNCHANGED handing

enable(c) == \E e \in Interests : e \notin events[c] /\ Update(c, events[c] \cup {e})
disable(c) == \E e \in events[c] : Update(c, events[c] \ {e})
disableAll(c) == Update(c, {})

(* Channel::remove(): no event is wanted any more.  The assert of PollPoller asks
   for a negated pollfd: disableAll() comes before on every path. *)
remove(c) ==
    /\ c \in channels /\ events[c] = {} /\ ~Contains(active, c)
    /\ kind = "poll" => c \in muted
    /\ IF kind = "epoll" THEN EPollRemove(c) ELSE PollRemove(c)
    /\ UNCHANGED <<events, handing>>

(* The object of a removed channel goes and its descriptor gets a new one. *)
Renew(c) ==
    /\ c \notin channels /\ index[c] # kNew /\ current = 0 /\ active = <<>>
    /\ index' = [index EXCEPT ![c] = kNew]
    /\ UNCHANGED <<kind, events, channels, kernel, pollfds, active, current, muted, fatal>>

-----------------------------------------------------------------------------
(* What the kernel watches a descriptor for. *)
PollfdsOf(c) == {p \in ToSet(pollfds) : p.fd = c}
Watched(c) == IF kind = "epoll" THEN IF c \in Known THEN kernel[c] ELSE {}
              ELSE UNION {p.events : p \in PollfdsOf(c)}

(* poll(): some of the channels have events.  The loop handles them in turn. *)
poll ==
    /\ current = 0 /\ active = <<>>
    /\ \E ready \in SUBSET {c \in Fds : Watched(c) # {}} :
         ready # {} /\ active' \in SetToSeqs(ready)
    /\ UNCHANGED <<kind, events, index, channels, kernel, pollfds, current, muted, fatal>>

handleEvent ==
    /\ current = 0 /\ active # <<>>
    /\ current' = Head(active) /\ active' = Tail(active)
    /\ UNCHANGED <<kind, events, index, channels, kernel, pollfds, muted, fatal>>

handled ==
    /\ current # 0 /\ current' = 0
    /\ UNCHANGED <<kind, events, index, channels, kernel, pollfds, active, muted, fatal>>

PollersNext ==
    /\ ~fatal
    /\ \/ poll \/ handleEvent \/ handled
       \/ \E c \in Fds : enable(c) \/ disable(c) \/ disableAll(c) \/ remove(c) \/ Renew(c)

PollersSpec == PollersInit /\ [][PollersNext]_pollerVars

-----------------------------------------------------------------------------
(* EPollPoller.cc:109-155, PollPoller.cc:78-141: the kernel watches just what the
   channels want and no channel that was removed; with poll(2) one that was disabled
   stays unwatched.  Every channel has its own place in the poller's books, events
   are handed only to channels that the poller has, and epoll_ctl never fails. *)
Polled ==
    /\ \A c \in Fds : Watched(c) = IF c \in channels \ muted THEN events[c] ELSE {}
    /\ kind = "poll" =>
         /\ Len(pollfds) = Cardinality(channels)
         /\ \A c \in channels : FdOf(pollfds[index[c] + 1].fd) = c
    /\ ToSet(active) \subseteq channels
    /\ ~fatal

(* Poller.h:42, of updateChannel: "Changes the interested I/O events." *)
Changes == \A c \in channels : Watched(c) = events[c]
=============================================================================
