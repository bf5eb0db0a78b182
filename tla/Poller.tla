------------------------------- MODULE Poller -------------------------------
(***************************************************************************)
(* The pollers' books: which Channel watches which descriptor for which    *)
(* events.  EPollPoller keeps them in the kernel, PollPoller in a vector   *)
(* of pollfd whose places the channels remember.  A descriptor may get a   *)
(* new Channel once the old one has been removed and destroyed.            *)
(***************************************************************************)
EXTENDS Integers, Sequences, FiniteSets

CONSTANTS Channels,     \* pairs <<descriptor, n>>
          Events        \* kReadEvent, kWriteEvent

VARIABLES
    kind,       \* "epoll" or "poll", see newDefaultPoller()
    chan,       \* events_, index_ and addedToLoop_ of the channels that exist
    channels,   \* channels_
    epoll,      \* the kernel's table: descriptor -> channel and events
    pollfds,    \* pollfds_
    wrong       \* an assert failed, or epoll_ctl() did

pollerVars == <<kind, chan, channels, epoll, pollfds, wrong>>

fd(c) == c[1]
kNew == -1
kAdded == 1
kDeleted == 2

NewChannel == [events |-> {}, index |-> -1, added |-> FALSE]
Restrict(f, S) == [x \in S |-> f[x]]
Put(f, x, y) == [z \in DOMAIN f \union {x} |-> IF z = x THEN y ELSE f[z]]
Known(c) == fd(c) \in DOMAIN channels /\ channels[fd(c)] = c

Init == /\ kind \in {"epoll", "poll"}
        /\ chan = <<>> /\ channels = <<>> /\ epoll = <<>> /\ pollfds = <<>> /\ wrong = FALSE

(* A Channel is made for a descriptor, and destroyed when it has been      *)
(* removed.                                                                *)
Create(c) ==
    /\ \A d \in DOMAIN chan : fd(d) # fd(c)
    /\ chan' = Put(chan, c, NewChannel)
    /\ UNCHANGED <<kind, channels, epoll, pollfds, wrong>>

Destroy(c) ==
    /\ c \in DOMAIN chan /\ ~ chan[c].added
    /\ chan' = Restrict(chan, DOMAIN chan \ {c})
    /\ wrong' = (wrong \/ Known(c))
    /\ UNCHANGED <<kind, channels, epoll, pollfds>>

-----------------------------------------------------------------------------

(* update(): what epoll_ctl() is given.                                    *)
Entry(c, ev) == [c |-> c, events |-> ev]

(* EPollPoller::updateChannel() for channel c that asks for events ev.     *)
EpollUpdate(c, ev) ==
    LET i == chan[c].index
        none == ev = {}
    IN IF i = kAdded
       THEN /\ wrong' = (wrong \/ ~ Known(c) \/ fd(c) \notin DOMAIN epoll)
            /\ epoll' = IF none THEN Restrict(epoll, DOMAIN epoll \ {fd(c)})
                        ELSE Put(epoll, fd(c), Entry(c, ev))
            /\ chan' = [chan EXCEPT ![c] = [events |-> ev, added |-> TRUE,
                                            index |-> IF none THEN kDeleted ELSE kAdded]]
            /\ UNCHANGED channels
       ELSE /\ wrong' = (wrong \/ fd(c) \in DOMAIN epoll
                               \/ (IF i = kNew THEN fd(c) \in DOMAIN channels ELSE ~ Known(c)))
            /\ epoll' = Put(epoll, fd(c), Entry(c, ev))
            /\ channels' = Put(channels, fd(c), c)
            /\ chan' = [chan EXCEPT ![c] = [events |-> ev, added |-> TRUE, index |-> kAdded]]

(* Mutant: only a channel that asks for events is taken out.               *)
MutEpollRemoves(c) == chan[c].index = kAdded /\ chan[c].events # {}

EpollRemoves(c) == chan[c].index = kAdded

EpollRemove(c) ==
    /\ wrong' = (wrong \/ ~ Known(c) \/ chan[c].index \notin {kAdded, kDeleted})
    /\ epoll' = IF EpollRemoves(c) THEN Restrict(epoll, DOMAIN epoll \ {fd(c)}) ELSE epoll
    /\ chan' = [chan EXCEPT ![c] = [events |-> @.events, added |-> FALSE, index |-> kNew]]

-----------------------------------------------------------------------------
(* PollPoller: an entry of another sign (-fd-1) is one to be ignored.      *)
Place(c) == chan[c].index + 1
InRange(c) == Place(c) \in 1 .. Len(pollfds)

PollUpdate(c, ev) ==
    IF chan[c].index < 0
    THEN /\ wrong' = (wrong \/ fd(c) \in DOMAIN channels)
         /\ pollfds' = Append(pollfds, [fd |-> fd(c), events |-> ev])
         /\ channels' = Put(channels, fd(c), c)
         /\ chan' = [chan EXCEPT ![c] = [events |-> ev, added |-> TRUE, index |-> Len(pollfds)]]
    ELSE /\ wrong' = (wrong \/ ~ Known(c) \/ ~ InRange(c)
                            \/ pollfds[Place(c)].fd \notin {fd(c), -fd(c) - 1})
         /\ pollfds' = [pollfds EXCEPT ![Place(c)] =
                           [fd |-> IF ev = {} THEN -fd(c) - 1 ELSE @.fd, events |-> ev]]
         /\ chan' = [chan EXCEPT ![c].events = ev]
         /\ UNCHANGED channels

(* The channel of the last entry learns its new place.                     *)
Moved(c, end) == LET d == channels[IF end < 0 THEN -end - 1 ELSE end] IN
                 [chan EXCEPT ![d].index = chan[c].index]

(* removeChannel() swaps the entry with the last one.                      *)
PollRemove(c) ==
    LET n == Len(pollfds)
        p == Place(c)
        moved == IF p = n THEN chan ELSE Moved(c, pollfds[n].fd)
    IN /\ wrong' = (wrong \/ ~ Known(c) \/ ~ InRange(c) \/ pollfds[p].fd # -fd(c) - 1
                          \/ pollfds[p].events # chan[c].events)
       /\ pollfds' = SubSeq([pollfds EXCEPT ![p] = pollfds[n]], 1, n - 1)
       /\ chan' = [moved EXCEPT ![c].added = FALSE]
       /\ UNCHANGED epoll

-----------------------------------------------------------------------------
(* Channel::enableReading(), disableWriting(), disableAll() and the like.  *)
Asks(c) == {chan[c].events \union {e} : e \in Events} \union {chan[c].events \ {e} : e \in Events}
           \union {{}}

Update(c, ev) ==
    /\ c \in DOMAIN chan
    /\ IF kind = "epoll" THEN EpollUpdate(c, ev) /\ UNCHANGED pollfds
       ELSE PollUpdate(c, ev) /\ UNCHANGED epoll
    /\ UNCHANGED kind

(* A channel removed from a PollPoller keeps its index, so it is used no   *)
(* more.                                                                   *)
Usable(c) == kind = "poll" => (chan[c].added \/ chan[c].index < 0)

(* Channel::remove(), of a channel that was added and asks for nothing.    *)
Remove(c) ==
    /\ c \in DOMAIN chan /\ chan[c].added /\ chan[c].events = {}
    /\ channels' = Restrict(channels, DOMAIN channels \ {fd(c)})
    /\ IF kind = "epoll" THEN EpollRemove(c) /\ UNCHANGED pollfds ELSE PollRemove(c)
    /\ UNCHANGED kind

(* The PollPoller of this code needs the channel's events disabled through *)
(* an update of an existing entry before it can be removed.                *)
Removable(c) == kind = "poll" => pollfds[Place(c)].fd < 0

Next == \E c \in Channels :
    \/ Create(c) \/ Destroy(c)
    \/ c \in DOMAIN chan /\ Usable(c) /\ \E ev \in Asks(c) : Update(c, ev)
    \/ c \in DOMAIN chan /\ chan[c].added /\ Removable(c) /\ Remove(c)

Spec == Init /\ [][Next]_pollerVars
-----------------------------------------------------------------------------
(* What poll() and epoll_wait() report events for.                         *)
Watched(c) ==
    LET seen == {i \in 1 .. Len(pollfds) : pollfds[i].fd = fd(c)} IN
    IF kind = "epoll" THEN (IF fd(c) \in DOMAIN epoll /\ epoll[fd(c)].c = c
                            THEN epoll[fd(c)].events ELSE {})
    ELSE IF Known(c) THEN UNION {pollfds[i].events : i \in seen} ELSE {}

(* channels_, the channels' indices, and the kernel's table or pollfds_    *)
(* agree after any updates and removals, and no assert of the pollers      *)
(* fails: an event always finds the living channel it is for.              *)
BooksAgree ==
    /\ ~ wrong
    /\ \A d \in DOMAIN channels : channels[d] \in DOMAIN chan /\ chan[channels[d]].added
    /\ kind = "epoll" => \A d \in DOMAIN epoll :
           Known(epoll[d].c) /\ fd(epoll[d].c) = d /\ chan[epoll[d].c].index = kAdded
    /\ kind = "poll" => /\ Cardinality(DOMAIN channels) = Len(pollfds)
                        /\ \A d \in DOMAIN channels :
                               pollfds[Place(channels[d])].fd \in {d, -d - 1}

(* No channel gets events it did not ask for; with epoll it gets exactly   *)
(* the ones it asks for.                                                   *)
EventsAsAsked ==
    \A c \in DOMAIN chan : /\ Watched(c) \subseteq chan[c].events
                           /\ kind = "epoll" => Watched(c) = chan[c].events

(* Whatever the order of updates and removals, events go where they are    *)
(* asked for.                                                              *)
PollersAgree == BooksAgree /\ EventsAsAsked
=============================================================================
