------------------------------ MODULE Events --------------------------------
(* The bus of operational events: a ring of the newest ones and a bounded     *)
(* stream per subscriber. A subscriber whose stream is full is closed and     *)
(* forgotten; what is in its stream it may still read. Events are numbered in *)
(* the order of their publication. The recorder of live traffic keeps its     *)
(* streams the same way.                                                      *)
EXTENDS Naturals, Sequences, FiniteSets

CONSTANTS Listeners,
          Retained, StreamCapacity, MaxSubscribers,
          MaxPublished                                  \* bound

ASSUME EventsAssumption ==
  /\ Retained \in Nat \ {0} /\ StreamCapacity \in Nat \ {0} /\ MaxSubscribers \in Nat /\ MaxPublished \in Nat
  /\ IsFiniteSet(Listeners)

VARIABLES ring, published,     \* the newest events, and how many there were
          streams              \* [Listeners -> [state, buffer]]

busVars == <<ring, published, streams>>

NoStream == [state |-> "none", buffer |-> <<>>]

EventsInit ==
  /\ ring = <<>> /\ published = 0
  /\ streams = [l \in Listeners |-> NoStream]

Subscribed == {l \in Listeners : streams[l].state = "open"}

Newest(events) == IF Len(events) > Retained THEN Tail(events) ELSE events

(* Mutant: an event that does not fit is skipped and the stream stays open. *)
BugOffered(stream, e) ==
  CASE stream.state # "open" -> stream
    [] stream.state = "open" /\ Len(stream.buffer) < StreamCapacity ->
         [stream EXCEPT !.buffer = Append(@, e)]
    [] OTHER -> stream

Offered(stream, e) ==
  CASE stream.state # "open" -> stream
    [] stream.state = "open" /\ Len(stream.buffer) < StreamCapacity ->
         [stream EXCEPT !.buffer = Append(@, e)]
    [] OTHER -> [stream EXCEPT !.state = "closed"]

Publish ==
  /\ published < MaxPublished
  /\ published' = published + 1
  /\ ring' = Newest(Append(ring, published + 1))
  /\ streams' = [l \in Listeners |-> Offered(streams[l], published + 1)]

(* Mutant: the limit is not looked at. *)
BugMaySubscribe == TRUE

MaySubscribe == Cardinality(Subscribed) < MaxSubscribers

Subscribe(l) ==
  /\ streams[l].state = "none" /\ MaySubscribe
  /\ streams' = [streams EXCEPT ![l].state = "open"]
  /\ UNCHANGED <<ring, published>>

(* The subscriber's context ends. *)
Unsubscribe(l) ==
  /\ streams[l].state = "open"
  /\ streams' = [streams EXCEPT ![l].state = "closed"]
  /\ UNCHANGED <<ring, published>>

Receive(l) ==
  /\ streams[l].buffer # <<>>
  /\ streams' = [streams EXCEPT ![l].buffer = Tail(@)]
  /\ UNCHANGED <<ring, published>>

(* The subscriber finds its stream closed and empty. *)
EndOfStream(l) ==
  /\ streams[l].state = "closed" /\ streams[l].buffer = <<>>
  /\ streams' = [streams EXCEPT ![l] = NoStream]
  /\ UNCHANGED <<ring, published>>

(* A client of the live stream: it comes, reads as fast as it can, and leaves. *)
ServeStream(l) == Subscribe(l) \/ Receive(l) \/ EndOfStream(l) \/ Unsubscribe(l)

-----------------------------------------------------------------------------

EventsTypeOK ==
  /\ published \in 0 .. MaxPublished /\ Len(ring) <= Retained
  /\ \A l \in Listeners : /\ streams[l].state \in {"none", "open", "closed"}
                          /\ Len(streams[l].buffer) <= StreamCapacity
  /\ Cardinality(Subscribed) <= MaxSubscribers

Consecutive(events) == \A i \in 1 .. Len(events) - 1 : events[i + 1] = events[i] + 1

(* What a subscriber reads between a subscription and the close has no hole:  *)
(* an open stream ends with the newest event, the ring too, and neither skips *)
(* one. A slow reader loses its stream, never an event in the middle of it    *)
(* (Bus.Publish).                                                             *)
NoHoles ==
  /\ Consecutive(ring) /\ (published > 0 => ring[Len(ring)] = published)
  /\ \A l \in Listeners :
       /\ Consecutive(streams[l].buffer)
       /\ streams[l].state = "open" /\ streams[l].buffer # <<>>
            => streams[l].buffer[Len(streams[l].buffer)] = published
=============================================================================
