---------------------------- MODULE ServicesProofs --------------------------
(* Theorems about the services beside the path of a request: Alerts with the  *)
(* bus under it, for every set of listeners, webhooks, rules and workers,     *)
(* every capacity and every bound; Caches and DiskCache, for every set of     *)
(* keys, every size, expiry and limit; and MCServices, which composes them.   *)
(* The invariant of the alerts follows an event: its stream is a stretch of   *)
(* what was published (BusOK), stream, queue and router hold later events     *)
(* than any task ever made (FlowOK), so the task the router makes is a new    *)
(* one; a task is in one place and a success that is seen ends it (TasksOK).  *)
(* That of the caches in memory (CachesInv) is that their counts are those of *)
(* their entries. That of the cache on disk (DiskInv) says, for the key of    *)
(* the Put under way, which file is where at each of its steps (FilesOK), and *)
(* that the room it made is still there (PutOK). A start enters any number of *)
(* files: that each state on the way is one of Loads is shown with the        *)
(* induction of DataTheorems.                                                 *)
EXTENDS MCServices, DataTheorems, SequenceTheorems

-----------------------------------------------------------------------------
(* The bus.                                                                   *)

Rising(s) == \A i, j \in 1 .. Len(s) : i < j => s[i] < s[j]

StreamOK(x, n) ==
  /\ x \in [state : {"none", "open", "closed"}, buffer : Seq(Nat)]
  /\ Len(x.buffer) <= StreamCapacity
  /\ x.state = "none" => x.buffer = <<>>
  /\ Consecutive(x.buffer) /\ Rising(x.buffer)
  /\ \A i \in 1 .. Len(x.buffer) : x.buffer[i] <= n
  /\ x.state = "open" /\ x.buffer # <<>> => x.buffer[Len(x.buffer)] = n

RingOK ==
  /\ published \in 0 .. MaxPublished
  /\ ring \in Seq(Nat) /\ Len(ring) <= Retained /\ Consecutive(ring)
  /\ IF published = 0 THEN ring = <<>> ELSE ring # <<>> /\ ring[Len(ring)] = published

StreamsOK ==
  /\ streams = [l \in Listeners |-> streams[l]]
  /\ \A l \in Listeners : StreamOK(streams[l], published)

BusOK == RingOK /\ StreamsOK /\ Cardinality(Subscribed) <= MaxSubscribers

BusMoves ==
  \/ Publish \/ UNCHANGED busVars
  \/ \E l \in Listeners : Subscribe(l) \/ Unsubscribe(l) \/ Receive(l) \/ EndOfStream(l)

LEMMA AppendFacts ==
  ASSUME NEW S, NEW s \in Seq(S), NEW e \in S
  PROVE  /\ Append(s, e) \in Seq(S) /\ Len(Append(s, e)) = Len(s) + 1 /\ Append(s, e) # <<>>
         /\ \A i \in 1 .. Len(s) : Append(s, e)[i] = s[i]
         /\ Append(s, e)[Len(s) + 1] = e
OBVIOUS

LEMMA TailFacts ==
  ASSUME NEW S, NEW s \in Seq(S), s # <<>>
  PROVE  /\ Tail(s) \in Seq(S) /\ Len(Tail(s)) = Len(s) - 1 /\ Len(s) \in Nat \ {0}
         /\ \A i \in 1 .. Len(s) - 1 : Tail(s)[i] = s[i + 1]
         /\ Head(s) = s[1] /\ Head(s) \in S
OBVIOUS

LEMMA AppendConsecutive ==
  ASSUME NEW s \in Seq(Nat), NEW e \in Nat, Consecutive(s), s # <<>> => s[Len(s)] = e
  PROVE  Consecutive(Append(s, e + 1))
<1>1. /\ Len(s) \in Nat /\ Len(Append(s, e + 1)) = Len(s) + 1
      /\ \A i \in 1 .. Len(s) : Append(s, e + 1)[i] = s[i]
      /\ Append(s, e + 1)[Len(s) + 1] = e + 1
  BY AppendFacts
<1>2. SUFFICES ASSUME NEW i \in 1 .. Len(s)
               PROVE  Append(s, e + 1)[i + 1] = Append(s, e + 1)[i] + 1
  BY <1>1 DEF Consecutive
<1>3. CASE i = Len(s) 
  <2>1. s # <<>> BY <1>3, <1>1
  <2>2. QED BY <2>1, <1>3, <1>1
<1>4. CASE i < Len(s) 
  <2>1. s[i + 1] = s[i] + 1 BY <1>4, <1>1 DEF Consecutive
  <2>2. QED BY <2>1, <1>4, <1>1
<1>5. QED BY <1>1, <1>3, <1>4

LEMMA TailConsecutive ==
  ASSUME NEW s \in Seq(Nat), s # <<>>, Consecutive(s)
  PROVE  Consecutive(Tail(s))
<1>1. /\ Len(s) \in Nat /\ Len(Tail(s)) = Len(s) - 1
      /\ \A i \in 1 .. Len(s) - 1 : Tail(s)[i] = s[i + 1]
  BY TailFacts
<1>2. ASSUME NEW i \in 1 .. Len(s) - 1 - 1 PROVE Tail(s)[i + 1] = Tail(s)[i] + 1
  <2>1. i \in 1 .. Len(s) - 1 /\ i + 1 \in 1 .. Len(s) - 1 BY <1>1
  <2>2. s[i + 1 + 1] = s[i + 1] + 1 BY <2>1 DEF Consecutive
  <2>3. QED BY <1>1, <2>1, <2>2
<1>3. QED BY <1>1, <1>2 DEF Consecutive

LEMMA StreamTail ==
  ASSUME NEW x, StreamOK(x, published), published \in Nat, x.buffer # <<>>,
         NEW y, y = [x EXCEPT !.buffer = Tail(@)]
  PROVE  StreamOK(y, published)
<1>1. /\ x.buffer \in Seq(Nat) /\ Len(x.buffer) \in Nat \ {0}
      /\ Tail(x.buffer) \in Seq(Nat) /\ Len(Tail(x.buffer)) = Len(x.buffer) - 1
      /\ \A i \in 1 .. Len(x.buffer) - 1 : Tail(x.buffer)[i] = x.buffer[i + 1]
  BY TailFacts DEF StreamOK
<1>2. y.state = x.state /\ y.buffer = Tail(x.buffer)
      /\ y \in [state : {"none", "open", "closed"}, buffer : Seq(Nat)]
  BY <1>1 DEF StreamOK
<1>3. Consecutive(y.buffer) BY <1>2, TailConsecutive DEF StreamOK
<1>a. \A i \in 1 .. Len(y.buffer) : i + 1 \in 1 .. Len(x.buffer) /\ y.buffer[i] = x.buffer[i + 1]
  BY <1>1, <1>2
<1>4. Rising(y.buffer)
  <2>1. SUFFICES ASSUME NEW i \in 1 .. Len(y.buffer), NEW j \in 1 .. Len(y.buffer), i < j
                 PROVE  y.buffer[i] < y.buffer[j]
    BY DEF Rising
  <2>2. i + 1 < j + 1 BY <2>1, <1>1, <1>2
  <2>3. QED BY <1>a, <2>1, <2>2 DEF StreamOK, Rising
<1>5. \A i \in 1 .. Len(y.buffer) : y.buffer[i] <= published BY <1>a DEF StreamOK
<1>6. y.state = "open" /\ y.buffer # <<>> => y.buffer[Len(y.buffer)] = published
  <2>1. ASSUME y.state = "open", y.buffer # <<>> PROVE y.buffer[Len(y.buffer)] = published
    <3>1. Len(x.buffer) - 1 \in 1 .. Len(x.buffer) - 1 BY <1>1, <1>2, <2>1
    <3>2. Tail(x.buffer)[Len(x.buffer) - 1] = x.buffer[Len(x.buffer) - 1 + 1] BY <1>1, <3>1
    <3>3. x.buffer[Len(x.buffer)] = published BY <1>2, <2>1 DEF StreamOK
    <3>4. Len(x.buffer) - 1 + 1 = Len(x.buffer) BY <1>1
    <3>5. QED BY <1>1, <1>2, <3>2, <3>3, <3>4
  <2>2. QED BY <2>1
<1>7. y.state # "none" BY <1>2 DEF StreamOK
<1>8. Len(y.buffer) <= StreamCapacity BY <1>1, <1>2, EventsAssumption DEF StreamOK
<1>9. QED BY <1>2, <1>3, <1>4, <1>5, <1>6, <1>7, <1>8 DEF StreamOK

(* Offering an event to a stream. *)
LEMMA StreamOffered ==
  ASSUME NEW x, StreamOK(x, published), published \in Nat,
         NEW y, y = Offered(x, published + 1)
  PROVE  StreamOK(y, published + 1)
<1> DEFINE e == published + 1
<1>0. x.buffer \in Seq(Nat) /\ e \in Nat BY DEF StreamOK
<1>1. /\ Len(x.buffer) \in Nat
      /\ Append(x.buffer, e) \in Seq(Nat) /\ Len(Append(x.buffer, e)) = Len(x.buffer) + 1
      /\ \A i \in 1 .. Len(x.buffer) : Append(x.buffer, e)[i] = x.buffer[i]
      /\ Append(x.buffer, e)[Len(x.buffer) + 1] = e
  BY <1>0, AppendFacts
<1>2. \A i \in 1 .. Len(x.buffer) : x.buffer[i] \in Nat /\ x.buffer[i] < e
  <2>1. \A i \in 1 .. Len(x.buffer) : x.buffer[i] \in Nat /\ x.buffer[i] <= published
    BY <1>0 DEF StreamOK
  <2>2. QED BY <2>1
<1>3. CASE x.state # "open"
  <2>1. y = x BY <1>3 DEF Offered
  <2>2. \A i \in 1 .. Len(y.buffer) : y.buffer[i] <= e BY <1>2, <2>1
  <2>3. QED BY <1>3, <2>1, <2>2 DEF StreamOK, Rising, Consecutive
<1>4. CASE x.state = "open" /\ Len(x.buffer) < StreamCapacity
  <2>1. y = [x EXCEPT !.buffer = Append(@, e)] BY <1>4 DEF Offered
  <2>2. /\ y.state = "open" /\ y.buffer = Append(x.buffer, e)
        /\ y \in [state : {"none", "open", "closed"}, buffer : Seq(Nat)]
    BY <1>1, <1>4, <2>1 DEF StreamOK
  <2>3. Consecutive(y.buffer)
    <3>1. x.buffer # <<>> => x.buffer[Len(x.buffer)] = published BY <1>4 DEF StreamOK
    <3>2. Consecutive(x.buffer) BY DEF StreamOK
    <3>3. QED BY <1>0, <2>2, <3>1, <3>2, AppendConsecutive
  <2>4. Rising(y.buffer)
    <3>1. SUFFICES ASSUME NEW i \in 1 .. Len(x.buffer) + 1, NEW j \in 1 .. Len(x.buffer) + 1, i < j
                   PROVE  Append(x.buffer, e)[i] < Append(x.buffer, e)[j]
      BY <1>1, <2>2 DEF Rising
    <3>2. i \in 1 .. Len(x.buffer) BY <3>1, <1>1
    <3>3. CASE j = Len(x.buffer) + 1 BY <3>2, <3>3, <1>1, <1>2
    <3>4. CASE j \in 1 .. Len(x.buffer) BY <3>1, <3>2, <3>4, <1>1 DEF StreamOK, Rising
    <3>5. QED BY <3>1, <3>3, <3>4, <1>1
  <2>5. \A i \in 1 .. Len(y.buffer) : y.buffer[i] <= e
    <3>1. ASSUME NEW i \in 1 .. Len(x.buffer) + 1 PROVE Append(x.buffer, e)[i] <= e
      <4>1. CASE i = Len(x.buffer) + 1 BY <4>1, <1>1
      <4>2. CASE i \in 1 .. Len(x.buffer) BY <4>2, <1>1, <1>2
      <4>3. QED BY <4>1, <4>2, <1>1
    <3>2. QED BY <3>1, <1>1, <2>2
  <2>6. Len(y.buffer) <= StreamCapacity /\ y.buffer[Len(y.buffer)] = e
    BY <1>1, <1>4, <2>2, EventsAssumption
  <2>7. QED BY <2>2, <2>3, <2>4, <2>5, <2>6 DEF StreamOK, Rising, Consecutive
<1>5. CASE x.state = "open" /\ ~(Len(x.buffer) < StreamCapacity)
  <2>1. y = [x EXCEPT !.state = "closed"] BY <1>5 DEF Offered
  <2>2. y.state = "closed" /\ y.buffer = x.buffer
        /\ y \in [state : {"none", "open", "closed"}, buffer : Seq(Nat)]
    BY <2>1 DEF StreamOK
  <2>3. \A i \in 1 .. Len(y.buffer) : y.buffer[i] <= e BY <1>2, <2>2
  <2>4. QED BY <2>2, <2>3 DEF StreamOK, Rising, Consecutive
<1>6. QED BY <1>3, <1>4, <1>5

LEMMA RingPublish == RingOK /\ Publish => RingOK'
<1> SUFFICES ASSUME RingOK, Publish PROVE RingOK' OBVIOUS
<1> DEFINE e == published + 1
           s == Append(ring, e)
<1>1. /\ published \in Nat /\ published < MaxPublished /\ MaxPublished \in Nat
      /\ published' = e /\ ring' = Newest(s) /\ ring \in Seq(Nat) /\ e \in Nat
  BY EventsAssumption DEF RingOK, Publish
<1>2. /\ s \in Seq(Nat) /\ Len(s) = Len(ring) + 1 /\ s # <<>> /\ Len(ring) \in Nat
      /\ s[Len(ring) + 1] = e
  BY <1>1, AppendFacts
<1>3. Consecutive(s)
  <2>1. ring # <<>> => ring[Len(ring)] = published BY DEF RingOK
  <2>2. Consecutive(ring) BY DEF RingOK
  <2>3. QED BY <1>1, <2>1, <2>2, AppendConsecutive
<1>4. Len(ring) <= Retained /\ Retained \in Nat \ {0} BY EventsAssumption DEF RingOK
<1>5. published' \in 0 .. MaxPublished /\ published' # 0 BY <1>1
<1> HIDE DEF s, e
<1>6. CASE Len(s) <= Retained
  <2>1. ring' = s BY <1>1, <1>2, <1>4, <1>6 DEF Newest
  <2>2. QED BY <1>1, <1>2, <1>3, <1>5, <1>6, <2>1 DEF RingOK, Consecutive
<1>7. CASE ~(Len(s) <= Retained)
  <2>1. ring' = Tail(s) BY <1>1, <1>2, <1>4, <1>7 DEF Newest
  <2>2. /\ Tail(s) \in Seq(Nat) /\ Len(Tail(s)) = Len(s) - 1
        /\ \A i \in 1 .. Len(s) - 1 : Tail(s)[i] = s[i + 1]
    BY <1>2, TailFacts
  <2>3. Consecutive(Tail(s)) BY <1>2, <1>3, TailConsecutive
  <2>4. Len(ring) = Retained /\ Len(Tail(s)) = Retained BY <1>2, <1>4, <1>7, <2>2
  <2>5. Tail(s)[Len(Tail(s))] = e /\ Tail(s) # <<>>
    <3>1. Len(s) = Retained + 1 /\ Retained \in 1 .. Len(s) - 1 BY <1>2, <1>4, <2>4
    <3>2. Tail(s)[Retained] = s[Retained + 1] BY <2>2, <3>1
    <3>3. QED BY <1>2, <1>4, <2>2, <2>4, <3>2
  <2>6. QED BY <1>1, <1>5, <2>1, <2>2, <2>3, <2>4, <2>5, <1>4 DEF RingOK, Consecutive
<1>8. QED BY <1>6, <1>7

LEMMA StreamOpened ==
  ASSUME NEW x, StreamOK(x, published), NEW s \in {"open", "closed"}, NEW y, y = [x EXCEPT !.state = s],
         s = "open" => x.buffer = <<>>
  PROVE  StreamOK(y, published)
<1>1. /\ y.state = s /\ y.buffer = x.buffer
      /\ y \in [state : {"none", "open", "closed"}, buffer : Seq(Nat)]
  BY DEF StreamOK
<1>2. QED BY <1>1 DEF StreamOK, Rising, Consecutive

(* One stream changes, and no more are open than may be.                      *)
LEMMA StreamStep ==
  ASSUME BusOK, NEW l \in Listeners, NEW y, streams' = [streams EXCEPT ![l] = y],
         StreamOK(y, published), y.state = "open" => streams[l].state = "open" \/ MaySubscribe,
         UNCHANGED <<ring, published>>
  PROVE  BusOK'
<1>1. /\ streams'[l] = y /\ \A k \in Listeners \ {l} : streams'[k] = streams[k]
      /\ streams' = [k \in Listeners |-> streams'[k]]
  BY DEF BusOK, StreamsOK
<1>2. StreamsOK'
  <2>1. ASSUME NEW k \in Listeners PROVE StreamOK(streams[k], published)'
    <3>1. StreamOK(streams'[k], published) BY <1>1 DEF BusOK, StreamsOK
    <3>2. QED BY <3>1 DEF StreamOK
  <2>2. QED BY <1>1, <2>1 DEF StreamsOK
<1>3. RingOK' BY DEF BusOK, RingOK
<1>4. IsFiniteSet(Subscribed) /\ Cardinality(Subscribed) \in Nat
  BY EventsAssumption, FS_Subset, FS_CardinalityType DEF Subscribed
<1>5. Cardinality(Subscribed') <= MaxSubscribers
  <2>1. CASE y.state # "open" \/ streams[l].state = "open"
    <3>1. Subscribed' \in SUBSET Subscribed BY <1>1, <2>1 DEF Subscribed
    <3>2. Cardinality(Subscribed') <= Cardinality(Subscribed)
          /\ Cardinality(Subscribed') \in Nat
      BY <1>4, <3>1, FS_Subset, FS_CardinalityType
    <3>3. QED BY <1>4, <3>2, EventsAssumption DEF BusOK
  <2>2. CASE y.state = "open" /\ streams[l].state # "open"
    <3>1. Subscribed' = Subscribed \cup {l} /\ l \notin Subscribed
      BY <1>1, <2>2 DEF Subscribed
    <3>2. Cardinality(Subscribed \cup {l}) = Cardinality(Subscribed) + 1
      BY <1>4, <3>1, FS_AddElement
    <3>3. Cardinality(Subscribed) < MaxSubscribers BY <2>2 DEF MaySubscribe
    <3>4. QED BY <1>4, <3>1, <3>2, <3>3, EventsAssumption
  <2>3. QED BY <2>1, <2>2
<1>6. QED BY <1>2, <1>3, <1>5 DEF BusOK

LEMMA PublishStep == BusOK /\ Publish => BusOK'
<1> SUFFICES ASSUME BusOK, Publish PROVE BusOK' OBVIOUS
<1>1. RingOK' BY RingPublish DEF BusOK
<1>2. /\ published \in Nat /\ published' = published + 1
      /\ \A l \in Listeners : streams'[l] = Offered(streams[l], published + 1)
      /\ streams' = [l \in Listeners |-> streams'[l]]
  BY EventsAssumption DEF Publish, BusOK, RingOK
<1>3. ASSUME NEW l \in Listeners PROVE StreamOK(streams'[l], published')
  <2>1. StreamOK(streams[l], published) BY DEF BusOK, StreamsOK
  <2>2. QED BY <1>2, <2>1, StreamOffered
<1>4. ASSUME NEW l \in Listeners, streams'[l].state = "open" PROVE streams[l].state = "open"
  <2>1. SUFFICES ASSUME streams[l].state # "open" PROVE FALSE OBVIOUS
  <2>2. Offered(streams[l], published + 1) = streams[l] BY <2>1 DEF Offered
  <2>3. QED BY <1>2, <1>4, <2>1, <2>2
<1>5. Subscribed' \in SUBSET Subscribed BY <1>4 DEF Subscribed
<1>6. IsFiniteSet(Subscribed) /\ Cardinality(Subscribed) \in Nat
  BY EventsAssumption, FS_Subset, FS_CardinalityType DEF Subscribed
<1>7. Cardinality(Subscribed') <= Cardinality(Subscribed) /\ Cardinality(Subscribed') \in Nat
  BY <1>5, <1>6, FS_Subset, FS_CardinalityType
<1>8. QED BY <1>1, <1>2, <1>3, <1>6, <1>7, EventsAssumption DEF BusOK, StreamsOK

LEMMA EmptyOK == \A n : StreamOK(NoStream, n)
BY EventsAssumption DEF StreamOK, NoStream, Consecutive, Rising

LEMMA BusStep == BusOK /\ BusMoves => BusOK'
<1> SUFFICES ASSUME BusOK, BusMoves PROVE BusOK' OBVIOUS
<1>1. CASE Publish BY <1>1, PublishStep
<1>2. CASE UNCHANGED busVars
  BY <1>2 DEF busVars, BusOK, RingOK, StreamsOK, StreamOK, Subscribed, Consecutive
<1>3. ASSUME NEW l \in Listeners, Subscribe(l) PROVE BusOK'
  <2>1. /\ streams[l].state = "none" /\ MaySubscribe /\ UNCHANGED <<ring, published>>
        /\ streams' = [streams EXCEPT ![l] = [streams[l] EXCEPT !.state = "open"]]
    BY <1>3 DEF Subscribe
  <2>2. StreamOK(streams[l], published) /\ streams[l].buffer = <<>> BY <2>1 DEF BusOK, StreamsOK, StreamOK
  <2>3. StreamOK([streams[l] EXCEPT !.state = "open"], published) BY <2>2, StreamOpened
  <2>4. QED BY <2>1, <2>3, StreamStep
<1>4. ASSUME NEW l \in Listeners, Unsubscribe(l) PROVE BusOK'
  <2>1. /\ UNCHANGED <<ring, published>>
        /\ streams' = [streams EXCEPT ![l] = [streams[l] EXCEPT !.state = "closed"]]
    BY <1>4 DEF Unsubscribe
  <2>2. StreamOK([streams[l] EXCEPT !.state = "closed"], published) BY StreamOpened DEF BusOK, StreamsOK
  <2>3. [streams[l] EXCEPT !.state = "closed"].state = "closed" BY DEF BusOK, StreamsOK, StreamOK
  <2>4. QED BY <2>1, <2>2, <2>3, StreamStep
<1>5. ASSUME NEW l \in Listeners, Receive(l) PROVE BusOK'
  <2>1. /\ UNCHANGED <<ring, published>> /\ streams[l].buffer # <<>>
        /\ streams' = [streams EXCEPT ![l] = [streams[l] EXCEPT !.buffer = Tail(@)]]
    BY <1>5 DEF Receive
  <2>2. StreamOK(streams[l], published) /\ published \in Nat
    BY EventsAssumption DEF BusOK, StreamsOK, RingOK
  <2>3. StreamOK([streams[l] EXCEPT !.buffer = Tail(@)], published) BY <2>1, <2>2, StreamTail
  <2>4. [streams[l] EXCEPT !.buffer = Tail(@)].state = streams[l].state BY <2>2 DEF StreamOK
  <2>5. QED BY <2>1, <2>3, <2>4, StreamStep
<1>6. ASSUME NEW l \in Listeners, EndOfStream(l) PROVE BusOK'
  <2>1. /\ UNCHANGED <<ring, published>> /\ streams' = [streams EXCEPT ![l] = NoStream]
    BY <1>6 DEF EndOfStream
  <2>2. NoStream.state # "open" BY DEF NoStream
  <2>3. QED BY <2>1, <2>2, EmptyOK, StreamStep
<1>7. QED BY <1>1, <1>2, <1>3, <1>4, <1>5, <1>6 DEF BusMoves

LEMMA BusStart == EventsInit => BusOK
<1> SUFFICES ASSUME EventsInit PROVE BusOK OBVIOUS
<1>1. RingOK BY EventsAssumption DEF EventsInit, RingOK, Consecutive
<1>2. StreamsOK BY EmptyOK DEF EventsInit, StreamsOK
<1>3. Subscribed = {} BY DEF EventsInit, Subscribed, NoStream
<1>4. QED BY <1>1, <1>2, <1>3, FS_EmptySet, EventsAssumption DEF BusOK

LEMMA EditKeeps ==
  ASSUME Edit PROVE UNCHANGED <<busVars, dispatcherVars>>
BY DEF Edit

LEMMA NextBus == [AlertsNext]_alertVars => BusMoves
<1> SUFFICES ASSUME [AlertsNext]_alertVars PROVE BusMoves OBVIOUS
<1>1. CASE PublishEvent BY <1>1 DEF PublishEvent, BusMoves
<1>2. CASE Carrier
  BY <1>2, AlertsAssumption
     DEF Carrier, Attach, AttachAgain, Carry, Detached, CarrierEnds, BusMoves
<1>3. CASE Router
  BY <1>3 DEF Router, TakeEvent, ReadRules, ReadHooks, LookupFails, QueueTask, Routed, RouterEnds,
              RouterKeeps, BusMoves
<1>4. CASE Cancel \/ CloseStream \/ Joined
  BY <1>4, AlertsAssumption DEF Cancel, CloseStream, Joined, BusMoves
<1>5. ASSUME NEW h \in Hooks, PutWebhook(h) \/ DeleteWebhook(h) PROVE BusMoves
  BY <1>5, EditKeeps DEF PutWebhook, DeleteWebhook, BusMoves
<1>6. ASSUME NEW r \in Rules, PutAlertRule(r) \/ DeleteAlertRule(r) PROVE BusMoves
  BY <1>6, EditKeeps DEF PutAlertRule, DeleteAlertRule, BusMoves
<1>7. ASSUME NEW w \in Workers, Worker(w) PROVE BusMoves
  BY <1>7 DEF Worker, TakeTask, Send, Log, WaitEnds, WorkerEnds, WorkerKeeps, BusMoves
<1>8. ASSUME NEW l \in Listeners \ {Dispatcher}, ServeStream(l) PROVE BusMoves
  BY <1>8 DEF ServeStream, BusMoves
<1>9. CASE UNCHANGED alertVars BY <1>9 DEF alertVars, BusMoves
<1>10. QED
  BY <1>1, <1>2, <1>3, <1>4, <1>5, <1>6, <1>7, <1>8, <1>9 DEF AlertsNext

-----------------------------------------------------------------------------
(* The types of the dispatcher.                                               *)

Started == {"send", "log", "wait"}
Busy    == {w \in Workers : works[w].step \in Started}
Routing == router.step \in {"rules", "hooks", "send"}

Task == [hook : Hooks, event : Nat]
Row  == [hook : Hooks, event : Nat, attempt : Nat, ok : BOOLEAN]

RouterOK ==
  router \in [step : {"idle", "rules", "hooks", "send", "done"}, event : Nat, selected : SUBSET Hooks]

WorkType ==
  [step : {"idle", "done"} \cup Started, hook : Hooks \cup {""}, event : Nat,
   attempt : 0 .. MaxAttempts, result : {"", "ok", "retry", "final"}]

(* What a worker works on, and that it waits only with attempts to spare.     *)
WorkOK(x) ==
  /\ x \in WorkType
  /\ x.step \in Started => x.hook \in Hooks
  /\ x.step = "wait" => x.attempt < MaxAttempts /\ x.result # "ok"
  /\ x.step = "log" => x.result # ""
  /\ x.step = "send" => x.result = ""

WorksOK ==
  /\ works = [w \in Workers |-> works[w]]
  /\ \A w \in Workers : WorkOK(works[w])

QueuesOK ==
  /\ pending \in Seq(Nat) /\ Len(pending) <= QueueCapacity
  /\ deliveries \in Seq(Task) /\ Len(deliveries) <= QueueCapacity

CountsOK ==
  /\ counts \in [eventDrop : Nat, taskDrop : Nat, succeeded : Nat, failed : Nat]
  /\ missed \in Nat /\ handled \in [events : Nat, tasks : Nat]
  /\ sent \in [answered : SUBSET Task, seen : SUBSET Task, again : BOOLEAN]
  /\ log \subseteq Row

ConfigOK ==
  /\ hooks \in [Hooks -> {"absent", "off", "on"}]
  /\ rules \in [Rules -> [on : BOOLEAN, hooks : SUBSET Hooks]]
  /\ RulesResolve

StepsOK ==
  /\ carrier \in {"top", "range", "wait", "done"}
  /\ stop \in {"no", "cancelled", "joined"}

Typed == ConfigOK /\ StepsOK /\ RouterOK /\ WorksOK /\ QueuesOK /\ CountsOK

LEMMA IdleOK == WorkOK(Idle)
BY AlertsAssumption DEF WorkOK, WorkType, Idle, Started

LEMMA TypedStart == AlertsInit => Typed
<1> SUFFICES ASSUME AlertsInit PROVE Typed OBVIOUS
<1> USE AlertsAssumption
<1>1. ConfigOK BY DEF AlertsInit, ConfigOK, RulesResolve, Resolves
<1>2. StepsOK BY DEF AlertsInit, StepsOK
<1>3. RouterOK BY DEF AlertsInit, RouterOK, NoRoute
<1>4. WorksOK BY IdleOK DEF AlertsInit, WorksOK
<1>5. QueuesOK BY DEF AlertsInit, QueuesOK
<1>6. CountsOK BY DEF AlertsInit, CountsOK
<1>7. QED BY <1>1, <1>2, <1>3, <1>4, <1>5, <1>6 DEF Typed

(* One worker's record changes.                                               *)
LEMMA WorkStep ==
  ASSUME WorksOK, NEW w \in Workers, NEW x, WorkOK(x), works' = [works EXCEPT ![w] = x]
  PROVE  /\ WorksOK' /\ works'[w] = x
         /\ \A v \in Workers \ {w} : works'[v] = works[v]
<1>1. works'[w] = x /\ \A v \in Workers \ {w} : works'[v] = works[v] BY DEF WorksOK
<1>2. \A v \in Workers : WorkOK(works'[v]) BY <1>1 DEF WorksOK
<1>3. works' = [v \in Workers |-> works'[v]] BY DEF WorksOK
<1>4. QED BY <1>1, <1>2, <1>3 DEF WorksOK, WorkOK, WorkType

LEMMA TaskTaken ==
  ASSUME NEW x \in WorkType, NEW h \in Hooks, NEW e \in Nat
  PROVE  [x EXCEPT !.step = "send", !.attempt = 1, !.hook = h, !.event = e] \in WorkType
<1>1. 1 \in 0 .. MaxAttempts BY AlertsAssumption
<1>2. [x EXCEPT !.step = "send"] \in WorkType BY DEF WorkType, Started
<1>3. ASSUME NEW y \in WorkType PROVE [y EXCEPT !.attempt = 1] \in WorkType
  BY <1>1 DEF WorkType
<1>4. ASSUME NEW y \in WorkType PROVE [y EXCEPT !.hook = h] \in WorkType BY DEF WorkType
<1>5. ASSUME NEW y \in WorkType PROVE [y EXCEPT !.event = e] \in WorkType BY DEF WorkType
<1>6. QED BY <1>2, <1>3, <1>4, <1>5

(* How a worker's record may change; the steps of Worker are these.           *)
Takes(w) ==
  /\ works[w].step = "idle" /\ deliveries # <<>>
  /\ \E x : /\ WorkOK(x) /\ works' = [works EXCEPT ![w] = x]
            /\ x.step = "send" /\ x.attempt = 1
            /\ x.hook = Head(deliveries).hook /\ x.event = Head(deliveries).event
  /\ deliveries' = Tail(deliveries)
  /\ UNCHANGED <<log, counts, sent>> /\ WorkerKeeps

(* The receiver answers task `it`, and the dispatcher sees the result.        *)
Answers(it, result) ==
  /\ \/ sent'.answered = sent.answered \cup {it}
     \/ sent'.answered = sent.answered /\ result # "ok"
  /\ sent'.seen = IF result = "ok" THEN sent.seen \cup {it} ELSE sent.seen
  /\ sent'.again = (sent.again \/ it \in sent.seen)
  /\ sent' = [answered |-> sent'.answered, seen |-> sent'.seen, again |-> sent'.again]

Sends(w) ==
  /\ works[w].step = "send"
  /\ \E x : /\ WorkOK(x) /\ works' = [works EXCEPT ![w] = x]
            /\ x.step = "log" /\ x.attempt = works[w].attempt
            /\ x.hook = works[w].hook /\ x.event = works[w].event
            /\ Answers([hook |-> works[w].hook, event |-> works[w].event], x.result)
  /\ UNCHANGED <<deliveries, log, counts>> /\ WorkerKeeps

Waits(w) ==
  /\ works[w].step = "wait"
  /\ \E x : /\ WorkOK(x) /\ works' = [works EXCEPT ![w] = x]
            /\ x.step = "send" /\ x.attempt = works[w].attempt + 1
            /\ x.hook = works[w].hook /\ x.event = works[w].event
  /\ UNCHANGED <<deliveries, log, counts, sent>> /\ WorkerKeeps

Logs(w) ==
  /\ works[w].step = "log"
  /\ \/ log' = log \cup {[hook |-> works[w].hook, event |-> works[w].event,
                          attempt |-> works[w].attempt, ok |-> works[w].result = "ok"]}
     \/ UNCHANGED log
  /\ UNCHANGED <<deliveries, sent>> /\ WorkerKeeps

LogsAndEnds(w) ==
  /\ Logs(w)
  /\ works' = [works EXCEPT ![w] = Idle]
  /\ \E c \in {"succeeded", "failed"} : counts' = [counts EXCEPT ![c] = @ + 1]

LogsAndWaits(w) ==
  /\ Logs(w) /\ works[w].result # "ok" /\ UNCHANGED counts
  /\ \E x : /\ WorkOK(x) /\ works' = [works EXCEPT ![w] = x]
            /\ x.step = "wait" /\ x.attempt = works[w].attempt
            /\ x.hook = works[w].hook /\ x.event = works[w].event

Abandons(w) ==
  /\ works[w].step = "wait"
  /\ works' = [works EXCEPT ![w] = Idle]
  /\ counts' = [counts EXCEPT !.failed = @ + 1]
  /\ UNCHANGED <<deliveries, log, sent>> /\ WorkerKeeps

Ends(w) ==
  /\ works[w].step = "idle"
  /\ \E x : WorkOK(x) /\ works' = [works EXCEPT ![w] = x] /\ x.step = "done"
  /\ UNCHANGED <<deliveries, log, counts, sent>> /\ WorkerKeeps

LEMMA WorkerMoves ==
  ASSUME Typed, NEW w \in Workers, Worker(w)
  PROVE  \/ Takes(w) \/ Sends(w) \/ Waits(w) \/ LogsAndEnds(w) \/ LogsAndWaits(w)
         \/ Abandons(w) \/ Ends(w)
<1> USE AlertsAssumption
<1>0. WorkOK(works[w]) BY DEF Typed, WorksOK
<1>1. CASE TakeTask(w)
  <2>1. Head(deliveries) \in Task BY <1>1 DEF TakeTask, Typed, QueuesOK
  <2> DEFINE x == [Idle EXCEPT !.step = "send", !.attempt = 1,
                     !.hook = Head(deliveries).hook, !.event = Head(deliveries).event]
  <2>2. /\ x.step = "send" /\ x.attempt = 1 /\ x.result = ""
        /\ x.hook = Head(deliveries).hook /\ x.event = Head(deliveries).event
    BY DEF Idle
  <2>3. WorkOK(x)
    <3>1. Head(deliveries).hook \in Hooks /\ Head(deliveries).event \in Nat BY <2>1 DEF Task
    <3>2. x \in WorkType BY <3>1, IdleOK, TaskTaken DEF WorkOK, WorkType
    <3> HIDE DEF x
    <3>3. QED BY <2>2, <3>1, <3>2 DEF WorkOK, WorkType
  <2>4. works' = [works EXCEPT ![w] = x] BY <1>1 DEF TakeTask
  <2> HIDE DEF x
  <2>5. QED BY <1>1, <2>2, <2>3, <2>4 DEF TakeTask, Takes
<1>2. CASE Send(w)
  <2>1. PICK result \in {"ok", "retry", "final"} :
          /\ works' = [works EXCEPT ![w] = [works[w] EXCEPT !.step = "log", !.result = result]]
          /\ Answers([hook |-> works[w].hook, event |-> works[w].event], result)
    <3> DEFINE it == [hook |-> works[w].hook, event |-> works[w].event]
    <3>1. PICK result \in {"ok", "retry", "final"}, answered \in BOOLEAN :
            /\ result = "ok" => answered
            /\ works' = [works EXCEPT ![w].step = "log", ![w].result = result]
            /\ sent' = [answered |-> IF answered THEN sent.answered \cup {it} ELSE sent.answered,
                        seen     |-> IF result = "ok" THEN sent.seen \cup {it} ELSE sent.seen,
                        again    |-> sent.again \/ it \in sent.seen]
      BY <1>2 DEF Send
    <3>2. works' = [works EXCEPT ![w] = [works[w] EXCEPT !.step = "log", !.result = result]]
      BY <3>1 DEF Typed, WorksOK
    <3> HIDE DEF it
    <3>3. Answers(it, result) BY <3>1 DEF Answers
    <3>4. QED BY <3>2, <3>3 DEF it
  <2> DEFINE x == [works[w] EXCEPT !.step = "log", !.result = result]
  <2>2. /\ x.step = "log" /\ x.result = result /\ x.attempt = works[w].attempt
        /\ x.hook = works[w].hook /\ x.event = works[w].event
    BY <1>0 DEF WorkOK, WorkType
  <2>3. WorkOK(x) BY <1>0, <1>2, <2>2 DEF WorkOK, WorkType, Send, Started
  <2> HIDE DEF x
  <2>4. works' = [works EXCEPT ![w] = x] BY <2>1 DEF x
  <2>5. QED BY <1>2, <2>1, <2>2, <2>3, <2>4 DEF Send, Sends
<1>3. CASE Log(w)
  <2>1. Logs(w) BY <1>3 DEF Log, Logs
  <2>2. CASE works[w].result = "ok"
    <3>1. After(w) = Ended(w, "succeeded") BY <2>2 DEF After
    <3>2. QED BY <1>3, <2>1, <3>1 DEF Log, Ended, LogsAndEnds
  <2>3. CASE works[w].result = "final" \/ (works[w].result = "retry" /\ works[w].attempt = MaxAttempts)
    <3>1. After(w) = Ended(w, "failed") BY <2>3 DEF After
    <3>2. QED BY <1>3, <2>1, <3>1 DEF Log, Ended, LogsAndEnds
  <2>4. CASE works[w].result = "retry" /\ works[w].attempt # MaxAttempts
    <3>1. After(w) = (works' = [works EXCEPT ![w].step = "wait"] /\ UNCHANGED counts)
      BY <2>4 DEF After
    <3> DEFINE x == [works[w] EXCEPT !.step = "wait"]
    <3>2. works' = [works EXCEPT ![w] = x] /\ UNCHANGED counts
      BY <1>3, <3>1 DEF Log, Typed, WorksOK
    <3>3. /\ x.step = "wait" /\ x.result = works[w].result /\ x.attempt = works[w].attempt
          /\ x.hook = works[w].hook /\ x.event = works[w].event
      BY <1>0 DEF WorkOK, WorkType
    <3>4. WorkOK(x)
      <4>1. /\ works[w].step = "log" /\ works[w].attempt \in 0 .. MaxAttempts
            /\ works[w].hook \in Hooks
        BY <1>0, <1>3 DEF Log, WorkOK, WorkType, Started
      <4>2. x.attempt < MaxAttempts BY <2>4, <3>3, <4>1
      <4>3. x \in WorkType
        BY <1>0 DEF WorkOK, WorkType, Started
      <4> HIDE DEF x
      <4>4. QED BY <2>4, <3>3, <4>1, <4>2, <4>3 DEF WorkOK, WorkType
    <3> HIDE DEF x
    <3>5. QED BY <2>1, <2>4, <3>2, <3>3, <3>4 DEF LogsAndWaits
  <2>5. QED BY <1>0, <1>3, <2>2, <2>3, <2>4 DEF WorkOK, WorkType, Log
<1>4. CASE WaitEnds(w)
  <2>1. CASE /\ works' = [works EXCEPT ![w].step = "send", ![w].attempt = @ + 1, ![w].result = ""]
             /\ UNCHANGED counts
    <3> DEFINE x == [works[w] EXCEPT !.step = "send", !.attempt = @ + 1, !.result = ""]
    <3>1. works' = [works EXCEPT ![w] = x] BY <2>1 DEF Typed, WorksOK
    <3>2. /\ x.step = "send" /\ x.result = "" /\ x.attempt = works[w].attempt + 1
          /\ x.hook = works[w].hook /\ x.event = works[w].event
      BY <1>0 DEF WorkOK, WorkType
    <3>3. WorkOK(x)
      <4>1. /\ works[w].attempt \in 0 .. MaxAttempts /\ works[w].attempt < MaxAttempts
            /\ works[w].hook \in Hooks
        BY <1>0, <1>4 DEF WaitEnds, WorkOK, WorkType, Started
      <4>2. x.attempt \in 0 .. MaxAttempts BY <3>2, <4>1
      <4>3. x \in WorkType
        <5>1. works[w].attempt + 1 \in 0 .. MaxAttempts BY <4>1
        <5>2. QED BY <1>0, <5>1 DEF WorkOK, WorkType, Started
      <4> HIDE DEF x
      <4>4. QED BY <3>2, <4>1, <4>3 DEF WorkOK, WorkType
    <3> HIDE DEF x
    <3>4. QED BY <1>4, <2>1, <3>1, <3>2, <3>3 DEF WaitEnds, Waits
  <2>2. CASE Cancelled /\ Ended(w, "failed")
    BY <1>4, <2>2 DEF WaitEnds, Ended, Abandons, Typed, CountsOK
  <2>3. QED BY <1>4, <2>1, <2>2 DEF WaitEnds
<1>5. CASE WorkerEnds(w)
  <2> DEFINE x == [works[w] EXCEPT !.step = "done"]
  <2>1. works' = [works EXCEPT ![w] = x] BY <1>5 DEF WorkerEnds, Typed, WorksOK
  <2>2. WorkOK(x) /\ x.step = "done" BY <1>0 DEF WorkOK, WorkType, Started
  <2> HIDE DEF x
  <2>3. QED BY <1>5, <2>1, <2>2 DEF WorkerEnds, Ends
<1>6. QED BY <1>1, <1>2, <1>3, <1>4, <1>5 DEF Worker

(* The rest of the dispatcher's steps: those that move no event and no task.  *)
Quiet ==
  /\ UNCHANGED <<published, pending, router, deliveries, works, counts, missed, handled, sent>>
  /\ log' \subseteq log
  /\ streams'[Dispatcher].buffer = streams[Dispatcher].buffer

WorkerStep(w) ==
  \/ Takes(w) \/ Sends(w) \/ Waits(w) \/ LogsAndEnds(w) \/ LogsAndWaits(w)
  \/ Abandons(w) \/ Ends(w)

DispatchMoves ==
  \/ Quiet \/ PublishEvent \/ Carry
  \/ TakeEvent \/ ReadRules \/ ReadHooks \/ LookupFails \/ QueueTask \/ Routed \/ RouterEnds
  \/ \E w \in Workers : WorkerStep(w)

LEMMA QuietBuffer ==
  ASSUME BusOK, NEW l \in Listeners,
         \/ Subscribe(l) \/ Unsubscribe(l) \/ EndOfStream(l)
         \/ l # Dispatcher /\ Receive(l)
  PROVE  published' = published /\ streams'[Dispatcher].buffer = streams[Dispatcher].buffer
<1>1. Dispatcher \in Listeners /\ StreamOK(streams[l], published)
      /\ streams = [k \in Listeners |-> streams[k]]
  BY AlertsAssumption DEF BusOK, StreamsOK
<1>2. CASE Subscribe(l) \/ Unsubscribe(l) BY <1>1, <1>2 DEF Subscribe, Unsubscribe, StreamOK
<1>3. CASE EndOfStream(l) BY <1>1, <1>3 DEF EndOfStream, NoStream
<1>4. CASE l # Dispatcher /\ Receive(l) BY <1>1, <1>4 DEF Receive
<1>5. QED BY <1>2, <1>3, <1>4

LEMMA NextDispatch == Typed /\ BusOK /\ [AlertsNext]_alertVars => DispatchMoves
<1> SUFFICES ASSUME Typed, BusOK, [AlertsNext]_alertVars PROVE DispatchMoves OBVIOUS
<1>0. Dispatcher \in Listeners BY AlertsAssumption
<1>1. CASE PublishEvent \/ Carry \/ Router BY <1>1 DEF DispatchMoves, Router
<1>2. CASE Attach
  <2>1. published' = published /\ streams'[Dispatcher].buffer = streams[Dispatcher].buffer
    BY <1>0, <1>2, QuietBuffer DEF Attach, busVars
  <2>2. QED BY <1>2, <2>1 DEF Attach, CarrierKeeps, configVars, Quiet, DispatchMoves
<1>3. CASE AttachAgain \/ CarrierEnds
  BY <1>3 DEF AttachAgain, CarrierEnds, CarrierKeeps, configVars, busVars, Quiet, DispatchMoves
<1>4. CASE Detached
  <2>1. published' = published /\ streams'[Dispatcher].buffer = streams[Dispatcher].buffer
    BY <1>0, <1>4, QuietBuffer DEF Detached
  <2>2. QED BY <1>4, <2>1 DEF Detached, CarrierKeeps, configVars, Quiet, DispatchMoves
<1>5. CASE Cancel \/ Joined
  BY <1>5 DEF Cancel, Joined, StopKeeps, configVars, busVars, Quiet, DispatchMoves
<1>6. CASE CloseStream
  <2>1. published' = published /\ streams'[Dispatcher].buffer = streams[Dispatcher].buffer
    BY <1>0, <1>6, QuietBuffer DEF CloseStream
  <2>2. QED BY <1>6, <2>1 DEF CloseStream, StopKeeps, configVars, Quiet, DispatchMoves
<1>7. ASSUME NEW h \in Hooks, PutWebhook(h) \/ DeleteWebhook(h) PROVE DispatchMoves
  <2>1. log' \subseteq log BY <1>7 DEF PutWebhook, DeleteWebhook
  <2>2. UNCHANGED <<busVars, dispatcherVars>> BY <1>7 DEF PutWebhook, DeleteWebhook, Edit
  <2>3. QED BY <2>1, <2>2 DEF busVars, dispatcherVars, Quiet, DispatchMoves
<1>8. ASSUME NEW r \in Rules, PutAlertRule(r) \/ DeleteAlertRule(r) PROVE DispatchMoves
  <2>1. log' = log BY <1>8 DEF PutAlertRule, DeleteAlertRule
  <2>2. UNCHANGED <<busVars, dispatcherVars>> BY <1>8 DEF PutAlertRule, DeleteAlertRule, Edit
  <2>3. QED BY <2>1, <2>2 DEF busVars, dispatcherVars, Quiet, DispatchMoves
<1>9. ASSUME NEW w \in Workers, Worker(w) PROVE DispatchMoves
  <2>1. WorkerStep(w) BY <1>9, WorkerMoves DEF WorkerStep
  <2>2. QED BY <2>1 DEF DispatchMoves
<1>10. ASSUME NEW l \in Listeners \ {Dispatcher}, ServeStream(l),
              UNCHANGED <<configVars, dispatcherVars>>
       PROVE  DispatchMoves
  <2>1. published' = published /\ streams'[Dispatcher].buffer = streams[Dispatcher].buffer
    BY <1>10, QuietBuffer DEF ServeStream
  <2>2. QED BY <1>10, <2>1 DEF configVars, dispatcherVars, Quiet, DispatchMoves
<1>11. CASE UNCHANGED alertVars
  BY <1>11 DEF alertVars, busVars, configVars, dispatcherVars, Quiet, DispatchMoves
<1>12. QED
  BY <1>1, <1>2, <1>3, <1>4, <1>5, <1>6, <1>7, <1>8, <1>9, <1>10, <1>11 DEF AlertsNext, Carrier

-----------------------------------------------------------------------------
(* A rule never names a webhook that is gone.                                 *)

LEMMA ConfigStep == Typed /\ [AlertsNext]_alertVars => ConfigOK'
<1> SUFFICES ASSUME Typed, [AlertsNext]_alertVars PROVE ConfigOK' OBVIOUS
<1>0. ConfigOK BY DEF Typed
<1>1. CASE UNCHANGED <<hooks, rules>>
  BY <1>0, <1>1 DEF ConfigOK, RulesResolve, Resolves
<1>2. ASSUME NEW h \in Hooks, PutWebhook(h) PROVE ConfigOK'
  <2>1. PICK state \in {"off", "on"} : hooks' = [hooks EXCEPT ![h] = state]
    BY <1>2 DEF PutWebhook
  <2>2. rules' = rules BY <1>2 DEF PutWebhook
  <2>3. hooks' \in [Hooks -> {"absent", "off", "on"}]
        /\ \A g \in Hooks : hooks[g] # "absent" => hooks'[g] # "absent"
    BY <1>0, <2>1 DEF ConfigOK
  <2>4. \A r \in Rules : rules[r].hooks \subseteq Hooks BY <1>0 DEF ConfigOK
  <2>5. QED BY <1>0, <2>2, <2>3, <2>4 DEF ConfigOK, RulesResolve, Resolves
<1>3. ASSUME NEW h \in Hooks, DeleteWebhook(h) PROVE ConfigOK'
  <2>1. /\ hooks' = [hooks EXCEPT ![h] = "absent"] /\ rules' = rules
        /\ \A r \in Rules : h \notin rules[r].hooks
    BY <1>3 DEF DeleteWebhook
  <2>2. hooks' \in [Hooks -> {"absent", "off", "on"}]
        /\ \A g \in Hooks \ {h} : hooks'[g] = hooks[g]
    BY <1>0, <2>1 DEF ConfigOK
  <2>3. \A r \in Rules : rules[r].hooks \subseteq Hooks BY <1>0 DEF ConfigOK
  <2>4. QED BY <1>0, <2>1, <2>2, <2>3 DEF ConfigOK, RulesResolve, Resolves
<1>4. ASSUME NEW r \in Rules, NEW on \in BOOLEAN, NEW S \in SUBSET Hooks, Resolves(S),
             rules' = [rules EXCEPT ![r] = [on |-> on, hooks |-> S]], hooks' = hooks
      PROVE  ConfigOK'
  <2>1. /\ rules' \in [Rules -> [on : BOOLEAN, hooks : SUBSET Hooks]]
        /\ rules'[r].hooks = S /\ \A x \in Rules \ {r} : rules'[x] = rules[x]
    BY <1>0, <1>4 DEF ConfigOK
  <2>2. QED BY <1>0, <1>4, <2>1 DEF ConfigOK, RulesResolve, Resolves
<1>5. ASSUME NEW r \in Rules, PutAlertRule(r) PROVE ConfigOK'
  BY <1>4, <1>5 DEF PutAlertRule
<1>6. ASSUME NEW r \in Rules, DeleteAlertRule(r) PROVE ConfigOK'
  <2>1. Resolves({}) BY DEF Resolves
  <2>2. QED BY <1>4, <1>6, <2>1 DEF DeleteAlertRule
<1>7. CASE PublishEvent BY <1>1, <1>7 DEF PublishEvent, configVars
<1>8. CASE Carrier
  BY <1>1, <1>8 DEF Carrier, Attach, AttachAgain, Carry, Detached, CarrierEnds, CarrierKeeps, configVars
<1>9. CASE Router
  BY <1>1, <1>9 DEF Router, TakeEvent, ReadRules, ReadHooks, LookupFails, QueueTask, Routed,
                    RouterEnds, RouterKeeps, configVars
<1>10. CASE Cancel \/ CloseStream \/ Joined
  BY <1>1, <1>10 DEF Cancel, CloseStream, Joined, StopKeeps, configVars
<1>11. ASSUME NEW w \in Workers, Worker(w) PROVE ConfigOK'
  BY <1>1, <1>11 DEF Worker, TakeTask, Send, Log, WaitEnds, WorkerEnds, WorkerKeeps
<1>12. CASE UNCHANGED configVars BY <1>1, <1>12 DEF configVars
<1>13. QED
  BY <1>2, <1>3, <1>5, <1>6, <1>7, <1>8, <1>9, <1>10, <1>11, <1>12 DEF AlertsNext, alertVars

LEMMA StepsStep == StepsOK /\ [AlertsNext]_alertVars => StepsOK'
<1> SUFFICES ASSUME StepsOK, [AlertsNext]_alertVars PROVE StepsOK' OBVIOUS
<1>1. CASE PublishEvent BY <1>1 DEF PublishEvent, StepsOK
<1>2. CASE Carrier
  BY <1>2 DEF Carrier, Attach, AttachAgain, Carry, Detached, CarrierEnds, CarrierKeeps, StepsOK
<1>3. CASE Router
  BY <1>3 DEF Router, TakeEvent, ReadRules, ReadHooks, LookupFails, QueueTask, Routed,
              RouterEnds, RouterKeeps, StepsOK
<1>4. CASE Cancel \/ CloseStream \/ Joined
  BY <1>4 DEF Cancel, CloseStream, Joined, StopKeeps, StepsOK
<1>5. ASSUME NEW w \in Workers, Worker(w) PROVE StepsOK'
  BY <1>5 DEF Worker, TakeTask, Send, Log, WaitEnds, WorkerEnds, WorkerKeeps, StepsOK
<1>6. CASE UNCHANGED dispatcherVars BY <1>6 DEF dispatcherVars, StepsOK
<1>7. ASSUME NEW h \in Hooks, PutWebhook(h) \/ DeleteWebhook(h) PROVE StepsOK'
  BY <1>6, <1>7 DEF PutWebhook, DeleteWebhook, Edit
<1>8. ASSUME NEW r \in Rules, PutAlertRule(r) \/ DeleteAlertRule(r) PROVE StepsOK'
  BY <1>6, <1>8 DEF PutAlertRule, DeleteAlertRule, Edit
<1>9. QED BY <1>1, <1>2, <1>3, <1>4, <1>5, <1>6, <1>7, <1>8 DEF AlertsNext, alertVars

-----------------------------------------------------------------------------
(* Events and tasks, place by place.                                          *)

InStream == streams[Dispatcher].buffer
InRouter == IF Routing THEN 1 ELSE 0

EventsHere ==
  published = missed + Len(InStream) + Len(pending) + InRouter + handled.events + counts.eventDrop

TasksHere ==
  handled.tasks = Len(deliveries) + Cardinality(Busy) + counts.succeeded + counts.failed

LEMMA HereConserved == EventsHere /\ TasksHere <=> EventsConserved
BY DEF EventsHere, TasksHere, EventsConserved, InStream, InRouter, Routing, Busy, Started

LEMMA StreamTyped ==
  ASSUME BusOK
  PROVE  InStream \in Seq(Nat) /\ Len(InStream) \in Nat /\ published \in Nat
<1>1. StreamOK(streams[Dispatcher], published) /\ published \in 0 .. MaxPublished
  BY AlertsAssumption DEF BusOK, StreamsOK, RingOK
<1>2. QED BY <1>1, EventsAssumption DEF StreamOK, InStream

LEMMA PublishFacts ==
  ASSUME BusOK, PublishEvent
  PROVE  /\ published' = published + 1
         /\ \/ InStream' = Append(InStream, published + 1) /\ missed' = missed
            \/ InStream' = InStream /\ missed' = missed + 1
<1> DEFINE x == streams[Dispatcher]
<1>1. /\ published' = published + 1 /\ streams'[Dispatcher] = Offered(x, published + 1)
      /\ missed' = IF streams'[Dispatcher].state = "open" THEN missed ELSE missed + 1
  BY AlertsAssumption DEF PublishEvent, Publish
<1>2. x \in [state : {"none", "open", "closed"}, buffer : Seq(Nat)]
  BY AlertsAssumption DEF BusOK, StreamsOK, StreamOK
<1>3. CASE x.state # "open"
  <2>1. Offered(x, published + 1) = x BY <1>3 DEF Offered
  <2>2. QED BY <1>1, <1>3, <2>1 DEF InStream
<1>4. CASE x.state = "open" /\ Len(x.buffer) < StreamCapacity
  <2>1. Offered(x, published + 1) = [x EXCEPT !.buffer = Append(@, published + 1)]
    BY <1>4 DEF Offered
  <2>2. /\ [x EXCEPT !.buffer = Append(@, published + 1)].state = "open"
        /\ [x EXCEPT !.buffer = Append(@, published + 1)].buffer = Append(x.buffer, published + 1)
    BY <1>2, <1>4
  <2>3. QED BY <1>1, <2>1, <2>2 DEF InStream
<1>5. CASE x.state = "open" /\ ~(Len(x.buffer) < StreamCapacity)
  <2>1. Offered(x, published + 1) = [x EXCEPT !.state = "closed"] BY <1>5 DEF Offered
  <2>2. /\ [x EXCEPT !.state = "closed"].state = "closed"
        /\ [x EXCEPT !.state = "closed"].buffer = x.buffer
    BY <1>2
  <2>3. QED BY <1>1, <2>1, <2>2 DEF InStream
<1>6. QED BY <1>3, <1>4, <1>5

LEMMA CarryFacts ==
  ASSUME BusOK, Typed, Carry
  PROVE  /\ published' = published /\ InStream # <<>> /\ InStream' = Tail(InStream)
         /\ \/ pending' = Append(pending, Head(InStream)) /\ counts' = counts
               /\ Len(pending) < QueueCapacity
            \/ /\ pending' = pending
               /\ counts' = [counts EXCEPT !.eventDrop = @ + 1]
<1>1. streams[Dispatcher] \in [state : {"none", "open", "closed"}, buffer : Seq(Nat)]
      /\ Dispatcher \in Listeners /\ streams = [l \in Listeners |-> streams[l]]
  BY AlertsAssumption DEF BusOK, StreamsOK, StreamOK
<1>2. /\ streams[Dispatcher].buffer # <<>> /\ published' = published
      /\ streams' = [streams EXCEPT ![Dispatcher] =
                       [streams[Dispatcher] EXCEPT !.buffer = Tail(@)]]
  BY DEF Carry, Receive
<1>3. InStream' = Tail(InStream) BY <1>1, <1>2 DEF InStream
<1>4. QED BY <1>2, <1>3 DEF Carry, InStream

LEMMA RouterStep ==
  ASSUME Typed, BusOK, DispatchMoves PROVE RouterOK'
<1>0. RouterOK /\ ConfigOK /\ pending \in Seq(Nat) BY DEF Typed, QueuesOK
<1>1. CASE UNCHANGED router BY <1>0, <1>1 DEF RouterOK
<1>2. CASE TakeEvent
  <2>1. Head(pending) \in Nat BY <1>0, <1>2, TailFacts DEF TakeEvent
  <2>2. QED BY <1>2, <2>1 DEF TakeEvent, RouterOK
<1>3. CASE ReadRules
  <2>1. UNION {rules[r].hooks : r \in {x \in Rules : rules[x].on}} \subseteq Hooks
    BY <1>0 DEF ConfigOK
  <2>2. QED BY <1>0, <1>3, <2>1 DEF ReadRules, RouterOK
<1>4. CASE ReadHooks BY <1>0, <1>4 DEF ReadHooks, RouterOK
<1>5. CASE LookupFails \/ Routed BY <1>5 DEF LookupFails, Routed, NoRoute, RouterOK
<1>6. CASE QueueTask BY <1>0, <1>6 DEF QueueTask, RouterOK
<1>7. CASE RouterEnds BY <1>0, <1>7 DEF RouterEnds, RouterOK
<1>8. CASE Quiet \/ PublishEvent \/ Carry
  BY <1>1, <1>8 DEF Quiet, PublishEvent, Carry, CarrierKeeps
<1>9. ASSUME NEW w \in Workers, WorkerStep(w) PROVE RouterOK'
  BY <1>1, <1>9
     DEF WorkerStep, Takes, Sends, Waits, LogsAndEnds, LogsAndWaits, Logs, Abandons, Ends, WorkerKeeps
<1>10. QED
  BY <1>2, <1>3, <1>4, <1>5, <1>6, <1>7, <1>8, <1>9 DEF DispatchMoves

LEMMA WorksStep ==
  ASSUME Typed, DispatchMoves PROVE WorksOK'
<1>0. WorksOK BY DEF Typed
<1>1. CASE UNCHANGED works BY <1>0, <1>1 DEF WorksOK
<1>2. CASE Quiet \/ PublishEvent \/ Carry
  BY <1>1, <1>2 DEF Quiet, PublishEvent, Carry, CarrierKeeps
<1>3. CASE TakeEvent \/ ReadRules \/ ReadHooks \/ LookupFails \/ QueueTask \/ Routed \/ RouterEnds
  BY <1>1, <1>3 DEF TakeEvent, ReadRules, ReadHooks, LookupFails, QueueTask, Routed, RouterEnds,
                    RouterKeeps
<1>4. ASSUME NEW w \in Workers, WorkerStep(w) PROVE WorksOK'
  <2>1. PICK x : WorkOK(x) /\ works' = [works EXCEPT ![w] = x]
    BY <1>4, IdleOK
       DEF WorkerStep, Takes, Sends, Waits, LogsAndEnds, LogsAndWaits, Abandons, Ends
  <2>2. QED BY <1>0, <2>1, WorkStep
<1>5. QED BY <1>2, <1>3, <1>4 DEF DispatchMoves

LEMMA QueuesStep ==
  ASSUME Typed, BusOK, DispatchMoves PROVE QueuesOK'
<1>0. /\ pending \in Seq(Nat) /\ Len(pending) <= QueueCapacity /\ Len(pending) \in Nat
      /\ deliveries \in Seq(Task) /\ Len(deliveries) <= QueueCapacity /\ Len(deliveries) \in Nat
      /\ QueueCapacity \in Nat
  BY AlertsAssumption DEF Typed, QueuesOK
<1>1. CASE UNCHANGED <<pending, deliveries>> BY <1>0, <1>1 DEF QueuesOK
<1>2. CASE Carry
  <2>1. Head(InStream) \in Nat BY <1>2, StreamTyped, CarryFacts, TailFacts
  <2>2. CASE pending' = Append(pending, Head(InStream)) /\ Len(pending) < QueueCapacity
    <3>1. Append(pending, Head(InStream)) \in Seq(Nat)
          /\ Len(Append(pending, Head(InStream))) = Len(pending) + 1
      BY <1>0, <2>1, AppendFacts
    <3>2. deliveries' = deliveries BY <1>2 DEF Carry, CarrierKeeps
    <3>3. QED BY <1>0, <2>2, <3>1, <3>2 DEF QueuesOK
  <2>3. CASE pending' = pending
    <3>1. deliveries' = deliveries BY <1>2 DEF Carry, CarrierKeeps
    <3>2. QED BY <1>1, <2>3, <3>1
  <2>4. QED BY <1>2, <2>2, <2>3, CarryFacts
<1>3. CASE TakeEvent
  <2>1. /\ Tail(pending) \in Seq(Nat) /\ Len(Tail(pending)) = Len(pending) - 1
        /\ pending' = Tail(pending) /\ deliveries' = deliveries
    BY <1>0, <1>3, TailFacts DEF TakeEvent
  <2>2. QED BY <1>0, <2>1 DEF QueuesOK
<1>4. CASE QueueTask
  <2>1. pending' = pending BY <1>4 DEF QueueTask
  <2>2. PICK h \in router.selected :
          \/ /\ Len(deliveries) < QueueCapacity
             /\ deliveries' = Append(deliveries, [hook |-> h, event |-> router.event])
          \/ deliveries' = deliveries
    BY <1>4 DEF QueueTask
  <2>3. CASE deliveries' = deliveries BY <1>1, <2>1, <2>3
  <2>4. CASE /\ Len(deliveries) < QueueCapacity
             /\ deliveries' = Append(deliveries, [hook |-> h, event |-> router.event])
    <3>1. [hook |-> h, event |-> router.event] \in Task BY DEF Typed, RouterOK, Task
    <3>2. deliveries' \in Seq(Task) /\ Len(deliveries') = Len(deliveries) + 1
      BY <1>0, <2>4, <3>1, AppendFacts
    <3>3. QED BY <1>0, <2>1, <2>4, <3>2 DEF QueuesOK
  <2>5. QED BY <2>2, <2>3, <2>4
<1>5. CASE ReadRules \/ ReadHooks \/ LookupFails \/ Routed \/ RouterEnds
  BY <1>1, <1>5 DEF ReadRules, ReadHooks, LookupFails, Routed, RouterEnds
<1>6. CASE Quiet \/ PublishEvent BY <1>1, <1>6 DEF Quiet, PublishEvent
<1>7. ASSUME NEW w \in Workers, WorkerStep(w) PROVE QueuesOK'
  <2>1. pending' = pending
    BY <1>7 DEF WorkerStep, Takes, Sends, Waits, LogsAndEnds, LogsAndWaits, Logs, Abandons, Ends,
                WorkerKeeps
  <2>2. CASE Takes(w)
    <3>1. /\ Tail(deliveries) \in Seq(Task) /\ Len(Tail(deliveries)) = Len(deliveries) - 1
          /\ deliveries' = Tail(deliveries)
      BY <1>0, <2>2, TailFacts DEF Takes
    <3>2. QED BY <1>0, <2>1, <3>1 DEF QueuesOK
  <2>3. CASE deliveries' = deliveries BY <1>1, <2>1, <2>3
  <2>4. QED
    BY <1>7, <2>2, <2>3 DEF WorkerStep, Sends, Waits, LogsAndEnds, LogsAndWaits, Logs, Abandons, Ends
<1>8. QED BY <1>2, <1>3, <1>4, <1>5, <1>6, <1>7 DEF DispatchMoves

LEMMA CountsStep ==
  ASSUME Typed, BusOK, DispatchMoves PROVE CountsOK'
<1>0. /\ counts \in [eventDrop : Nat, taskDrop : Nat, succeeded : Nat, failed : Nat]
      /\ missed \in Nat /\ handled \in [events : Nat, tasks : Nat]
      /\ sent \in [answered : SUBSET Task, seen : SUBSET Task, again : BOOLEAN] /\ log \subseteq Row
  BY DEF Typed, CountsOK
<1>1. CASE UNCHANGED <<counts, missed, handled, sent>> /\ log' \subseteq log
  BY <1>0, <1>1 DEF CountsOK
<1>2. CASE PublishEvent
  <2>1. missed' \in Nat BY <1>0, <1>2, PublishFacts
  <2>2. UNCHANGED <<counts, handled, sent, log>> BY <1>2 DEF PublishEvent, configVars
  <2>3. QED BY <1>0, <2>1, <2>2 DEF CountsOK
<1>3. CASE Carry
  <2>1. counts' \in [eventDrop : Nat, taskDrop : Nat, succeeded : Nat, failed : Nat]
    BY <1>0, <1>3, CarryFacts
  <2>2. UNCHANGED <<missed, handled, sent, log>> BY <1>3 DEF Carry, CarrierKeeps, configVars
  <2>3. QED BY <1>0, <2>1, <2>2 DEF CountsOK
<1>4. CASE TakeEvent \/ ReadRules \/ ReadHooks \/ RouterEnds
  BY <1>1, <1>4 DEF TakeEvent, ReadRules, ReadHooks, RouterEnds, RouterKeeps, configVars
<1>5. CASE LookupFails
  <2>1. UNCHANGED <<missed, handled, sent, log>> BY <1>5 DEF LookupFails, RouterKeeps, configVars
  <2>2. counts' \in [eventDrop : Nat, taskDrop : Nat, succeeded : Nat, failed : Nat]
    BY <1>0, <1>5 DEF LookupFails
  <2>3. QED BY <1>0, <2>1, <2>2 DEF CountsOK
<1>6. CASE QueueTask
  <2>1. UNCHANGED <<missed, sent, log>> BY <1>6 DEF QueueTask, RouterKeeps, configVars
  <2>2. counts' \in [eventDrop : Nat, taskDrop : Nat, succeeded : Nat, failed : Nat]
        /\ handled' \in [events : Nat, tasks : Nat]
    BY <1>0, <1>6 DEF QueueTask
  <2>3. QED BY <1>0, <2>1, <2>2 DEF CountsOK
<1>7. CASE Routed
  <2>1. UNCHANGED <<missed, sent, log, counts>> BY <1>7 DEF Routed, RouterKeeps, configVars
  <2>2. handled' \in [events : Nat, tasks : Nat] BY <1>0, <1>7 DEF Routed
  <2>3. QED BY <1>0, <2>1, <2>2 DEF CountsOK
<1>8. CASE Quiet BY <1>1, <1>8 DEF Quiet
<1>9. ASSUME NEW w \in Workers, WorkerStep(w) PROVE CountsOK'
  <2>0. UNCHANGED <<missed, handled>> /\ WorkOK(works[w])
    BY <1>9 DEF WorkerStep, Takes, Sends, Waits, LogsAndEnds, LogsAndWaits, Logs, Abandons, Ends,
                WorkerKeeps, Typed, WorksOK
  <2>1. CASE Takes(w) \/ Waits(w) \/ Ends(w)
    BY <1>1, <2>0, <2>1 DEF Takes, Waits, Ends
  <2>2. CASE Sends(w)
    <3>1. [hook |-> works[w].hook, event |-> works[w].event] \in Task
      BY <2>0, <2>2 DEF Sends, WorkOK, WorkType, Task, Started
    <3>2. sent' \in [answered : SUBSET Task, seen : SUBSET Task, again : BOOLEAN]
      BY <1>0, <2>2, <3>1 DEF Sends, Answers
    <3>3. UNCHANGED <<counts, log>> BY <2>2 DEF Sends
    <3>4. QED BY <1>0, <2>0, <3>2, <3>3 DEF CountsOK
  <2>3. ASSUME Logs(w) PROVE log' \subseteq Row /\ sent' = sent
    <3>1. [hook |-> works[w].hook, event |-> works[w].event,
           attempt |-> works[w].attempt, ok |-> works[w].result = "ok"] \in Row
      <4>1. /\ works[w].hook \in Hooks /\ works[w].event \in Nat
            /\ works[w].attempt \in 0 .. MaxAttempts
        BY <2>0, <2>3 DEF Logs, WorkOK, WorkType, Started
      <4>2. works[w].attempt \in Nat BY <4>1, AlertsAssumption
      <4>3. (works[w].result = "ok") \in BOOLEAN OBVIOUS
      <4>4. QED BY <4>1, <4>2, <4>3 DEF Row
    <3>2. QED BY <1>0, <2>3, <3>1 DEF Logs
  <2>4. CASE LogsAndEnds(w)
    <3>1. counts' \in [eventDrop : Nat, taskDrop : Nat, succeeded : Nat, failed : Nat]
      BY <1>0, <2>4 DEF LogsAndEnds
    <3>2. QED BY <1>0, <2>0, <2>3, <2>4, <3>1 DEF LogsAndEnds, CountsOK
  <2>5. CASE LogsAndWaits(w)
    BY <1>0, <2>0, <2>3, <2>5 DEF LogsAndWaits, CountsOK
  <2>6. CASE Abandons(w)
    <3>1. counts' \in [eventDrop : Nat, taskDrop : Nat, succeeded : Nat, failed : Nat]
      BY <1>0, <2>6 DEF Abandons
    <3>2. UNCHANGED <<sent, log>> BY <2>6 DEF Abandons
    <3>3. QED BY <1>0, <2>0, <3>1, <3>2 DEF CountsOK
  <2>7. QED BY <1>9, <2>1, <2>2, <2>4, <2>5, <2>6 DEF WorkerStep
<1>10. QED BY <1>2, <1>3, <1>4, <1>5, <1>6, <1>7, <1>8, <1>9 DEF DispatchMoves

LEMMA TypedStep == Typed /\ BusOK /\ [AlertsNext]_alertVars => Typed'
<1> SUFFICES ASSUME Typed, BusOK, [AlertsNext]_alertVars PROVE Typed' OBVIOUS
<1>1. DispatchMoves BY NextDispatch
<1>2. ConfigOK' BY ConfigStep
<1>3. StepsOK' BY StepsStep DEF Typed
<1>4. RouterOK' /\ WorksOK' /\ QueuesOK' /\ CountsOK'
  BY <1>1, RouterStep, WorksStep, QueuesStep, CountsStep
<1>5. QED BY <1>2, <1>3, <1>4 DEF Typed

-----------------------------------------------------------------------------
(* No event and no task is uncounted.                                         *)

LEMMA BusyFinite == IsFiniteSet(Busy) /\ Cardinality(Busy) \in Nat
BY AlertsAssumption, FS_Subset, FS_CardinalityType DEF Busy

(* How the set of busy workers follows one worker's record.                   *)
LEMMA BusyStep ==
  ASSUME WorksOK, NEW w \in Workers, NEW x, WorkOK(x), works' = [works EXCEPT ![w] = x]
  PROVE  /\ (x.step \in Started <=> works[w].step \in Started) =>
              Cardinality(Busy') = Cardinality(Busy)
         /\ x.step \in Started /\ works[w].step \notin Started =>
              Cardinality(Busy') = Cardinality(Busy) + 1
         /\ x.step \notin Started /\ works[w].step \in Started =>
              Cardinality(Busy') = Cardinality(Busy) - 1
<1>1. works'[w] = x /\ \A v \in Workers \ {w} : works'[v] = works[v] BY WorkStep
<1>2. IsFiniteSet(Busy) BY BusyFinite
<1>3. ASSUME x.step \in Started <=> works[w].step \in Started
      PROVE  Cardinality(Busy') = Cardinality(Busy)
  <2>1. Busy' = Busy BY <1>1, <1>3 DEF Busy
  <2>2. QED BY <2>1
<1>4. ASSUME x.step \in Started, works[w].step \notin Started
      PROVE  Cardinality(Busy') = Cardinality(Busy) + 1
  <2>1. Busy' = Busy \cup {w} /\ w \notin Busy BY <1>1, <1>4 DEF Busy
  <2>2. QED BY <1>2, <2>1, FS_AddElement
<1>5. ASSUME x.step \notin Started, works[w].step \in Started
      PROVE  Cardinality(Busy') = Cardinality(Busy) - 1
  <2>1. Busy' = Busy \ {w} /\ w \in Busy BY <1>1, <1>5 DEF Busy
  <2>2. QED BY <1>2, <2>1, FS_RemoveElement
<1>6. QED BY <1>3, <1>4, <1>5

LEMMA EventsStep ==
  ASSUME Typed, BusOK, EventsHere, DispatchMoves PROVE EventsHere'
<1>0. /\ published \in Nat /\ InStream \in Seq(Nat) /\ Len(InStream) \in Nat
      /\ pending \in Seq(Nat) /\ Len(pending) \in Nat
      /\ missed \in Nat /\ handled \in [events : Nat, tasks : Nat]
      /\ counts \in [eventDrop : Nat, taskDrop : Nat, succeeded : Nat, failed : Nat]
      /\ handled.events \in Nat /\ counts.eventDrop \in Nat /\ InRouter \in Nat
      /\ router \in [step : {"idle", "rules", "hooks", "send", "done"}, event : Nat,
                     selected : SUBSET Hooks]
  BY StreamTyped DEF Typed, QueuesOK, CountsOK, RouterOK, InRouter
<1>1. CASE UNCHANGED <<published, missed, InStream, pending, InRouter>>
           /\ handled'.events = handled.events /\ counts'.eventDrop = counts.eventDrop
  BY <1>1 DEF EventsHere
<1>2. CASE Quiet BY <1>1, <1>2 DEF Quiet, InStream, InRouter, Routing
<1>3. CASE PublishEvent
  <2>1. UNCHANGED <<pending, router, handled, counts>> BY <1>3 DEF PublishEvent
  <2>2. CASE InStream' = Append(InStream, published + 1) /\ missed' = missed
    <3>1. Len(InStream') = Len(InStream) + 1 /\ published' = published + 1
      BY <1>0, <1>3, <2>2, AppendFacts, PublishFacts
    <3>2. QED BY <1>0, <2>1, <2>2, <3>1 DEF EventsHere, InRouter, Routing
  <2>3. CASE InStream' = InStream /\ missed' = missed + 1
    <3>1. published' = published + 1 BY <1>3, PublishFacts
    <3>2. QED BY <1>0, <2>1, <2>3, <3>1 DEF EventsHere, InRouter, Routing
  <2>4. QED BY <1>3, <2>2, <2>3, PublishFacts
<1>4. CASE Carry
  <2>1. /\ published' = published /\ Len(InStream') = Len(InStream) - 1
        /\ Head(InStream) \in Nat
    BY <1>0, <1>4, CarryFacts, TailFacts
  <2>2. UNCHANGED <<missed, router, handled>> BY <1>4 DEF Carry, CarrierKeeps
  <2>3. CASE pending' = Append(pending, Head(InStream)) /\ counts' = counts
    <3>1. Len(pending') = Len(pending) + 1 BY <1>0, <2>1, <2>3, AppendFacts
    <3>2. QED BY <1>0, <2>1, <2>2, <2>3, <3>1 DEF EventsHere, InRouter, Routing
  <2>4. CASE pending' = pending /\ counts' = [counts EXCEPT !.eventDrop = @ + 1]
    <3>1. counts'.eventDrop = counts.eventDrop + 1 BY <1>0, <2>4
    <3>2. pending' = pending /\ InRouter' = InRouter /\ handled' = handled /\ missed' = missed
      BY <2>2, <2>4 DEF InRouter, Routing
    <3>3. QED BY <1>0, <2>1, <3>1, <3>2 DEF EventsHere
  <2>5. QED BY <1>4, <2>3, <2>4, CarryFacts
<1>5. ASSUME RouterKeeps PROVE UNCHANGED <<published, missed, InStream>>
  BY <1>5 DEF RouterKeeps, busVars, InStream
<1>6. CASE TakeEvent
  <2>1. Len(pending') = Len(pending) - 1 BY <1>0, <1>6, TailFacts DEF TakeEvent
  <2>2. InRouter = 0 /\ InRouter' = 1 BY <1>6 DEF TakeEvent, InRouter, Routing
  <2>3. UNCHANGED <<published, missed, InStream, handled, counts>> BY <1>5, <1>6 DEF TakeEvent
  <2>4. QED BY <1>0, <2>1, <2>2, <2>3 DEF EventsHere
<1>7. CASE ReadRules \/ ReadHooks \/ RouterEnds
  <2>1. InRouter' = InRouter
    BY <1>0, <1>7 DEF ReadRules, ReadHooks, RouterEnds, InRouter, Routing
  <2>2. UNCHANGED <<published, missed, InStream, pending, handled, counts>>
    BY <1>5, <1>7 DEF ReadRules, ReadHooks, RouterEnds
  <2>3. QED BY <1>1, <2>1, <2>2
<1>8. CASE LookupFails
  <2>1. InRouter = 1 /\ InRouter' = 0 BY <1>8 DEF LookupFails, NoRoute, InRouter, Routing
  <2>2. counts'.eventDrop = counts.eventDrop + 1 BY <1>0, <1>8 DEF LookupFails
  <2>3. UNCHANGED <<published, missed, InStream, pending, handled>> BY <1>5, <1>8 DEF LookupFails
  <2>4. QED BY <1>0, <2>1, <2>2, <2>3 DEF EventsHere
<1>9. CASE QueueTask
  <2>1. InRouter' = InRouter BY <1>0, <1>9 DEF QueueTask, InRouter, Routing
  <2>2. handled'.events = handled.events /\ counts'.eventDrop = counts.eventDrop
    BY <1>0, <1>9 DEF QueueTask
  <2>3. UNCHANGED <<published, missed, InStream, pending>> BY <1>5, <1>9 DEF QueueTask
  <2>4. QED BY <1>1, <2>1, <2>2, <2>3
<1>10. CASE Routed
  <2>1. InRouter = 1 /\ InRouter' = 0 BY <1>10 DEF Routed, NoRoute, InRouter, Routing
  <2>2. handled'.events = handled.events + 1 BY <1>0, <1>10 DEF Routed
  <2>3. UNCHANGED <<published, missed, InStream, pending, counts>> BY <1>5, <1>10 DEF Routed
  <2>4. QED BY <1>0, <2>1, <2>2, <2>3 DEF EventsHere
<1>11. ASSUME NEW w \in Workers, WorkerStep(w) PROVE EventsHere'
  <2>1. UNCHANGED <<published, missed, InStream, pending, router, handled>>
    BY <1>11
       DEF WorkerStep, Takes, Sends, Waits, LogsAndEnds, LogsAndWaits, Logs, Abandons, Ends,
           WorkerKeeps, busVars, InStream
  <2>2. counts'.eventDrop = counts.eventDrop
    BY <1>0, <1>11
       DEF WorkerStep, Takes, Sends, Waits, LogsAndEnds, LogsAndWaits, Abandons, Ends
  <2>3. QED BY <1>1, <2>1, <2>2 DEF InRouter, Routing
<1>12. QED
  BY <1>2, <1>3, <1>4, <1>6, <1>7, <1>8, <1>9, <1>10, <1>11 DEF DispatchMoves

LEMMA TasksStep ==
  ASSUME Typed, TasksHere, DispatchMoves PROVE TasksHere'
<1>0. /\ deliveries \in Seq(Task) /\ Len(deliveries) \in Nat
      /\ handled \in [events : Nat, tasks : Nat] /\ handled.tasks \in Nat
      /\ counts \in [eventDrop : Nat, taskDrop : Nat, succeeded : Nat, failed : Nat]
      /\ counts.succeeded \in Nat /\ counts.failed \in Nat
      /\ Cardinality(Busy) \in Nat /\ WorksOK
  BY BusyFinite DEF Typed, QueuesOK, CountsOK
<1>1. CASE /\ deliveries' = deliveries /\ works' = works /\ handled'.tasks = handled.tasks
           /\ counts'.succeeded = counts.succeeded /\ counts'.failed = counts.failed
  BY <1>1 DEF TasksHere, Busy
<1>2. CASE Quiet \/ PublishEvent BY <1>1, <1>2 DEF Quiet, PublishEvent
<1>3. CASE Carry
  <2>1. UNCHANGED <<deliveries, works, handled>> BY <1>3 DEF Carry, CarrierKeeps
  <2>2. counts'.succeeded = counts.succeeded /\ counts'.failed = counts.failed
    BY <1>0, <1>3 DEF Carry
  <2>3. QED BY <1>1, <2>1, <2>2
<1>4. CASE TakeEvent \/ ReadRules \/ ReadHooks \/ RouterEnds
  BY <1>1, <1>4 DEF TakeEvent, ReadRules, ReadHooks, RouterEnds, RouterKeeps
<1>5. CASE LookupFails
  <2>1. UNCHANGED <<deliveries, works, handled>> BY <1>5 DEF LookupFails, RouterKeeps
  <2>2. counts'.succeeded = counts.succeeded /\ counts'.failed = counts.failed
    BY <1>0, <1>5 DEF LookupFails
  <2>3. QED BY <1>1, <2>1, <2>2
<1>6. CASE Routed
  <2>1. UNCHANGED <<deliveries, works, counts>> BY <1>6 DEF Routed, RouterKeeps
  <2>2. handled'.tasks = handled.tasks BY <1>0, <1>6 DEF Routed
  <2>3. QED BY <1>1, <2>1, <2>2
<1>7. CASE QueueTask
  <2>1. works' = works BY <1>7 DEF QueueTask, RouterKeeps
  <2>2. PICK h \in router.selected :
          IF Len(deliveries) < QueueCapacity
          THEN /\ deliveries' = Append(deliveries, [hook |-> h, event |-> router.event])
               /\ handled' = [handled EXCEPT !.tasks = @ + 1] /\ UNCHANGED counts
          ELSE counts' = [counts EXCEPT !.taskDrop = @ + 1] /\ UNCHANGED <<deliveries, handled>>
    BY <1>7 DEF QueueTask
  <2>3. CASE Len(deliveries) < QueueCapacity
    <3>1. [hook |-> h, event |-> router.event] \in Task BY DEF Typed, RouterOK, Task
    <3>2. Len(deliveries') = Len(deliveries) + 1 BY <1>0, <2>2, <2>3, <3>1, AppendFacts
    <3>3. handled'.tasks = handled.tasks + 1 /\ counts' = counts BY <1>0, <2>2, <2>3
    <3>4. QED BY <1>0, <2>1, <3>2, <3>3 DEF TasksHere, Busy
  <2>4. CASE ~(Len(deliveries) < QueueCapacity)
    <3>1. counts'.succeeded = counts.succeeded /\ counts'.failed = counts.failed
      BY <1>0, <2>2, <2>4
    <3>2. QED BY <1>1, <2>1, <2>2, <2>4, <3>1
  <2>5. QED BY <2>3, <2>4
<1>8. ASSUME NEW w \in Workers, WorkerStep(w) PROVE TasksHere'
  <2>1. handled' = handled
    BY <1>8 DEF WorkerStep, Takes, Sends, Waits, LogsAndEnds, LogsAndWaits, Logs, Abandons, Ends,
                WorkerKeeps
  <2>2. CASE Takes(w)
    <3>1. Len(deliveries') = Len(deliveries) - 1 BY <1>0, <2>2, TailFacts DEF Takes
    <3>2. Cardinality(Busy') = Cardinality(Busy) + 1
      <4>1. PICK x : WorkOK(x) /\ works' = [works EXCEPT ![w] = x] /\ x.step = "send"
        BY <2>2 DEF Takes
      <4>2. x.step \in Started /\ works[w].step \notin Started BY <2>2, <4>1 DEF Takes, Started
      <4>3. QED BY <1>0, <4>1, <4>2, BusyStep
    <3>3. counts' = counts BY <2>2 DEF Takes
    <3>4. QED BY <1>0, <2>1, <3>1, <3>2, <3>3 DEF TasksHere
  <2>3. CASE Sends(w) \/ Waits(w) \/ LogsAndWaits(w) \/ Ends(w)
    <3>1. counts' = counts /\ deliveries' = deliveries
      BY <2>3 DEF Sends, Waits, LogsAndWaits, Logs, Ends
    <3>2. Cardinality(Busy') = Cardinality(Busy)
      <4>1. PICK x : /\ WorkOK(x) /\ works' = [works EXCEPT ![w] = x]
                     /\ x.step \in Started <=> works[w].step \in Started
        BY <2>3 DEF Sends, Waits, LogsAndWaits, Logs, Ends, Started
      <4>2. QED BY <1>0, <4>1, BusyStep
    <3>3. QED BY <1>0, <2>1, <3>1, <3>2 DEF TasksHere
  <2>4. CASE LogsAndEnds(w) \/ Abandons(w)
    <3>1. deliveries' = deliveries BY <2>4 DEF LogsAndEnds, Logs, Abandons
    <3>2. counts'.succeeded + counts'.failed = counts.succeeded + counts.failed + 1
          /\ counts'.succeeded \in Nat /\ counts'.failed \in Nat
      <4>1. PICK c \in {"succeeded", "failed"} : counts' = [counts EXCEPT ![c] = @ + 1]
        BY <2>4 DEF LogsAndEnds, Abandons
      <4>2. CASE c = "succeeded" BY <1>0, <4>1, <4>2
      <4>3. CASE c = "failed" BY <1>0, <4>1, <4>3
      <4>4. QED BY <4>2, <4>3
    <3>3. Cardinality(Busy') = Cardinality(Busy) - 1
      <4>1. works' = [works EXCEPT ![w] = Idle] /\ works[w].step \in Started
        BY <2>4 DEF LogsAndEnds, Logs, Abandons, Started
      <4>2. Idle.step \notin Started BY DEF Idle, Started
      <4>3. QED BY <1>0, <4>1, <4>2, IdleOK, BusyStep
    <3>4. QED BY <1>0, <2>1, <3>1, <3>2, <3>3 DEF TasksHere
  <2>5. QED BY <1>8, <2>2, <2>3, <2>4 DEF WorkerStep
<1>9. QED BY <1>2, <1>3, <1>4, <1>5, <1>6, <1>7, <1>8 DEF DispatchMoves

-----------------------------------------------------------------------------
(* The way of an event. Events pass from the stream to the queue, to the      *)
(* router and into tasks in the order of their publication, so no task is     *)
(* made twice.                                                                *)

TaskOf(x) == [hook |-> x.hook, event |-> x.event]
Queued    == {deliveries[i] : i \in 1 .. Len(deliveries)}
InWork    == {TaskOf(works[w]) : w \in Busy}
Logged    == {TaskOf(row) : row \in log}
Released  == Queued \cup InWork \cup sent.seen \cup Logged

Ahead(e, n, queue, stream) ==
  /\ e <= n
  /\ \A i \in 1 .. Len(queue) : e < queue[i]
  /\ \A i \in 1 .. Len(stream) : e < stream[i]

NotOf(t, r) ==
  r.step \in {"rules", "hooks", "send"} =>
    /\ t.event <= r.event
    /\ t.event = r.event => r.step = "send" /\ t.hook \notin r.selected

PendingOK ==
  /\ Rising(pending)
  /\ \A i \in 1 .. Len(pending) :
       /\ pending[i] <= published
       /\ \A j \in 1 .. Len(InStream) : pending[i] < InStream[j]

FlowOK ==
  /\ PendingOK
  /\ Routing => Ahead(router.event, published, pending, InStream)
  /\ \A t \in Released : Ahead(t.event, published, pending, InStream) /\ NotOf(t, router)

LEMMA ReleasedTyped == Typed => Released \subseteq Task
<1> SUFFICES ASSUME Typed PROVE Released \subseteq Task OBVIOUS
<1>1. Queued \subseteq Task BY DEF Typed, QueuesOK, Queued
<1>2. InWork \subseteq Task
  <2>1. ASSUME NEW w \in Busy PROVE TaskOf(works[w]) \in Task
    <3>1. WorkOK(works[w]) /\ works[w].step \in Started BY DEF Typed, WorksOK, Busy
    <3>2. works[w].hook \in Hooks /\ works[w].event \in Nat BY <3>1 DEF WorkOK, WorkType
    <3>3. QED BY <3>2 DEF TaskOf, Task
  <2>2. QED BY <2>1 DEF InWork
<1>3. Logged \subseteq Task BY DEF Typed, CountsOK, Row, Logged, TaskOf, Task
<1>4. sent.seen \subseteq Task BY DEF Typed, CountsOK
<1>5. QED BY <1>1, <1>2, <1>3, <1>4 DEF Released

LEMMA BusyTaken ==
  ASSUME WorksOK, NEW w \in Workers, NEW x, WorkOK(x), works' = [works EXCEPT ![w] = x]
  PROVE  \A v \in Busy' : \/ v = w /\ works'[v] = x
                          \/ v # w /\ v \in Busy /\ works'[v] = works[v]
<1>1. works'[w] = x /\ \A v \in Workers \ {w} : works'[v] = works[v] BY WorkStep
<1>2. QED BY <1>1 DEF Busy

(* Workers release nothing: they take what is queued and log what they have.  *)
LEMMA WorkerReleases ==
  ASSUME Typed, NEW w \in Workers, WorkerStep(w)
  PROVE  Released' \subseteq Released
<1>0. WorksOK /\ deliveries \in Seq(Task) BY DEF Typed, QueuesOK
<1>1. CASE Takes(w)
  <2>1. PICK x : /\ WorkOK(x) /\ works' = [works EXCEPT ![w] = x]
                 /\ x.hook = Head(deliveries).hook /\ x.event = Head(deliveries).event
    BY <1>1 DEF Takes
  <2>2. /\ deliveries # <<>> /\ deliveries' = Tail(deliveries) /\ log' = log /\ sent' = sent
    BY <1>1 DEF Takes
  <2>3. /\ Head(deliveries) = deliveries[1] /\ Head(deliveries) \in Task /\ Len(deliveries) \in Nat \ {0}
        /\ Len(Tail(deliveries)) = Len(deliveries) - 1
        /\ \A i \in 1 .. Len(deliveries) - 1 : Tail(deliveries)[i] = deliveries[i + 1]
    BY <1>0, <2>2, TailFacts
  <2>4. Queued' \subseteq Queued
    <3>1. ASSUME NEW i \in 1 .. Len(deliveries) - 1 PROVE Tail(deliveries)[i] \in Queued
      <4>1. i + 1 \in 1 .. Len(deliveries) BY <2>3
      <4>2. QED BY <2>3, <4>1 DEF Queued
    <3>2. QED BY <2>2, <2>3, <3>1 DEF Queued
  <2>5. TaskOf(x) \in Queued
    <3>1. TaskOf(x) = Head(deliveries) BY <2>1, <2>3 DEF TaskOf, Task
    <3>2. 1 \in 1 .. Len(deliveries) BY <2>3
    <3>3. QED BY <2>3, <3>1, <3>2 DEF Queued
  <2>6. InWork' \subseteq InWork \cup {TaskOf(x)}
    <3>1. \A v \in Busy' : \/ v = w /\ works'[v] = x
                           \/ v # w /\ v \in Busy /\ works'[v] = works[v]
      <4>1. WorksOK /\ WorkOK(x) /\ works' = [works EXCEPT ![w] = x] BY <1>0, <2>1
      <4>2. QED BY <4>1, BusyTaken
    <3>2. ASSUME NEW v \in Busy' PROVE TaskOf(works'[v]) \in InWork \cup {TaskOf(x)}
      <4>1. CASE works'[v] = x BY <4>1
      <4>2. CASE v \in Busy /\ works'[v] = works[v] BY <4>2 DEF InWork
      <4>3. QED BY <3>1, <4>1, <4>2
    <3>3. QED BY <3>2 DEF InWork
  <2>7. Logged' = Logged BY <2>2 DEF Logged
  <2>8. QED BY <2>2, <2>4, <2>5, <2>6, <2>7 DEF Released
<1>2. ASSUME NEW x, WorkOK(x), works' = [works EXCEPT ![w] = x], works[w].step \in Started,
             x.hook = works[w].hook, x.event = works[w].event
      PROVE  InWork' \subseteq InWork
  <2>1. w \in Busy BY <1>2 DEF Busy
  <2>2. TaskOf(x) \in InWork BY <1>2, <2>1 DEF InWork, TaskOf
  <2>3. \A v \in Busy' : TaskOf(works'[v]) \in InWork
    BY <1>0, <1>2, <2>2, BusyTaken DEF InWork
  <2>4. QED BY <2>3 DEF InWork
<1>3. ASSUME NEW x, WorkOK(x), works' = [works EXCEPT ![w] = x], x.step \notin Started
      PROVE  InWork' \subseteq InWork
  <2>1. \A v \in Busy' : v \in Busy /\ works'[v] = works[v]
    <3>1. ASSUME NEW v \in Busy' PROVE works'[v].step \in Started BY DEF Busy
    <3>2. QED BY <1>0, <1>3, <3>1, BusyTaken
  <2>2. QED BY <2>1 DEF InWork
<1>4. ASSUME works[w].step \in Started
      PROVE  [hook |-> works[w].hook, event |-> works[w].event] \in InWork
  BY <1>4 DEF InWork, Busy, TaskOf
<1>5. CASE Sends(w)
  <2>1. InWork' \subseteq InWork BY <1>2, <1>5 DEF Sends, Started
  <2>2. sent'.seen \subseteq sent.seen \cup InWork
    BY <1>4, <1>5 DEF Sends, Answers, Started
  <2>3. Queued' = Queued /\ Logged' = Logged BY <1>5 DEF Sends, Queued, Logged
  <2>4. QED BY <2>1, <2>2, <2>3 DEF Released
<1>6. CASE Waits(w)
  <2>1. InWork' \subseteq InWork BY <1>2, <1>6 DEF Waits, Started
  <2>2. Queued' = Queued /\ Logged' = Logged /\ sent' = sent BY <1>6 DEF Waits, Queued, Logged
  <2>3. QED BY <2>1, <2>2 DEF Released
<1>7. CASE Ends(w)
  <2>1. InWork' \subseteq InWork BY <1>3, <1>7 DEF Ends, Started
  <2>2. Queued' = Queued /\ Logged' = Logged /\ sent' = sent BY <1>7 DEF Ends, Queued, Logged
  <2>3. QED BY <2>1, <2>2 DEF Released
<1>8. CASE Abandons(w)
  <2>1. Idle.step \notin Started BY DEF Idle, Started
  <2>2. InWork' \subseteq InWork BY <1>3, <1>8, <2>1, IdleOK DEF Abandons
  <2>3. Queued' = Queued /\ Logged' = Logged /\ sent' = sent BY <1>8 DEF Abandons, Queued, Logged
  <2>4. QED BY <2>2, <2>3 DEF Released
<1>9. ASSUME Logs(w)
      PROVE  Queued' = Queued /\ Logged' \subseteq Logged \cup InWork /\ sent' = sent
  <2>1. Queued' = Queued /\ sent' = sent BY <1>9 DEF Logs, Queued
  <2>2. ASSUME NEW row \in log' PROVE TaskOf(row) \in Logged \cup InWork
    <3>1. CASE row \in log BY <3>1 DEF Logged
    <3>2. CASE row = [hook |-> works[w].hook, event |-> works[w].event,
                      attempt |-> works[w].attempt, ok |-> works[w].result = "ok"]
      <4>1. row.hook = works[w].hook /\ row.event = works[w].event BY <3>2
      <4>2. TaskOf(row) = [hook |-> works[w].hook, event |-> works[w].event]
        BY <4>1 DEF TaskOf
      <4>3. QED BY <1>4, <1>9, <4>2 DEF Logs, Started
    <3>3. QED BY <1>9, <3>1, <3>2 DEF Logs
  <2>3. QED BY <2>1, <2>2 DEF Logged
<1>10. CASE LogsAndEnds(w)
  <2>1. Idle.step \notin Started BY DEF Idle, Started
  <2>2. InWork' \subseteq InWork BY <1>3, <1>10, <2>1, IdleOK DEF LogsAndEnds
  <2>3. Logs(w) BY <1>10 DEF LogsAndEnds
  <2>4. QED BY <1>9, <2>2, <2>3 DEF Released
<1>11. CASE LogsAndWaits(w)
  <2>1. InWork' \subseteq InWork BY <1>2, <1>11 DEF LogsAndWaits, Logs, Started
  <2>2. Logs(w) BY <1>11 DEF LogsAndWaits
  <2>3. QED BY <1>9, <2>1, <2>2 DEF Released
<1>12. QED BY <1>1, <1>5, <1>6, <1>7, <1>8, <1>10, <1>11 DEF WorkerStep

(* The places an event can be in, and what may be released of it.             *)
LEMMA FlowKept ==
  ASSUME FlowOK, UNCHANGED <<published, pending, InStream>>,
         \A t \in Released' :
           t \in Released \/ (Ahead(t.event, published, pending, InStream) /\ NotOf(t, router')),
         Routing' => Routing /\ router'.event = router.event,
         \A t \in Released : NotOf(t, router) => NotOf(t, router')
  PROVE  FlowOK'
<1>1. PendingOK' BY DEF FlowOK, PendingOK, Rising
<1>2. \A e : Ahead(e, published, pending, InStream) => Ahead(e, published', pending', InStream')
  BY DEF Ahead
<1>3. Routing' => Ahead(router'.event, published', pending', InStream')
  <2>1. Routing' => Ahead(router.event, published, pending, InStream) BY DEF FlowOK
  <2>2. QED BY <2>1 DEF Ahead
<1>4. \A t \in Released' : Ahead(t.event, published', pending', InStream') /\ NotOf(t, router')
  BY <1>2 DEF FlowOK
<1>5. QED BY <1>1, <1>3, <1>4 DEF FlowOK, Ahead

LEMMA FlowStep ==
  ASSUME Typed, BusOK, FlowOK, DispatchMoves PROVE FlowOK'
<1>0. /\ published \in Nat /\ InStream \in Seq(Nat) /\ Len(InStream) \in Nat
      /\ pending \in Seq(Nat) /\ Len(pending) \in Nat
      /\ router \in [step : {"idle", "rules", "hooks", "send", "done"}, event : Nat,
                     selected : SUBSET Hooks]
      /\ Rising(InStream) /\ \A i \in 1 .. Len(InStream) : InStream[i] <= published
  <2>1. StreamOK(streams[Dispatcher], published)
    BY AlertsAssumption DEF BusOK, StreamsOK
  <2>2. QED BY <2>1, StreamTyped DEF Typed, QueuesOK, RouterOK, StreamOK, InStream
<1>1. ASSUME UNCHANGED <<published, pending, InStream, router>>, Released' \subseteq Released
      PROVE  FlowOK'
  <2>1. \A t : NotOf(t, router) => NotOf(t, router') BY <1>1 DEF NotOf, Routing
  <2>2. Routing' => Routing /\ router'.event = router.event BY <1>1 DEF Routing
  <2>3. QED BY <1>1, <2>1, <2>2, FlowKept
<1>2. CASE Quiet
  <2>1. Released' \subseteq Released
    <3>1. Logged' \subseteq Logged BY <1>2 DEF Quiet, Logged
    <3>2. Queued' = Queued /\ InWork' = InWork /\ sent' = sent
      BY <1>2 DEF Quiet, Queued, InWork, Busy
    <3>3. QED BY <3>1, <3>2 DEF Released
  <2>2. QED BY <1>1, <1>2, <2>1 DEF Quiet, InStream
<1>3. ASSUME NEW w \in Workers, WorkerStep(w) PROVE FlowOK'
  <2>1. UNCHANGED <<published, pending, InStream, router>>
    BY <1>3 DEF WorkerStep, Takes, Sends, Waits, LogsAndEnds, LogsAndWaits, Logs, Abandons, Ends,
                WorkerKeeps, busVars, InStream
  <2>2. QED BY <1>1, <1>3, <2>1, WorkerReleases
<1>4. ASSUME UNCHANGED <<deliveries, works, sent, log>> PROVE Released' = Released
  BY <1>4 DEF Released, Queued, InWork, Logged, Busy
<1>5. CASE ReadRules \/ ReadHooks \/ LookupFails \/ Routed \/ RouterEnds
  <2>1. /\ UNCHANGED <<published, InStream, works, sent, log>>
        /\ pending' = pending /\ deliveries' = deliveries
    BY <1>5 DEF ReadRules, ReadHooks, LookupFails, Routed, RouterEnds, RouterKeeps, busVars,
                configVars, InStream
  <2>2. \/ router'.step \in {"idle", "done"}
        \/ /\ router.step \in {"rules", "hooks"} /\ router'.event = router.event
    <3>1. CASE ReadRules BY <1>0, <3>1 DEF ReadRules
    <3>2. CASE ReadHooks BY <1>0, <3>2 DEF ReadHooks
    <3>3. CASE LookupFails BY <3>3 DEF LookupFails, NoRoute
    <3>4. CASE Routed BY <3>4 DEF Routed, NoRoute
    <3>5. CASE RouterEnds BY <1>0, <3>5 DEF RouterEnds
    <3>6. QED BY <1>5, <3>1, <3>2, <3>3, <3>4, <3>5
  <2>3. /\ Routing' => Routing /\ router'.event = router.event
        /\ \A t : NotOf(t, router) => NotOf(t, router')
    BY <2>2 DEF Routing, NotOf
  <2>4. QED BY <1>4, <2>1, <2>3, FlowKept
<1>6. CASE QueueTask
  <2>1. UNCHANGED <<published, InStream, pending, works, sent, log>> /\ router.step = "send"
    BY <1>6 DEF QueueTask, RouterKeeps, busVars, configVars, InStream
  <2>2. PICK h \in router.selected :
          /\ router' = [router EXCEPT !.selected = @ \ {h}]
          /\ \/ deliveries' = Append(deliveries, [hook |-> h, event |-> router.event])
             \/ deliveries' = deliveries
    BY <1>6 DEF QueueTask
  <2>3. /\ router'.step = "send" /\ router'.event = router.event
        /\ router'.selected = router.selected \ {h}
    BY <1>0, <2>1, <2>2
  <2>4. Routing' => Routing /\ router'.event = router.event BY <2>1, <2>3 DEF Routing
  <2>5. ASSUME NEW t, NotOf(t, router) PROVE NotOf(t, router')
    BY <2>1, <2>3, <2>5 DEF NotOf, Routing
  <2> DEFINE it == [hook |-> h, event |-> router.event]
  <2>6. Released' \subseteq Released \cup {it}
    <3>1. Queued' \subseteq Queued \cup {it}
      <4>1. CASE deliveries' = deliveries BY <4>1 DEF Queued
      <4>2. CASE deliveries' = Append(deliveries, it)
        <5>1. deliveries \in Seq(Task) /\ it \in Task BY DEF Typed, QueuesOK, RouterOK, Task
        <5>2. /\ Len(deliveries) \in Nat /\ Len(deliveries') = Len(deliveries) + 1
              /\ \A i \in 1 .. Len(deliveries) : deliveries'[i] = deliveries[i]
              /\ deliveries'[Len(deliveries) + 1] = it
          BY <4>2, <5>1, AppendFacts
        <5>3. \A i \in 1 .. Len(deliveries') : i \in 1 .. Len(deliveries) \/ i = Len(deliveries) + 1
          BY <5>2
        <5>4. QED BY <5>2, <5>3 DEF Queued
      <4>3. QED BY <2>2, <4>1, <4>2
    <3>2. InWork' = InWork /\ Logged' = Logged BY <2>1 DEF InWork, Logged, Busy
    <3>3. QED BY <2>1, <3>1, <3>2 DEF Released
  <2>7. Ahead(it.event, published, pending, InStream) /\ NotOf(it, router')
    <3>1. Ahead(router.event, published, pending, InStream) BY <2>1 DEF FlowOK, Routing
    <3>2. router.event \in Nat BY <1>0
    <3>3. QED BY <2>3, <3>1, <3>2 DEF NotOf
  <2> HIDE DEF it
  <2>8. \A t \in Released' :
          t \in Released \/ (Ahead(t.event, published, pending, InStream) /\ NotOf(t, router'))
    BY <2>6, <2>7
  <2>9. QED BY <2>1, <2>4, <2>5, <2>8, FlowKept
<1>7. CASE TakeEvent
  <2>1. /\ UNCHANGED <<published, InStream, works, sent, log, deliveries>>
        /\ pending # <<>> /\ pending' = Tail(pending)
        /\ router' = [step |-> "rules", event |-> Head(pending), selected |-> {}]
    BY <1>7 DEF TakeEvent, RouterKeeps, busVars, configVars, InStream
  <2>2. Released' = Released BY <1>4, <2>1
  <2>3. /\ Head(pending) = pending[1] /\ Len(pending) \in Nat \ {0} /\ 1 \in 1 .. Len(pending)
        /\ Len(pending') = Len(pending) - 1
        /\ \A i \in 1 .. Len(pending') : pending'[i] = pending[i + 1] /\ i + 1 \in 1 .. Len(pending)
                                         /\ 1 < i + 1
    BY <1>0, <2>1, TailFacts
  <2>4. \A i \in 1 .. Len(pending) : pending[i] \in Nat BY <1>0
  <2>5. PendingOK'
    <3>1. Rising(pending')
      <4>1. SUFFICES ASSUME NEW i \in 1 .. Len(pending'), NEW j \in 1 .. Len(pending'), i < j
                     PROVE  pending'[i] < pending'[j]
        BY DEF Rising
      <4>2. i + 1 < j + 1 BY <4>1, <2>3
      <4>3. QED BY <2>3, <4>2 DEF FlowOK, PendingOK, Rising
    <3>2. QED BY <2>1, <2>3, <3>1 DEF FlowOK, PendingOK, Rising
  <2>6. Ahead(router'.event, published', pending', InStream')
    BY <2>1, <2>3 DEF FlowOK, PendingOK, Ahead, Rising
  <2>7. ASSUME NEW t \in Released PROVE Ahead(t.event, published', pending', InStream') /\ NotOf(t, router')
    <3>1. Ahead(t.event, published, pending, InStream) /\ t.event \in Nat BY ReleasedTyped DEF FlowOK, Task
    <3>2. t.event < pending[1] BY <2>3, <3>1 DEF Ahead
    <3>3. Ahead(t.event, published', pending', InStream') BY <2>1, <2>3, <3>1 DEF Ahead
    <3>4. NotOf(t, router') BY <2>1, <2>3, <2>4, <3>1, <3>2 DEF NotOf, Routing
    <3>5. QED BY <3>3, <3>4
  <2>8. QED BY <2>2, <2>5, <2>6, <2>7 DEF FlowOK, Ahead
<1>8. CASE Carry
  <2>1. /\ published' = published /\ InStream # <<>> /\ InStream' = Tail(InStream)
        /\ \/ pending' = Append(pending, Head(InStream))
           \/ pending' = pending
    BY <1>8, CarryFacts
  <2>2. UNCHANGED <<router, deliveries, works, sent, log>>
    BY <1>8 DEF Carry, CarrierKeeps, configVars
  <2>3. /\ Head(InStream) = InStream[1] /\ 1 \in 1 .. Len(InStream) /\ InStream[1] \in Nat
        /\ Len(InStream') = Len(InStream) - 1 /\ Len(InStream) \in Nat \ {0}
        /\ \A i \in 1 .. Len(InStream') :
             InStream'[i] = InStream[i + 1] /\ i + 1 \in 1 .. Len(InStream) /\ 1 < i + 1
    BY <1>0, <2>1, TailFacts
  <2>4. ASSUME NEW e, Ahead(e, published, pending, InStream) PROVE Ahead(e, published', pending', InStream')
    <3>1. \A i \in 1 .. Len(InStream') : e < InStream'[i] BY <2>3, <2>4 DEF Ahead
    <3>2. \A i \in 1 .. Len(pending') : e < pending'[i]
      <4>1. CASE pending' = pending BY <2>4, <4>1 DEF Ahead
      <4>2. CASE pending' = Append(pending, Head(InStream))
        <5>1. /\ Len(pending') = Len(pending) + 1 /\ pending'[Len(pending) + 1] = InStream[1]
              /\ \A i \in 1 .. Len(pending) : pending'[i] = pending[i]
          BY <1>0, <2>3, <4>2, AppendFacts
        <5>2. \A i \in 1 .. Len(pending') : i \in 1 .. Len(pending) \/ i = Len(pending) + 1
          BY <1>0, <5>1
        <5>3. QED BY <2>3, <2>4, <5>1, <5>2 DEF Ahead
      <4>3. QED BY <2>1, <4>1, <4>2
    <3>3. QED BY <2>1, <2>4, <3>1, <3>2 DEF Ahead
  <2>5. PendingOK'
    <3>1. CASE pending' = pending
      BY <2>1, <2>3, <3>1 DEF FlowOK, PendingOK, Rising
    <3>2. CASE pending' = Append(pending, Head(InStream))
      <4>1. /\ Len(pending') = Len(pending) + 1 /\ pending'[Len(pending) + 1] = InStream[1]
            /\ \A i \in 1 .. Len(pending) : pending'[i] = pending[i] /\ pending[i] \in Nat
        BY <1>0, <2>3, <3>2, AppendFacts
      <4>2. \A i \in 1 .. Len(pending') : i \in 1 .. Len(pending) \/ i = Len(pending) + 1
        BY <1>0, <4>1
      <4>3. \A i \in 1 .. Len(pending) : pending[i] < InStream[1]
        BY <2>3 DEF FlowOK, PendingOK
      <4>4. \A j \in 1 .. Len(InStream') : InStream[1] < InStream'[j]
        BY <1>0, <2>3 DEF Rising
      <4>5. Rising(pending')
        <5>1. SUFFICES ASSUME NEW i \in 1 .. Len(pending'), NEW j \in 1 .. Len(pending'), i < j
                       PROVE  pending'[i] < pending'[j]
          BY DEF Rising
        <5>2. i \in 1 .. Len(pending) BY <5>1, <4>1, <1>0
        <5>3. CASE j = Len(pending) + 1 BY <5>2, <5>3, <4>1, <4>3
        <5>4. CASE j \in 1 .. Len(pending) BY <5>1, <5>2, <5>4, <4>1 DEF FlowOK, PendingOK, Rising
        <5>5. QED BY <4>2, <5>3, <5>4
      <4>6. \A i \in 1 .. Len(pending') : pending'[i] <= published
        BY <1>0, <2>3, <4>1, <4>2 DEF FlowOK, PendingOK
      <4>7. ASSUME NEW i \in 1 .. Len(pending'), NEW j \in 1 .. Len(InStream')
            PROVE  pending'[i] < InStream'[j]
        BY <2>3, <4>1, <4>2, <4>4 DEF FlowOK, PendingOK
      <4>8. QED BY <2>1, <4>5, <4>6, <4>7 DEF PendingOK, Rising
    <3>3. QED BY <2>1, <3>1, <3>2
  <2>6. Released' = Released BY <1>4, <2>2
  <2>7. Routing' => Ahead(router'.event, published', pending', InStream')
    <3>1. Routing' => Ahead(router.event, published, pending, InStream) BY <2>2 DEF FlowOK, Routing
    <3>2. Routing' => Ahead(router.event, published', pending', InStream') BY <2>4, <3>1
    <3>3. QED BY <2>2, <3>2 DEF Ahead
  <2>8. \A t \in Released : Ahead(t.event, published', pending', InStream') /\ NotOf(t, router')
    BY <2>2, <2>4 DEF FlowOK, NotOf, Routing
  <2>9. QED BY <2>5, <2>6, <2>7, <2>8 DEF FlowOK, Ahead
<1>9. CASE PublishEvent
  <2>1. /\ published' = published + 1
        /\ \/ InStream' = Append(InStream, published + 1)
           \/ InStream' = InStream
    BY <1>9, PublishFacts
  <2>2. UNCHANGED <<pending, router, deliveries, works, sent, log>>
    BY <1>9 DEF PublishEvent, configVars
  <2>3. \A i \in 1 .. Len(InStream') : \/ InStream'[i] = published + 1
                                       \/ i \in 1 .. Len(InStream) /\ InStream'[i] = InStream[i]
    <3>1. CASE InStream' = InStream BY <3>1
    <3>2. CASE InStream' = Append(InStream, published + 1)
      <4>1. /\ Len(InStream') = Len(InStream) + 1
            /\ InStream'[Len(InStream) + 1] = published + 1
            /\ \A i \in 1 .. Len(InStream) : InStream'[i] = InStream[i]
        BY <1>0, <3>2, AppendFacts
      <4>2. \A i \in 1 .. Len(InStream') : i \in 1 .. Len(InStream) \/ i = Len(InStream) + 1
        BY <1>0, <4>1
      <4>3. QED BY <4>1, <4>2
    <3>3. QED BY <2>1, <3>1, <3>2
  <2>4. ASSUME NEW e \in Nat, Ahead(e, published, pending, InStream)
        PROVE  Ahead(e, published', pending', InStream')
    <3>1. e <= published BY <2>4 DEF Ahead
    <3>2. e <= published + 1 /\ e < published + 1 BY <1>0, <3>1
    <3>3. \A i \in 1 .. Len(InStream') : e < InStream'[i] BY <2>3, <2>4, <3>2 DEF Ahead
    <3>4. QED BY <2>1, <2>2, <2>4, <3>2, <3>3 DEF Ahead
  <2>5. PendingOK'
    <3>1. ASSUME NEW i \in 1 .. Len(pending)
          PROVE  /\ pending[i] <= published + 1
                 /\ \A j \in 1 .. Len(InStream') : pending[i] < InStream'[j]
      <4>1. pending[i] <= published /\ pending[i] \in Nat BY <1>0 DEF FlowOK, PendingOK
      <4>2. pending[i] <= published + 1 /\ pending[i] < published + 1 BY <1>0, <4>1
      <4>3. QED BY <2>3, <4>2 DEF FlowOK, PendingOK
    <3>2. QED BY <2>1, <2>2, <3>1 DEF FlowOK, PendingOK, Rising
  <2>6. Released' = Released BY <1>4, <2>2
  <2>7. Routing' => Ahead(router'.event, published', pending', InStream')
    <3>1. Routing' => Ahead(router.event, published, pending, InStream) /\ router.event \in Nat
      BY <1>0, <2>2 DEF FlowOK, Routing
    <3>2. Routing' => Ahead(router.event, published', pending', InStream') BY <2>4, <3>1
    <3>3. QED BY <2>2, <3>2 DEF Ahead
  <2>8. ASSUME NEW t \in Released PROVE Ahead(t.event, published', pending', InStream') /\ NotOf(t, router')
    <3>1. Ahead(t.event, published, pending, InStream) /\ t.event \in Nat /\ NotOf(t, router)
      BY ReleasedTyped DEF FlowOK, Task
    <3>2. NotOf(t, router') BY <2>2, <3>1 DEF NotOf, Routing
    <3>3. QED BY <2>4, <3>1, <3>2
  <2>9. QED BY <2>5, <2>6, <2>7, <2>8 DEF FlowOK, Ahead
<1>10. QED
  BY <1>2, <1>3, <1>5, <1>6, <1>7, <1>8, <1>9 DEF DispatchMoves
-----------------------------------------------------------------------------
(* Tasks are delivered one worker each, and a task whose success was seen is  *)
(* not tried again.                                                           *)

Fresh ==
  /\ \A i, j \in 1 .. Len(deliveries) : i # j => deliveries[i] # deliveries[j]
  /\ \A i \in 1 .. Len(deliveries) : deliveries[i] \notin InWork \cup sent.seen \cup Logged

Apart == \A v, u \in Busy : v # u => TaskOf(works[v]) # TaskOf(works[u])

Answered ==
  /\ sent.again = FALSE /\ sent.seen \subseteq sent.answered
  /\ \A v \in Busy : TaskOf(works[v]) \in sent.seen
                       <=> works[v].step = "log" /\ works[v].result = "ok"

Recorded ==
  /\ \A row \in log, v \in Busy : TaskOf(row) = TaskOf(works[v]) =>
       /\ row.ok = FALSE
       /\ row.attempt < works[v].attempt \/ (row.attempt = works[v].attempt /\ works[v].step = "wait")
  /\ \A row \in log : row.ok = TRUE =>
       /\ TaskOf(row) \in sent.seen
       /\ \A other \in log : TaskOf(other) = TaskOf(row) => other.attempt <= row.attempt

TasksOK == Fresh /\ Apart /\ Answered /\ Recorded

(* Worker w's record becomes x, of the task it had or of none.                *)
Stays(w, x) ==
  /\ WorkOK(x) /\ works' = [works EXCEPT ![w] = x]
  /\ x.step \notin Started \/ (w \in Busy /\ TaskOf(x) = TaskOf(works[w]))

LEMMA StaysApart ==
  ASSUME WorksOK, Apart, NEW w \in Workers, NEW x, Stays(w, x)
  PROVE  /\ \A v \in Busy' : \/ /\ v = w /\ works'[v] = x /\ w \in Busy
                                /\ TaskOf(x) = TaskOf(works[w])
                             \/ v # w /\ v \in Busy /\ works'[v] = works[v]
         /\ InWork' \subseteq InWork /\ Apart'
<1>1. \A v \in Busy' : \/ v = w /\ works'[v] = x
                       \/ v # w /\ v \in Busy /\ works'[v] = works[v]
  <2>1. WorkOK(x) /\ works' = [works EXCEPT ![w] = x] BY DEF Stays
  <2>2. QED BY <2>1, BusyTaken
<1>2. \A v \in Busy' : works'[v].step \in Started BY DEF Busy
<1>3. \A v \in Busy' : \/ /\ v = w /\ works'[v] = x /\ w \in Busy
                          /\ TaskOf(x) = TaskOf(works[w])
                       \/ v # w /\ v \in Busy /\ works'[v] = works[v]
  BY <1>1, <1>2 DEF Stays
<1>4. \A v \in Busy' : v \in Busy /\ TaskOf(works'[v]) = TaskOf(works[v]) BY <1>3
<1>5. InWork' \subseteq InWork BY <1>4 DEF InWork
<1>6. Apart' BY <1>4 DEF Apart
<1>7. QED BY <1>3, <1>5, <1>6

LEMMA FreshKept ==
  ASSUME Fresh, deliveries' = deliveries, InWork' \subseteq InWork,
         sent'.seen \subseteq sent.seen \cup InWork, Logged' \subseteq Logged \cup InWork
  PROVE  Fresh'
<1>1. \A i \in 1 .. Len(deliveries) : deliveries[i] \notin InWork' \cup sent'.seen \cup Logged'
  BY DEF Fresh
<1>2. QED BY <1>1 DEF Fresh

(* Nothing is delivered or queued; rows may go with their webhook.            *)
LEMMA TasksKept ==
  ASSUME TasksOK, UNCHANGED <<deliveries, works, sent>>, log' \subseteq log PROVE TasksOK'
<1>1. Busy' = Busy BY DEF Busy
<1>2. InWork' = InWork /\ Logged' \subseteq Logged BY <1>1 DEF InWork, Logged
<1>3. Fresh' BY <1>2, FreshKept DEF TasksOK
<1>4. Apart' /\ Answered' BY <1>1 DEF TasksOK, Apart, Answered
<1>5. Recorded' BY <1>1 DEF TasksOK, Recorded
<1>6. QED BY <1>3, <1>4, <1>5 DEF TasksOK

(* A task that was not released before is queued.                             *)
LEMMA TaskQueued ==
  ASSUME Typed, TasksOK, NEW it \in Task, it \notin Released,
         UNCHANGED <<works, sent, log>>, deliveries' = Append(deliveries, it)
  PROVE  TasksOK'
<1>1. Busy' = Busy BY DEF Busy
<1>2. InWork' = InWork /\ Logged' = Logged BY <1>1 DEF InWork, Logged
<1>3. /\ Len(deliveries) \in Nat /\ Len(deliveries') = Len(deliveries) + 1
      /\ \A i \in 1 .. Len(deliveries) : deliveries'[i] = deliveries[i] /\ deliveries[i] # it
      /\ deliveries'[Len(deliveries) + 1] = it
  <2>1. deliveries \in Seq(Task) BY DEF Typed, QueuesOK
  <2>2. \A i \in 1 .. Len(deliveries) : deliveries[i] # it BY DEF Released, Queued
  <2>3. QED BY <2>1, <2>2, AppendFacts
<1>4. \A i \in 1 .. Len(deliveries') : i \in 1 .. Len(deliveries) \/ i = Len(deliveries) + 1
  BY <1>3
<1>5. Fresh'
  <2>1. ASSUME NEW i \in 1 .. Len(deliveries'), NEW j \in 1 .. Len(deliveries'), i # j
        PROVE  deliveries'[i] # deliveries'[j]
    <3>1. CASE i \in 1 .. Len(deliveries) /\ j \in 1 .. Len(deliveries)
      BY <2>1, <3>1, <1>3 DEF TasksOK, Fresh
    <3>2. CASE i = Len(deliveries) + 1 /\ j \in 1 .. Len(deliveries) BY <3>2, <1>3
    <3>3. CASE i \in 1 .. Len(deliveries) /\ j = Len(deliveries) + 1 BY <3>3, <1>3
    <3>4. QED BY <2>1, <1>4, <3>1, <3>2, <3>3
  <2>2. it \notin InWork \cup sent.seen \cup Logged BY DEF Released
  <2>3. \A i \in 1 .. Len(deliveries') : deliveries'[i] \notin InWork \cup sent.seen \cup Logged
    BY <1>3, <1>4, <2>2 DEF TasksOK, Fresh
  <2>4. QED BY <1>2, <2>1, <2>3 DEF Fresh
<1>6. Apart' /\ Answered' BY <1>1 DEF TasksOK, Apart, Answered
<1>7. Recorded' BY <1>1 DEF TasksOK, Recorded
<1>8. QED BY <1>5, <1>6, <1>7 DEF TasksOK

LEMMA TaskTakes ==
  ASSUME Typed, TasksOK, NEW w \in Workers, Takes(w) PROVE TasksOK'
<1>0. WorksOK /\ deliveries \in Seq(Task) BY DEF Typed, QueuesOK
<1>1. PICK x : /\ WorkOK(x) /\ works' = [works EXCEPT ![w] = x] /\ x.step = "send"
               /\ x.hook = Head(deliveries).hook /\ x.event = Head(deliveries).event
  BY DEF Takes
<1>2. /\ deliveries # <<>> /\ deliveries' = Tail(deliveries) /\ log' = log /\ sent' = sent
  BY DEF Takes
<1>3. /\ Head(deliveries) = deliveries[1] /\ Head(deliveries) \in Task /\ Len(deliveries) \in Nat \ {0}
      /\ Len(deliveries') = Len(deliveries) - 1
      /\ \A i \in 1 .. Len(deliveries') : deliveries'[i] = deliveries[i + 1]
  BY <1>0, <1>2, TailFacts
<1>4. \A i \in 1 .. Len(deliveries') : i + 1 \in 1 .. Len(deliveries) /\ i + 1 # 1
  BY <1>3
<1>5. TaskOf(x) = deliveries[1] /\ 1 \in 1 .. Len(deliveries) BY <1>1, <1>3 DEF TaskOf, Task
<1>6. TaskOf(x) \notin InWork \cup sent.seen \cup Logged
  <2>1. deliveries[1] \notin InWork \cup sent.seen \cup Logged BY <1>5 DEF TasksOK, Fresh
  <2>2. QED BY <1>5, <2>1
<1>7. \A v \in Busy' : \/ v = w /\ works'[v] = x
                       \/ v # w /\ v \in Busy /\ works'[v] = works[v]
  <2>1. WorksOK /\ WorkOK(x) /\ works' = [works EXCEPT ![w] = x] BY <1>0, <1>1
  <2>2. QED BY <2>1, BusyTaken
<1>8. \A v \in Busy : TaskOf(works[v]) # TaskOf(x) BY <1>6 DEF InWork
<1>9. Apart'
  <2>1. SUFFICES ASSUME NEW v \in Busy', NEW u \in Busy', v # u
                 PROVE  TaskOf(works'[v]) # TaskOf(works'[u])
    BY DEF Apart
  <2>2. CASE v = w /\ works'[v] = x BY <1>7, <1>8, <2>1, <2>2
  <2>3. CASE u = w /\ works'[u] = x BY <1>7, <1>8, <2>1, <2>3
  <2>4. CASE v \in Busy /\ u \in Busy /\ works'[v] = works[v] /\ works'[u] = works[u]
    BY <2>1, <2>4 DEF TasksOK, Apart
  <2>5. QED BY <1>7, <2>1, <2>2, <2>3, <2>4
<1>10. Fresh'
  <2>1. InWork' \subseteq InWork \cup {TaskOf(x)}
    <3>1. ASSUME NEW v \in Busy' PROVE TaskOf(works'[v]) \in InWork \cup {TaskOf(x)}
      <4>1. CASE works'[v] = x BY <4>1
      <4>2. CASE v \in Busy /\ works'[v] = works[v] BY <4>2 DEF InWork
      <4>3. QED BY <1>7, <4>1, <4>2
    <3>2. QED BY <3>1 DEF InWork
  <2>2. Logged' = Logged BY <1>2 DEF Logged
  <2>3. ASSUME NEW i \in 1 .. Len(deliveries')
        PROVE  deliveries'[i] \notin InWork' \cup sent'.seen \cup Logged'
    <3>1. deliveries'[i] = deliveries[i + 1] /\ i + 1 \in 1 .. Len(deliveries) /\ i + 1 # 1
      BY <1>3, <1>4
    <3>2. deliveries[i + 1] # TaskOf(x) BY <1>5, <3>1 DEF TasksOK, Fresh
    <3>3. deliveries[i + 1] \notin InWork \cup sent.seen \cup Logged BY <3>1 DEF TasksOK, Fresh
    <3>4. QED BY <1>2, <2>1, <2>2, <3>1, <3>2, <3>3
  <2>4. ASSUME NEW i \in 1 .. Len(deliveries'), NEW j \in 1 .. Len(deliveries'), i # j
        PROVE  deliveries'[i] # deliveries'[j]
    <3>1. /\ deliveries'[i] = deliveries[i + 1] /\ i + 1 \in 1 .. Len(deliveries)
          /\ deliveries'[j] = deliveries[j + 1] /\ j + 1 \in 1 .. Len(deliveries)
      BY <1>3, <1>4
    <3>2. i + 1 # j + 1 BY <1>3, <2>4
    <3>3. QED BY <3>1, <3>2 DEF TasksOK, Fresh
  <2>5. QED BY <2>3, <2>4 DEF Fresh
<1>11. Answered'
  <2>1. ASSUME NEW v \in Busy'
        PROVE  TaskOf(works'[v]) \in sent.seen <=> works'[v].step = "log" /\ works'[v].result = "ok"
    <3>1. CASE works'[v] = x BY <1>1, <1>6, <3>1
    <3>2. CASE v \in Busy /\ works'[v] = works[v] BY <3>2 DEF TasksOK, Answered
    <3>3. QED BY <1>7, <3>1, <3>2
  <2>2. QED BY <1>2, <2>1 DEF TasksOK, Answered
<1>12. Recorded'
  <2>1. ASSUME NEW row \in log, NEW v \in Busy', TaskOf(row) = TaskOf(works'[v])
        PROVE  /\ row.ok = FALSE
               /\ \/ row.attempt < works'[v].attempt
                  \/ row.attempt = works'[v].attempt /\ works'[v].step = "wait"
    <3>1. CASE works'[v] = x
      <4>1. TaskOf(row) \in Logged BY DEF Logged
      <4>2. QED BY <1>6, <2>1, <3>1, <4>1
    <3>2. CASE v \in Busy /\ works'[v] = works[v] BY <2>1, <3>2 DEF TasksOK, Recorded
    <3>3. QED BY <1>7, <3>1, <3>2
  <2>2. QED BY <1>2, <2>1 DEF TasksOK, Recorded
<1>13. QED BY <1>9, <1>10, <1>11, <1>12 DEF TasksOK

LEMMA TaskSends ==
  ASSUME Typed, TasksOK, NEW w \in Workers, Sends(w) PROVE TasksOK'
<1>0. WorksOK /\ w \in Busy /\ works[w].step = "send" BY DEF Typed, Sends, Busy, Started
<1>1. PICK x : /\ WorkOK(x) /\ works' = [works EXCEPT ![w] = x]
               /\ x.step = "log" /\ x.attempt = works[w].attempt
               /\ x.hook = works[w].hook /\ x.event = works[w].event
               /\ Answers(TaskOf(works[w]), x.result)
  BY DEF Sends, TaskOf
<1>2. Stays(w, x) BY <1>0, <1>1 DEF Stays, TaskOf
<1>3. /\ \A v \in Busy' : \/ /\ v = w /\ works'[v] = x /\ w \in Busy
                             /\ TaskOf(x) = TaskOf(works[w])
                          \/ v # w /\ v \in Busy /\ works'[v] = works[v]
      /\ InWork' \subseteq InWork /\ Apart'
  BY <1>0, <1>2, StaysApart DEF TasksOK
<1>4. deliveries' = deliveries /\ log' = log BY DEF Sends
<1>5. TaskOf(works[w]) \notin sent.seen /\ sent.again = FALSE /\ sent.seen \subseteq sent.answered
  BY <1>0 DEF TasksOK, Answered
<1>6. /\ sent'.again = FALSE
      /\ sent'.seen = IF x.result = "ok" THEN sent.seen \cup {TaskOf(works[w])} ELSE sent.seen
      /\ sent'.seen \subseteq sent'.answered
  BY <1>1, <1>5 DEF Answers
<1>7. TaskOf(works[w]) \in InWork BY <1>0 DEF InWork
<1>8. Fresh'
  <2>1. Logged' = Logged BY <1>4 DEF Logged
  <2>2. sent'.seen \subseteq sent.seen \cup InWork BY <1>6, <1>7
  <2>3. QED BY <1>3, <1>4, <2>1, <2>2, FreshKept DEF TasksOK
<1>9. Answered'
  <2>1. ASSUME NEW v \in Busy'
        PROVE  TaskOf(works'[v]) \in sent'.seen <=> works'[v].step = "log" /\ works'[v].result = "ok"
    <3>1. CASE works'[v] = x /\ TaskOf(x) = TaskOf(works[w]) BY <1>1, <1>5, <1>6, <3>1
    <3>2. CASE v # w /\ v \in Busy /\ works'[v] = works[v]
      <4>1. TaskOf(works[v]) # TaskOf(works[w]) BY <1>0, <3>2 DEF TasksOK, Apart
      <4>2. TaskOf(works[v]) \in sent.seen <=> works[v].step = "log" /\ works[v].result = "ok"
        BY <3>2 DEF TasksOK, Answered
      <4>3. QED BY <1>6, <3>2, <4>1, <4>2
    <3>3. QED BY <1>3, <3>1, <3>2
  <2>2. QED BY <1>6, <2>1 DEF Answered
<1>10. Recorded'
  <2>1. ASSUME NEW row \in log, NEW v \in Busy', TaskOf(row) = TaskOf(works'[v])
        PROVE  /\ row.ok = FALSE
               /\ \/ row.attempt < works'[v].attempt
                  \/ row.attempt = works'[v].attempt /\ works'[v].step = "wait"
    <3>1. CASE works'[v] = x /\ TaskOf(x) = TaskOf(works[w])
      <4>1. row.ok = FALSE /\ row.attempt < works[w].attempt
        BY <1>0, <2>1, <3>1 DEF TasksOK, Recorded
      <4>2. QED BY <1>1, <3>1, <4>1
    <3>2. CASE v \in Busy /\ works'[v] = works[v] BY <2>1, <3>2 DEF TasksOK, Recorded
    <3>3. QED BY <1>3, <3>1, <3>2
  <2>2. sent.seen \subseteq sent'.seen BY <1>6
  <2>3. QED BY <1>4, <2>1, <2>2 DEF TasksOK, Recorded
<1>11. QED BY <1>3, <1>8, <1>9, <1>10 DEF TasksOK

(* A worker tries again after its wait, or leaves its task.                   *)
LEMMA TaskStays ==
  ASSUME Typed, TasksOK, NEW w \in Workers, NEW x, Stays(w, x),
         UNCHANGED <<deliveries, log, sent>>,
         x.step \in Started => /\ works[w].step = "wait" /\ x.step = "send"
                               /\ x.attempt = works[w].attempt + 1
  PROVE  TasksOK'
<1>0. WorksOK BY DEF Typed
<1>1. /\ \A v \in Busy' : \/ /\ v = w /\ works'[v] = x /\ w \in Busy
                             /\ TaskOf(x) = TaskOf(works[w])
                          \/ v # w /\ v \in Busy /\ works'[v] = works[v]
      /\ InWork' \subseteq InWork /\ Apart'
  BY <1>0, StaysApart DEF TasksOK
<1>2. \A v \in Busy' : works'[v].step \in Started BY DEF Busy
<1>3. Fresh'
  <2>1. Logged' = Logged BY DEF Logged
  <2>2. QED BY <1>1, <2>1, FreshKept DEF TasksOK
<1>4. Answered'
  <2>1. ASSUME NEW v \in Busy'
        PROVE  TaskOf(works'[v]) \in sent.seen <=> works'[v].step = "log" /\ works'[v].result = "ok"
    <3>1. CASE works'[v] = x /\ w \in Busy /\ TaskOf(x) = TaskOf(works[w])
      <4>1. works[w].step = "wait" /\ x.step = "send" BY <1>2, <3>1
      <4>2. TaskOf(works[w]) \notin sent.seen BY <3>1, <4>1 DEF TasksOK, Answered
      <4>3. QED BY <3>1, <4>1, <4>2
    <3>2. CASE v \in Busy /\ works'[v] = works[v] BY <3>2 DEF TasksOK, Answered
    <3>3. QED BY <1>1, <3>1, <3>2
  <2>2. QED BY <2>1 DEF TasksOK, Answered
<1>5. Recorded'
  <2>1. ASSUME NEW row \in log, NEW v \in Busy', TaskOf(row) = TaskOf(works'[v])
        PROVE  /\ row.ok = FALSE
               /\ \/ row.attempt < works'[v].attempt
                  \/ row.attempt = works'[v].attempt /\ works'[v].step = "wait"
    <3>1. CASE works'[v] = x /\ w \in Busy /\ TaskOf(x) = TaskOf(works[w])
      <4>1. x.attempt = works[w].attempt + 1 BY <1>2, <3>1
      <4>2. row.ok = FALSE /\ (row.attempt < works[w].attempt \/ row.attempt = works[w].attempt)
        BY <2>1, <3>1 DEF TasksOK, Recorded
      <4>3. row.attempt \in Nat BY DEF Typed, CountsOK, Row
      <4>4. works[w].attempt \in Nat
        <5>1. works[w].attempt \in 0 .. MaxAttempts BY <1>0 DEF WorksOK, WorkOK, WorkType
        <5>2. QED BY <5>1, AlertsAssumption
      <4>5. row.attempt < x.attempt BY <4>1, <4>2, <4>3, <4>4
      <4>6. QED BY <3>1, <4>2, <4>5
    <3>2. CASE v \in Busy /\ works'[v] = works[v] BY <2>1, <3>2 DEF TasksOK, Recorded
    <3>3. QED BY <1>1, <3>1, <3>2
  <2>2. QED BY <2>1 DEF TasksOK, Recorded
<1>6. QED BY <1>1, <1>3, <1>4, <1>5 DEF TasksOK

(* A worker logs its attempt: it ends with its task, or waits after a failure. *)
LEMMA TaskLogs ==
  ASSUME Typed, TasksOK, NEW w \in Workers, Logs(w), NEW x, Stays(w, x),
         x.step \in Started => /\ x.step = "wait" /\ x.attempt = works[w].attempt
                               /\ works[w].result # "ok"
  PROVE  TasksOK'
<1>0. /\ WorksOK /\ w \in Busy /\ works[w].step = "log" /\ WorkOK(works[w])
      /\ works[w].attempt \in Nat /\ \A row \in log : row.attempt \in Nat
  <2>1. WorksOK /\ w \in Busy /\ works[w].step = "log" BY DEF Typed, Logs, Busy, Started
  <2>2. WorkOK(works[w]) BY <2>1 DEF WorksOK
  <2>3. works[w].attempt \in 0 .. MaxAttempts BY <2>2 DEF WorkOK, WorkType
  <2>4. \A row \in log : row.attempt \in Nat BY DEF Typed, CountsOK, Row
  <2>5. QED BY <2>1, <2>2, <2>3, <2>4, AlertsAssumption
<1>1. /\ \A v \in Busy' : \/ /\ v = w /\ works'[v] = x /\ w \in Busy
                             /\ TaskOf(x) = TaskOf(works[w])
                          \/ v # w /\ v \in Busy /\ works'[v] = works[v]
      /\ InWork' \subseteq InWork /\ Apart'
  BY <1>0, StaysApart DEF TasksOK
<1>2. \A v \in Busy' : works'[v].step \in Started BY DEF Busy
<1>3. deliveries' = deliveries /\ sent' = sent BY DEF Logs
<1> DEFINE new == [hook |-> works[w].hook, event |-> works[w].event,
                   attempt |-> works[w].attempt, ok |-> works[w].result = "ok"]
<1>4. log' = log \cup {new} \/ log' = log BY DEF Logs
<1>5. /\ TaskOf(new) = TaskOf(works[w]) /\ new.attempt = works[w].attempt
      /\ new.ok = (works[w].result = "ok")
  BY DEF TaskOf
<1> HIDE DEF new
<1>6. \A row \in log' : row \in log \/ row = new BY <1>4
<1>7. TaskOf(works[w]) \in InWork BY <1>0 DEF InWork
<1>8. Fresh'
  <2>1. Logged' \subseteq Logged \cup InWork BY <1>5, <1>6, <1>7 DEF Logged
  <2>2. QED BY <1>1, <1>3, <2>1, FreshKept DEF TasksOK
<1>9. Answered'
  <2>1. ASSUME NEW v \in Busy'
        PROVE  TaskOf(works'[v]) \in sent.seen <=> works'[v].step = "log" /\ works'[v].result = "ok"
    <3>1. CASE works'[v] = x /\ TaskOf(x) = TaskOf(works[w])
      <4>1. works[w].result # "ok" /\ x.step = "wait" BY <1>2, <3>1
      <4>2. TaskOf(works[w]) \notin sent.seen BY <1>0, <4>1 DEF TasksOK, Answered
      <4>3. QED BY <3>1, <4>1, <4>2
    <3>2. CASE v \in Busy /\ works'[v] = works[v] BY <3>2 DEF TasksOK, Answered
    <3>3. QED BY <1>1, <3>1, <3>2
  <2>2. QED BY <1>3, <2>1 DEF TasksOK, Answered
<1>10. \A row \in log : TaskOf(row) = TaskOf(works[w]) =>
         row.ok = FALSE /\ row.attempt < works[w].attempt
  BY <1>0 DEF TasksOK, Recorded
<1>11. Recorded'
  <2>1. ASSUME NEW row \in log', NEW v \in Busy', TaskOf(row) = TaskOf(works'[v])
        PROVE  /\ row.ok = FALSE
               /\ \/ row.attempt < works'[v].attempt
                  \/ row.attempt = works'[v].attempt /\ works'[v].step = "wait"
    <3>1. CASE works'[v] = x /\ TaskOf(x) = TaskOf(works[w])
      <4>1. works[w].result # "ok" /\ x.step = "wait" /\ x.attempt = works[w].attempt BY <1>2, <3>1
      <4>2. CASE row \in log BY <1>10, <2>1, <3>1, <4>1, <4>2
      <4>3. CASE row = new BY <1>5, <3>1, <4>1, <4>3
      <4>4. QED BY <1>6, <4>2, <4>3
    <3>2. CASE v # w /\ v \in Busy /\ works'[v] = works[v]
      <4>1. CASE row \in log BY <2>1, <3>2, <4>1 DEF TasksOK, Recorded
      <4>2. CASE row = new
        <5>1. TaskOf(works[v]) # TaskOf(works[w]) BY <1>0, <3>2 DEF TasksOK, Apart
        <5>2. QED BY <1>5, <2>1, <3>2, <4>2, <5>1
      <4>3. QED BY <1>6, <4>1, <4>2
    <3>3. QED BY <1>1, <3>1, <3>2
  <2>2. ASSUME NEW row \in log', row.ok = TRUE
        PROVE  /\ TaskOf(row) \in sent.seen
               /\ \A other \in log' : TaskOf(other) = TaskOf(row) => other.attempt <= row.attempt
    <3>1. CASE row \in log
      <4>1. /\ TaskOf(row) \in sent.seen
            /\ \A other \in log : TaskOf(other) = TaskOf(row) => other.attempt <= row.attempt
        BY <2>2, <3>1 DEF TasksOK, Recorded
      <4>2. TaskOf(row) # TaskOf(new) BY <1>5, <1>10, <2>2, <3>1
      <4>3. QED BY <1>6, <4>1, <4>2
    <3>2. CASE row = new
      <4>1. TaskOf(row) \in sent.seen
        <5>1. works[w].result = "ok" BY <1>5, <2>2, <3>2
        <5>2. QED BY <1>0, <1>5, <3>2, <5>1 DEF TasksOK, Answered
      <4>2. ASSUME NEW other \in log', TaskOf(other) = TaskOf(row) PROVE other.attempt <= row.attempt
        <5>1. CASE other \in log
          <6>1. other.attempt < works[w].attempt /\ other.attempt \in Nat
            BY <1>0, <1>5, <1>10, <3>2, <4>2, <5>1
          <6>2. QED BY <1>0, <1>5, <3>2, <6>1
        <5>2. CASE other = new BY <1>0, <1>5, <3>2, <5>2
        <5>3. QED BY <1>6, <5>1, <5>2
      <4>3. QED BY <4>1, <4>2
    <3>3. QED BY <1>6, <3>1, <3>2
  <2>3. QED BY <1>3, <2>1, <2>2 DEF Recorded
<1>12. QED BY <1>1, <1>8, <1>9, <1>11 DEF TasksOK

LEMMA TasksOKStep ==
  ASSUME Typed, FlowOK, TasksOK, DispatchMoves PROVE TasksOK'
<1>0. ASSUME NEW w \in Workers PROVE WorkOK(works[w]) BY DEF Typed, WorksOK
<1>1. CASE Quiet BY <1>1, TasksKept DEF Quiet
<1>2. CASE PublishEvent \/ Carry \/ TakeEvent \/ ReadRules \/ ReadHooks \/ LookupFails \/ Routed \/ RouterEnds
  <2>1. UNCHANGED <<deliveries, works, sent, log>>
    BY <1>2 DEF PublishEvent, Carry, CarrierKeeps, TakeEvent, ReadRules, ReadHooks, LookupFails,
                Routed, RouterEnds, RouterKeeps, configVars
  <2>2. QED BY <2>1, TasksKept
<1>3. CASE QueueTask
  <2>1. UNCHANGED <<works, sent, log>> /\ router.step = "send"
    BY <1>3 DEF QueueTask, RouterKeeps, configVars
  <2>2. PICK h \in router.selected :
          \/ deliveries' = Append(deliveries, [hook |-> h, event |-> router.event])
          \/ deliveries' = deliveries
    BY <1>3 DEF QueueTask
  <2>3. CASE deliveries' = deliveries BY <2>1, <2>3, TasksKept
  <2> DEFINE it == [hook |-> h, event |-> router.event]
  <2>4. CASE deliveries' = Append(deliveries, it)
    <3>1. it \in Task BY DEF Typed, RouterOK, Task
    <3>2. ~NotOf(it, router) BY <2>1 DEF NotOf
    <3>3. it \notin Released BY <3>2 DEF FlowOK
    <3> HIDE DEF it
    <3>4. QED BY <2>1, <2>4, <3>1, <3>3, TaskQueued
  <2>5. QED BY <2>2, <2>3, <2>4
<1>4. ASSUME NEW w \in Workers, WorkerStep(w) PROVE TasksOK'
  <2>1. CASE Takes(w) BY <2>1, TaskTakes
  <2>2. CASE Sends(w) BY <2>2, TaskSends
  <2>3. CASE Waits(w)
    <3>1. PICK x : /\ WorkOK(x) /\ works' = [works EXCEPT ![w] = x]
                   /\ x.step = "send" /\ x.attempt = works[w].attempt + 1
                   /\ x.hook = works[w].hook /\ x.event = works[w].event
      BY <2>3 DEF Waits
    <3>2. w \in Busy /\ works[w].step = "wait" BY <2>3 DEF Waits, Busy, Started
    <3>3. Stays(w, x) BY <3>1, <3>2 DEF Stays, TaskOf
    <3>4. UNCHANGED <<deliveries, log, sent>> BY <2>3 DEF Waits
    <3>5. QED BY <3>1, <3>2, <3>3, <3>4, TaskStays
  <2>4. Idle.step \notin Started BY DEF Idle, Started
  <2>5. CASE Abandons(w)
    <3>1. Stays(w, Idle) BY <2>4, <2>5, IdleOK DEF Abandons, Stays
    <3>2. UNCHANGED <<deliveries, log, sent>> BY <2>5 DEF Abandons
    <3>3. QED BY <2>4, <3>1, <3>2, TaskStays
  <2>6. CASE Ends(w)
    <3>1. PICK x : WorkOK(x) /\ works' = [works EXCEPT ![w] = x] /\ x.step = "done"
      BY <2>6 DEF Ends
    <3>2. x.step \notin Started BY <3>1 DEF Started
    <3>3. Stays(w, x) BY <3>1, <3>2 DEF Stays
    <3>4. UNCHANGED <<deliveries, log, sent>> BY <2>6 DEF Ends
    <3>5. QED BY <3>2, <3>3, <3>4, TaskStays
  <2>7. CASE LogsAndEnds(w)
    <3>1. Stays(w, Idle) /\ Logs(w) BY <2>4, <2>7, IdleOK DEF LogsAndEnds, Stays
    <3>2. QED BY <2>4, <3>1, TaskLogs
  <2>8. CASE LogsAndWaits(w)
    <3>1. PICK x : /\ WorkOK(x) /\ works' = [works EXCEPT ![w] = x]
                   /\ x.step = "wait" /\ x.attempt = works[w].attempt
                   /\ x.hook = works[w].hook /\ x.event = works[w].event
      BY <2>8 DEF LogsAndWaits
    <3>2. Logs(w) /\ works[w].result # "ok" /\ w \in Busy
      BY <2>8 DEF LogsAndWaits, Logs, Busy, Started
    <3>3. Stays(w, x) BY <3>1, <3>2 DEF Stays, TaskOf
    <3>4. QED BY <3>1, <3>2, <3>3, TaskLogs
  <2>9. QED BY <1>4, <2>1, <2>2, <2>3, <2>5, <2>6, <2>7, <2>8 DEF WorkerStep
<1>5. QED BY <1>1, <1>2, <1>3, <1>4 DEF DispatchMoves

-----------------------------------------------------------------------------
(* From the bus to the receivers.                                             *)

AlertsInv == BusOK /\ Typed /\ EventsHere /\ TasksHere /\ FlowOK /\ TasksOK

LEMMA AlertsStart == AlertsInit => AlertsInv
<1> SUFFICES ASSUME AlertsInit PROVE AlertsInv OBVIOUS
<1>1. BusOK /\ Typed BY BusStart, TypedStart DEF AlertsInit
<1>2. /\ published = 0 /\ pending = <<>> /\ deliveries = <<>> /\ log = {}
      /\ sent = [answered |-> {}, seen |-> {}, again |-> FALSE] /\ InStream = <<>> /\ router.step = "idle"
  BY AlertsAssumption DEF AlertsInit, EventsInit, NoStream, InStream, NoRoute
<1>3. Busy = {} BY DEF AlertsInit, Busy, Idle, Started
<1>4. Queued = {} /\ InWork = {} /\ Logged = {} /\ ~Routing
  BY <1>2, <1>3 DEF Queued, InWork, Logged, Routing
<1>5. EventsHere
  <2>1. missed = 0 /\ handled.events = 0 /\ counts.eventDrop = 0 BY DEF AlertsInit
  <2>2. Len(InStream) = 0 /\ Len(pending) = 0 /\ InRouter = 0 BY <1>2, <1>4 DEF InRouter
  <2>3. QED BY <1>2, <2>1, <2>2 DEF EventsHere
<1>6. TasksHere BY <1>2, <1>3, FS_EmptySet DEF AlertsInit, TasksHere
<1>7. FlowOK BY <1>2, <1>4 DEF FlowOK, PendingOK, Rising, Released
<1>8. TasksOK BY <1>2, <1>3 DEF TasksOK, Fresh, Apart, Answered, Recorded
<1>9. QED BY <1>1, <1>5, <1>6, <1>7, <1>8 DEF AlertsInv

LEMMA AlertsStep == AlertsInv /\ [AlertsNext]_alertVars => AlertsInv'
<1> SUFFICES ASSUME AlertsInv, [AlertsNext]_alertVars PROVE AlertsInv' OBVIOUS
<1>1. BusMoves /\ DispatchMoves BY NextBus, NextDispatch DEF AlertsInv
<1>2. BusOK' BY <1>1, BusStep DEF AlertsInv
<1>3. Typed' BY TypedStep DEF AlertsInv
<1>4. EventsHere' BY <1>1, EventsStep DEF AlertsInv
<1>5. TasksHere' BY <1>1, TasksStep DEF AlertsInv
<1>6. FlowOK' BY <1>1, FlowStep DEF AlertsInv
<1>7. TasksOK' BY <1>1, TasksOKStep DEF AlertsInv
<1>8. QED BY <1>2, <1>3, <1>4, <1>5, <1>6, <1>7 DEF AlertsInv

LEMMA AlertsInvSound == AlertsInv => AlertsSound
<1> SUFFICES ASSUME AlertsInv PROVE AlertsSound OBVIOUS
<1>1. AlertsTypeOK
  <2>1. EventsTypeOK BY DEF AlertsInv, BusOK, RingOK, StreamsOK, StreamOK, EventsTypeOK
  <2>2. \A w \in Workers : works[w].attempt \in 0 .. MaxAttempts
    BY DEF AlertsInv, Typed, WorksOK, WorkOK, WorkType
  <2>3. QED BY <2>1, <2>2 DEF AlertsInv, Typed, QueuesOK, StepsOK, AlertsTypeOK
<1>2. NoHoles
  BY EventsAssumption DEF AlertsInv, BusOK, RingOK, StreamsOK, StreamOK, NoHoles
<1>3. RulesResolve BY DEF AlertsInv, Typed, ConfigOK
<1>4. EventsConserved BY HereConserved DEF AlertsInv
<1>5. DeliveredOnce
  <2>1. \A row \in log : row.hook \in Hooks BY DEF AlertsInv, Typed, CountsOK, Row
  <2>2. sent.again = FALSE /\ sent.seen \subseteq sent.answered BY DEF AlertsInv, TasksOK, Answered
  <2>3. ASSUME NEW row \in log, row.ok
        PROVE  /\ [hook |-> row.hook, event |-> row.event] \in sent.seen
               /\ \A other \in log : other.hook = row.hook /\ other.event = row.event
                                       => other.attempt <= row.attempt
    <3>1. row.ok = TRUE BY <2>3 DEF AlertsInv, Typed, CountsOK, Row
    <3>2. /\ TaskOf(row) \in sent.seen
          /\ \A other \in log : TaskOf(other) = TaskOf(row) => other.attempt <= row.attempt
      BY <3>1 DEF AlertsInv, TasksOK, Recorded
    <3>3. QED BY <3>2 DEF TaskOf
  <2>4. QED BY <2>2, <2>3 DEF DeliveredOnce
<1>6. QED BY <1>1, <1>2, <1>3, <1>4, <1>5 DEF AlertsSound

(* From the bus to the receivers, for any number of listeners, webhooks,      *)
(* rules and workers: no stream has a hole, no event and no task is lost      *)
(* without being counted, no rule names a webhook that is gone, and what the  *)
(* dispatcher saw answered with success it never sends again.                 *)
THEOREM AlertsHold == AlertsSpec => []AlertsSound
<1>1. QED BY AlertsStart, AlertsStep, AlertsInvSound, PTL DEF AlertsSpec

-----------------------------------------------------------------------------
(* The bounded index.                                                         *)

EntryType == [size : Nat, expires : Int, version : Nat]

Sized(entries, D) == entries \in [D -> EntryType] /\ IsFiniteSet(Present(entries))

LEMMA PresentFacts ==
  /\ None \in EntryType /\ None.size = 0
  /\ \A entries : Present(entries) \subseteq DOMAIN entries
BY DEF EntryType, None, Present

(* Only what is present has bytes.                                            *)
LEMMA BytesFacts ==
  ASSUME NEW D, NEW entries, Sized(entries, D), NEW keys \in SUBSET D
  PROVE  /\ Bytes(entries, keys) \in Nat
         /\ Bytes(entries, keys) = Bytes(entries, keys \cap Present(entries))
         /\ Bytes(entries, keys) <= Bytes(entries, Present(entries))
<1> DEFINE f == [k \in DOMAIN entries |-> entries[k].size]
           P == Present(entries)
<1>1. DOMAIN entries = D /\ P \subseteq D /\ IsFiniteSet(P) BY PresentFacts DEF Sized
<1>2. \A k \in D : f[k] \in Nat BY <1>1 DEF Sized, EntryType
<1>3. \A k \in D \ P : f[k] = 0 BY <1>1, PresentFacts DEF Present
<1>4. \A X : Bytes(entries, X) = Total(f, X) BY DEF Bytes
<1> HIDE DEF f, P
<1>5. Total(f, keys) = Total(f, keys \cap P) BY <1>3, TotalSupport
<1>6. Total(f, keys \cap P) <= Total(f, P) BY <1>1, <1>2, TotalSubset
<1>7. IsFiniteSet(keys \cap P) BY <1>1, FS_Subset
<1>8. Total(f, keys \cap P) \in Nat BY <1>1, <1>2, <1>7, TotalNat
<1>9. QED BY <1>4, <1>5, <1>6, <1>8 DEF P

(* What is taken out and what stays make up what was there.                   *)
LEMMA MinusFacts ==
  ASSUME NEW D, NEW entries, Sized(entries, D), NEW keys \in SUBSET D
  PROVE  /\ Sized(Minus(entries, keys), D)
         /\ Present(Minus(entries, keys)) = Present(entries) \ keys
         /\ Bytes(entries, Present(entries))
              = Bytes(Minus(entries, keys), Present(Minus(entries, keys))) + Bytes(entries, keys)
         /\ Cardinality(Present(Minus(entries, keys))) <= Cardinality(Present(entries))
<1> DEFINE f == [k \in DOMAIN entries |-> entries[k].size]
           m == Minus(entries, keys)
           g == [k \in DOMAIN m |-> m[k].size]
           P == Present(entries)
<1>1. DOMAIN entries = D /\ P \subseteq D /\ IsFiniteSet(P) BY PresentFacts DEF Sized
<1>2. m \in [D -> EntryType] /\ \A k \in D : m[k] = IF k \in keys THEN None ELSE entries[k]
  BY <1>1, PresentFacts DEF Sized, Minus
<1>3. Present(m) = P \ keys BY <1>1, <1>2 DEF Present
<1>4. IsFiniteSet(P \ keys) /\ Cardinality(P \ keys) <= Cardinality(P) BY <1>1, FS_Subset
<1>5. \A k \in D : f[k] \in Nat BY <1>1 DEF Sized, EntryType
<1>6. \A k \in P \ keys : g[k] = f[k] BY <1>1, <1>2
<1>7. Bytes(m, P \ keys) = Bytes(entries, P \ keys)
  <2>1. /\ \A k \in P \ keys : g[k] \in Nat /\ f[k] \in Nat /\ g[k] <= f[k] /\ f[k] <= g[k]
    BY <1>1, <1>5, <1>6
  <2>2. Bytes(m, P \ keys) = Total(g, P \ keys) /\ Bytes(entries, P \ keys) = Total(f, P \ keys)
    BY DEF Bytes
  <2> HIDE DEF f, g, m, P
  <2>3. Total(g, P \ keys) <= Total(f, P \ keys) BY <1>4, <2>1, TotalMonotone
  <2>4. Total(f, P \ keys) <= Total(g, P \ keys) BY <1>4, <2>1, TotalMonotone
  <2>5. Total(f, P \ keys) \in Nat /\ Total(g, P \ keys) \in Nat BY <1>4, <2>1, TotalNat
  <2>6. QED BY <2>2, <2>3, <2>4, <2>5
<1>8. Bytes(entries, P) = Bytes(entries, P \ keys) + Bytes(entries, keys \cap P)
  <2>1. \A X : Bytes(entries, X) = Total(f, X) BY DEF Bytes
  <2>2. P = (P \ keys) \cup (keys \cap P) /\ (P \ keys) \cap (keys \cap P) = {} OBVIOUS
  <2>3. IsFiniteSet(keys \cap P) BY <1>1, FS_Subset
  <2>4. \A k \in (P \ keys) \cup (keys \cap P) : f[k] \in Nat BY <1>1, <1>5
  <2> HIDE DEF f, P
  <2>5. Total(f, (P \ keys) \cup (keys \cap P)) = Total(f, P \ keys) + Total(f, keys \cap P)
    BY <1>4, <2>2, <2>3, <2>4, TotalUnion
  <2>6. QED BY <2>1, <2>2, <2>5
<1>9. Bytes(entries, keys) = Bytes(entries, keys \cap P) BY BytesFacts
<1>10. QED BY <1>2, <1>3, <1>4, <1>7, <1>8, <1>9 DEF Sized

(* An entry takes the place of what was there.                                *)
With(entries, k, e) == [entries EXCEPT ![k] = e]

LEMMA EnterFacts ==
  ASSUME NEW D, NEW entries, Sized(entries, D), NEW k \in D, NEW e \in EntryType, e # None,
         NEW new, new = With(entries, k, e)
  PROVE  /\ Sized(new, D)
         /\ Present(new) = Present(entries) \cup {k}
         /\ Bytes(new, Present(new)) + entries[k].size = Bytes(entries, Present(entries)) + e.size
         /\ k \in Present(entries) => Cardinality(Present(new)) = Cardinality(Present(entries))
         /\ Cardinality(Present(new)) <= Cardinality(Present(entries)) + 1
<1> DEFINE f == [x \in DOMAIN entries |-> entries[x].size]
           g == [x \in DOMAIN new |-> new[x].size]
           P == Present(entries)
           Q == P \cup {k}
<1>1. DOMAIN entries = D /\ P \subseteq D /\ IsFiniteSet(P) BY PresentFacts DEF Sized
<1>2. new \in [D -> EntryType] /\ new[k] = e /\ \A x \in D \ {k} : new[x] = entries[x]
  BY <1>1 DEF Sized, With
<1>3. Present(new) = Q BY <1>1, <1>2 DEF Present
<1>4. IsFiniteSet(Q) /\ (k \in P => Cardinality(Q) = Cardinality(P)) /\ Cardinality(Q) <= Cardinality(P) + 1
  <2>1. IsFiniteSet(Q) /\ Cardinality(Q) = IF k \in P THEN Cardinality(P) ELSE Cardinality(P) + 1
    BY <1>1, FS_AddElement
  <2>2. Cardinality(P) \in Nat BY <1>1, FS_CardinalityType
  <2>3. QED BY <2>1, <2>2
<1>5. Q \subseteq D /\ \A x \in Q : f[x] \in Nat /\ g[x] \in Nat BY <1>1, <1>2 DEF Sized, EntryType
<1>6. \A x \in Q \ {k} : g[x] = f[x] BY <1>1, <1>2, <1>5
<1>7. f[k] = entries[k].size /\ g[k] = e.size BY <1>1, <1>2
<1>8. Bytes(entries, Q) = Bytes(entries, P)
  <2>1. Q \cap P = P OBVIOUS
  <2>2. Bytes(entries, Q) = Bytes(entries, Q \cap P) BY <1>5, BytesFacts
  <2>3. QED BY <2>1, <2>2
<1>9. Bytes(new, Q) = Total(g, Q) /\ Bytes(entries, Q) = Total(f, Q) BY DEF Bytes
<1> HIDE DEF f, g, Q
<1>10. Total(g, Q) + f[k] = Total(f, Q) + g[k]
  <2>1. k \in Q BY DEF Q
  <2>2. QED BY <1>4, <1>5, <1>6, <2>1, TotalChange
<1>11. Bytes(new, Q) + entries[k].size = Bytes(entries, P) + e.size
  BY <1>7, <1>8, <1>9, <1>10
<1>12. Sized(new, D) BY <1>2, <1>3, <1>4 DEF Sized
<1>13. QED BY <1>3, <1>4, <1>11, <1>12 DEF Q

(* Without evictions nothing is out.                                          *)
LEMMA FitsFacts ==
  ASSUME NEW D \in SUBSET Nat, NEW entries, Sized(entries, D), NEW count \in Nat, NEW key \in D,
         NEW size \in Nat, NEW maxEntries, NEW maxBytes,
         Fits(entries, count, key, size, 0, maxEntries, maxBytes)
  PROVE  /\ key \in Present(entries) \/ Cardinality(Present(entries)) < maxEntries
         /\ count - entries[key].size + size <= maxBytes
<1>1. First(entries, key, 0) = {}
  <2> DEFINE others == Present(entries) \ {key}
  <2>1. SUFFICES ASSUME NEW x \in others,
                        Cardinality({j \in others : Before(entries, j, x)}) <= 0
                 PROVE  FALSE
    BY DEF First
  <2>2. IsFiniteSet(others) BY FS_Subset DEF Sized
  <2>3. {j \in others : Before(entries, j, x)} \subseteq others OBVIOUS
  <2>4. IsFiniteSet({j \in others : Before(entries, j, x)})  BY <2>2, <2>3, FS_Subset
  <2>5. x \in Nat BY PresentFacts DEF Sized
  <2>6. x \in {j \in others : Before(entries, j, x)} BY <2>5 DEF Before
  <2>7. Cardinality({j \in others : Before(entries, j, x)}) \in Nat BY <2>4, FS_CardinalityType
  <2>8. Cardinality({j \in others : Before(entries, j, x)}) = 0 BY <2>1, <2>7
  <2>9. QED BY <2>4, <2>6, <2>8, FS_EmptySet
<1>2. Bytes(entries, {}) = 0
  <2>1. Total([k \in DOMAIN entries |-> entries[k].size], {}) = 0 BY TotalZero
  <2>2. QED BY <2>1 DEF Bytes
<1>3. Present(entries) \ {} = Present(entries) /\ entries[key].size \in Nat BY DEF Sized, EntryType
<1>4. /\ key \in Present(entries) \/ Cardinality(Present(entries) \ {}) < maxEntries
      /\ count - Bytes(entries, {}) - entries[key].size + size <= maxBytes
  BY <1>1 DEF Fits
<1>5. count - 0 = count OBVIOUS
<1>6. QED BY <1>2, <1>3, <1>4, <1>5

LEMMA EvictedFacts ==
  ASSUME NEW entries, NEW count, NEW key, NEW size, NEW maxEntries, NEW maxBytes
  PROVE  Evicted(entries, count, key, size, maxEntries, maxBytes) \subseteq Present(entries) \ {key}
BY DEF Evicted, First

(* The books of a cache in memory: no more is needed, for what is removed is  *)
(* taken off the count by what it holds, and nothing enters that does not fit.*)
CacheOK(cache, D) ==
  /\ cache \in [entries : [D -> EntryType], bytes : Nat] /\ Sized(cache.entries, D)
  /\ cache.bytes = Bytes(cache.entries, Present(cache.entries)) /\ cache.bytes <= MaxBytes
  /\ Cardinality(Present(cache.entries)) <= MaxEntries

LEMMA RemoveOK ==
  ASSUME NEW D, NEW cache, CacheOK(cache, D), NEW keys \in SUBSET D
  PROVE  CacheOK(Remove(cache, keys), D)
<1> DEFINE left == Minus(cache.entries, keys)
<1>1. Sized(cache.entries, D) /\ cache.bytes \in Nat /\ MaxEntries \in Nat /\ MaxBytes \in Nat
  BY BoundedAssumption DEF CacheOK
<1>2. /\ Sized(left, D)
      /\ Bytes(cache.entries, Present(cache.entries))
           = Bytes(left, Present(left)) + Bytes(cache.entries, keys)
      /\ Cardinality(Present(left)) <= Cardinality(Present(cache.entries))
  BY <1>1, MinusFacts
<1>3. Bytes(cache.entries, keys) \in Nat BY <1>1, BytesFacts
<1>4. Bytes(left, Present(left)) \in Nat
  <2>1. Present(left) \subseteq D BY <1>2, PresentFacts DEF Sized
  <2>2. QED BY <1>2, <2>1, BytesFacts
<1>5. Cardinality(Present(left)) \in Nat /\ Cardinality(Present(cache.entries)) \in Nat
  BY <1>1, <1>2, FS_CardinalityType DEF Sized
<1>6. /\ cache.bytes = Bytes(cache.entries, Present(cache.entries)) /\ cache.bytes <= MaxBytes
      /\ Cardinality(Present(cache.entries)) <= MaxEntries
  BY DEF CacheOK
<1> DEFINE b == cache.bytes - Bytes(cache.entries, keys)
<1>7. b = Bytes(left, Present(left)) /\ b <= MaxBytes BY <1>1, <1>2, <1>3, <1>4, <1>6
<1>8. Cardinality(Present(left)) <= MaxEntries BY <1>1, <1>2, <1>5, <1>6
<1>9. left \in [D -> EntryType] BY <1>2 DEF Sized
<1> HIDE DEF left
<1>10. CacheOK([entries |-> left, bytes |-> b], D) BY <1>2, <1>4, <1>7, <1>8, <1>9 DEF CacheOK
<1>11. QED BY <1>10 DEF Remove, left

LEMMA EnterOK ==
  ASSUME NEW D \in SUBSET Nat, NEW cache, CacheOK(cache, D), NEW k \in D, NEW e \in EntryType, e # None,
         Fits(cache.entries, cache.bytes, k, e.size, 0, MaxEntries, MaxBytes)
  PROVE  CacheOK([entries |-> [cache.entries EXCEPT ![k] = e],
                  bytes   |-> cache.bytes + e.size - cache.entries[k].size], D)
<1> DEFINE old == cache.entries
           new == With(old, k, e)
           b   == cache.bytes + e.size - old[k].size
<1>1. /\ Sized(old, D) /\ cache.bytes \in Nat /\ MaxEntries \in Nat /\ MaxBytes \in Nat
      /\ e.size \in Nat /\ old[k].size \in Nat
  BY BoundedAssumption DEF CacheOK, EntryType
<1>2. /\ k \in Present(old) \/ Cardinality(Present(old)) < MaxEntries
      /\ cache.bytes - old[k].size + e.size <= MaxBytes
  BY <1>1, FitsFacts
<1>3. /\ Sized(new, D)
      /\ Bytes(new, Present(new)) + old[k].size = Bytes(old, Present(old)) + e.size
      /\ k \in Present(old) => Cardinality(Present(new)) = Cardinality(Present(old))
      /\ Cardinality(Present(new)) <= Cardinality(Present(old)) + 1
  BY <1>1, EnterFacts
<1>4. Bytes(new, Present(new)) \in Nat
  <2>1. Present(new) \subseteq D BY <1>3, PresentFacts DEF Sized
  <2>2. QED BY <1>3, <2>1, BytesFacts
<1>5. Cardinality(Present(new)) \in Nat /\ Cardinality(Present(old)) \in Nat
  BY <1>1, <1>3, FS_CardinalityType DEF Sized
<1>6. cache.bytes = Bytes(old, Present(old)) /\ Cardinality(Present(old)) <= MaxEntries
  BY DEF CacheOK
<1>7. b = Bytes(new, Present(new)) /\ b <= MaxBytes BY <1>1, <1>2, <1>3, <1>4, <1>6
<1>8. Cardinality(Present(new)) <= MaxEntries BY <1>1, <1>2, <1>3, <1>5, <1>6
<1>9. new \in [D -> EntryType] BY <1>3 DEF Sized
<1> HIDE DEF new, b
<1>10. CacheOK([entries |-> new, bytes |-> b], D) BY <1>3, <1>4, <1>7, <1>8, <1>9 DEF CacheOK
<1>11. QED BY <1>10 DEF new, b, With

(* What every insertion does: what expired goes, then what makes room, then   *)
(* the entry takes its place unless it still does not fit.                    *)
LEMMA InsertOK ==
  ASSUME NEW D \in SUBSET Nat, NEW cache, CacheOK(cache, D), NEW k \in D, NEW e \in EntryType, e # None,
         NEW old \in SUBSET D
  PROVE  LET live == Remove(cache, old)
             kept == Remove(live, Evicted(live.entries, live.bytes, k, e.size, MaxEntries, MaxBytes))
         IN  /\ CacheOK(kept, D)
             /\ Fits(kept.entries, kept.bytes, k, e.size, 0, MaxEntries, MaxBytes)
                  => CacheOK([entries |-> [kept.entries EXCEPT ![k] = e],
                              bytes   |-> kept.bytes + e.size - kept.entries[k].size], D)
<1> DEFINE live == Remove(cache, old)
           out  == Evicted(live.entries, live.bytes, k, e.size, MaxEntries, MaxBytes)
           kept == Remove(live, out)
<1>1. CacheOK(live, D) BY RemoveOK
<1> HIDE DEF live
<1>2. out \subseteq D
  <2>1. Present(live.entries) \subseteq D BY <1>1, PresentFacts DEF CacheOK, Sized
  <2>2. QED BY <2>1, EvictedFacts
<1> HIDE DEF out
<1>3. CacheOK(kept, D) BY <1>1, <1>2, RemoveOK
<1> HIDE DEF kept
<1>4. Fits(kept.entries, kept.bytes, k, e.size, 0, MaxEntries, MaxBytes)
        => CacheOK([entries |-> [kept.entries EXCEPT ![k] = e],
                    bytes   |-> kept.bytes + e.size - kept.entries[k].size], D)
  BY <1>3, EnterOK
<1>5. QED BY <1>3, <1>4 DEF live, out, kept

CachesInv ==
  /\ clock \in Nat /\ CacheOK(responses, Keys) /\ CacheOK(dns, Names)
  /\ \A l \in Lookups : lookups[l].step = "asked" => lookups[l].name \in Names

LEMMA EmptyCacheOK ==
  ASSUME NEW D
  PROVE  CacheOK([entries |-> [k \in D |-> None], bytes |-> 0], D)
<1> DEFINE none == [k \in D |-> None]
<1>1. none \in [D -> EntryType] /\ Present(none) = {} BY PresentFacts DEF Present
<1>2. IsFiniteSet(Present(none)) /\ Cardinality(Present(none)) = 0 BY <1>1, FS_EmptySet
<1>3. Bytes(none, {}) = 0
  <2>1. Total([k \in DOMAIN none |-> none[k].size], {}) = 0 BY TotalZero
  <2>2. QED BY <2>1 DEF Bytes
<1>4. MaxEntries \in Nat /\ MaxBytes \in Nat BY BoundedAssumption
<1> HIDE DEF none
<1>5. CacheOK([entries |-> none, bytes |-> 0], D) BY <1>1, <1>2, <1>3, <1>4 DEF CacheOK, Sized
<1>6. QED BY <1>5 DEF none

LEMMA CachesStep == CachesInv /\ [CachesNext]_cacheVars => CachesInv'
<1> SUFFICES ASSUME CachesInv, [CachesNext]_cacheVars PROVE CachesInv' OBVIOUS
<1>1. /\ clock \in Nat /\ CacheOK(responses, Keys) /\ CacheOK(dns, Names)
      /\ \A l \in Lookups : lookups[l].step = "asked" => lookups[l].name \in Names
  BY DEF CachesInv
<1>2. Keys \subseteq Nat /\ Names \subseteq Nat /\ Sizes \subseteq Nat \ {0}
  BY BoundedAssumption, CachesAssumption
<1>3. /\ Expired(responses.entries, clock) \subseteq Keys
      /\ Expired(dns.entries, clock) \subseteq Names
  BY <1>1, PresentFacts DEF Expired, CacheOK, Sized
<1>4. \A size \in Sizes, at \in Int : Entry(size, at) \in EntryType /\ Entry(size, at) # None
                                     /\ Entry(size, at).size = size
  BY <1>2 DEF Entry, EntryType, None
<1>5. CASE UNCHANGED cacheVars BY <1>1, <1>5 DEF cacheVars, CachesInv
<1>6. CASE Tick BY <1>1, <1>6 DEF Tick, CachesInv
<1>7. ASSUME NEW keys \in SUBSET Keys, responses' = Remove(responses, keys),
             UNCHANGED <<clock, dns, lookups>>
      PROVE  CachesInv'
  BY <1>1, <1>7, RemoveOK DEF CachesInv
<1>8. CASE CacheStats BY <1>3, <1>7, <1>8 DEF CacheStats
<1>9. CASE PurgeAll BY <1>7, <1>9 DEF PurgeAll
<1>10. ASSUME NEW k \in Keys, GetResponse(k) PROVE CachesInv' BY <1>7, <1>10 DEF GetResponse
<1>11. ASSUME NEW k \in Keys, PurgeDomain(HostOf[k]) PROVE CachesInv' BY <1>7, <1>11 DEF PurgeDomain
<1>12. ASSUME NEW k \in Keys, NEW size \in Sizes, NEW ttl \in 0 .. 2, PutResponse(k, Entry(size, clock + ttl))
       PROVE  CachesInv'
  <2> DEFINE e == Entry(size, clock + ttl)
  <2>1. e \in EntryType /\ e # None BY <1>1, <1>4
  <2>2. Expired(responses.entries, clock) \ {k} \in SUBSET Keys BY <1>3
  <2> HIDE DEF e
  <2>3. PutResponse(k, e) BY <1>12 DEF e
  <2>4. CacheOK(responses', Keys) /\ UNCHANGED <<clock, dns, lookups>>
    BY <1>1, <1>2, <2>1, <2>2, <2>3, InsertOK DEF PutResponse
  <2>5. QED BY <1>1, <2>4 DEF CachesInv
<1>13. ASSUME NEW l \in Lookups, NEW name \in Names, LookUp(l, name) PROVE CachesInv'
  <2>1. CacheOK(dns', Names) BY <1>1, <1>3, <1>13, RemoveOK DEF LookUp
  <2>2. \A m \in Lookups : lookups'[m].step = "asked" => lookups'[m].name \in Names
    BY <1>1, <1>13 DEF LookUp
  <2>3. QED BY <1>1, <1>13, <2>1, <2>2 DEF LookUp, CachesInv
<1>14. ASSUME NEW l \in Lookups, NoAnswer(l) PROVE CachesInv' BY <1>1, <1>14 DEF NoAnswer, CachesInv
<1>15. ASSUME NEW l \in Lookups, NEW size \in Sizes, NEW at \in 0 .. clock, Insert(l, size, at + 1)
       PROVE  CachesInv'
  <2> DEFINE e == Entry(size, at + 1)
             k == lookups[l].name
  <2>1. e \in EntryType /\ e # None /\ e.size = size BY <1>1, <1>4
  <2>2. k \in Names BY <1>1, <1>15 DEF Insert
  <2>3. \A m \in Lookups : lookups'[m].step = "asked" => lookups'[m].name \in Names
    BY <1>1, <1>15 DEF Insert
  <2>4. UNCHANGED <<clock, responses>> BY <1>15 DEF Insert
  <2>5. CacheOK(dns', Names)
    BY <1>1, <1>2, <1>3, <1>15, <2>1, <2>2, InsertOK DEF Insert
  <2>6. QED BY <1>1, <2>3, <2>4, <2>5 DEF CachesInv
<1>16. QED
  BY <1>5, <1>6, <1>8, <1>9, <1>10, <1>11, <1>12, <1>13, <1>14, <1>15 DEF CachesNext

LEMMA CachesStart == CachesInit => CachesInv
<1> SUFFICES ASSUME CachesInit PROVE CachesInv OBVIOUS
<1>1. CacheOK(responses, Keys) /\ CacheOK(dns, Names) BY EmptyCacheOK DEF CachesInit
<1>2. QED BY <1>1 DEF CachesInit, CachesInv

LEMMA CachesInvCounts == CachesInv => CountsExact
BY DEF CachesInv, CacheOK, CountsExact

(* The byte counts of the caches in memory are exact and their limits hold,   *)
(* for any keys, sizes, expiries and any number of lookups of one name.       *)
THEOREM CountsKept == CachesSpec => []CountsExact
BY CachesStart, CachesStep, CachesInvCounts, PTL DEF CachesSpec

-----------------------------------------------------------------------------
(* The cache on disk.                                                         *)

DiskEntries == [size : Nat, expires : Int, version : 1 .. MaxPuts] \cup {None}

(* An index and a count that is at least what it holds.                       *)
Held(entries, count) ==
  /\ entries \in [Keys -> DiskEntries] /\ IsFiniteSet(Present(entries)) /\ count \in Nat
  /\ Bytes(entries, Present(entries)) <= count

Within(entries, count) == count <= MaxBytes /\ Cardinality(Present(entries)) <= MaxEntries

LEMMA DiskFacts ==
  /\ None \in DiskEntries /\ DiskEntries \subseteq EntryType /\ None.size = 0 /\ None.version = 0
  /\ None.expires = 0 - 1
  /\ MaxEntries \in Nat /\ MaxBytes \in Nat /\ Keys \subseteq Nat /\ MaxPuts \in Nat
  /\ IsFiniteSet(Keys)
BY BoundedAssumption, DiskAssumption DEF DiskEntries, EntryType, None

LEMMA HeldFacts ==
  ASSUME NEW entries, NEW count, Held(entries, count)
  PROVE  /\ Sized(entries, Keys) /\ Present(entries) \subseteq Keys
         /\ Bytes(entries, Present(entries)) \in Nat /\ Cardinality(Present(entries)) \in Nat
<1>1. Sized(entries, Keys) BY DiskFacts DEF Held, Sized
<1>2. Present(entries) \subseteq Keys BY <1>1, PresentFacts DEF Sized
<1>3. Cardinality(Present(entries)) \in Nat BY FS_CardinalityType DEF Held
<1>4. QED BY <1>1, <1>2, <1>3, BytesFacts

LEMMA HeldMinus ==
  ASSUME NEW entries, NEW count, Held(entries, count), NEW keys \in SUBSET Keys
  PROVE  /\ Held(Minus(entries, keys), count - Bytes(entries, keys))
         /\ count - Bytes(entries, keys) <= count
         /\ Present(Minus(entries, keys)) = Present(entries) \ keys
         /\ Cardinality(Present(Minus(entries, keys))) <= Cardinality(Present(entries))
<1> DEFINE left == Minus(entries, keys)
<1>1. Sized(entries, Keys) BY HeldFacts
<1>2. /\ Sized(left, Keys) /\ Present(left) = Present(entries) \ keys
      /\ Bytes(entries, Present(entries)) = Bytes(left, Present(left)) + Bytes(entries, keys)
      /\ Cardinality(Present(left)) <= Cardinality(Present(entries))
  BY <1>1, MinusFacts
<1>3. Bytes(entries, keys) \in Nat BY <1>1, BytesFacts
<1>4. Bytes(left, Present(left)) \in Nat
  <2>1. Present(left) \subseteq Keys BY <1>2, PresentFacts DEF Sized
  <2>2. QED BY <1>2, <2>1, BytesFacts
<1>5. count \in Nat /\ Bytes(entries, Present(entries)) <= count BY DEF Held
<1>6. left \in [Keys -> DiskEntries] BY DiskFacts DEF Held, Minus
<1> HIDE DEF left
<1>7. /\ count - Bytes(entries, keys) \in Nat /\ count - Bytes(entries, keys) <= count
      /\ Bytes(left, Present(left)) <= count - Bytes(entries, keys)
  BY <1>2, <1>3, <1>4, <1>5
<1>8. Held(left, count - Bytes(entries, keys)) BY <1>2, <1>6, <1>7 DEF Held, Sized
<1>9. QED BY <1>2, <1>7, <1>8 DEF left

LEMMA WithinMinus ==
  ASSUME NEW entries, NEW count, Held(entries, count), Within(entries, count), NEW keys \in SUBSET Keys
  PROVE  Within(Minus(entries, keys), count - Bytes(entries, keys))
<1> DEFINE left == Minus(entries, keys)
           less == count - Bytes(entries, keys)
<1>1. /\ Held(left, less) /\ less <= count
      /\ Cardinality(Present(left)) <= Cardinality(Present(entries))
  BY HeldMinus
<1>2. less \in Nat /\ count \in Nat /\ MaxBytes \in Nat /\ MaxEntries \in Nat
  BY <1>1, DiskFacts DEF Held
<1>3. Cardinality(Present(left)) \in Nat /\ Cardinality(Present(entries)) \in Nat
  BY <1>1, HeldFacts
<1> HIDE DEF left, less
<1>4. Within(left, less) BY <1>1, <1>2, <1>3 DEF Within
<1>5. QED BY <1>4 DEF left, less

LEMMA HeldEnter ==
  ASSUME NEW entries, NEW count, Held(entries, count), NEW k \in Keys, NEW e \in DiskEntries \ {None},
         NEW new, new = With(entries, k, e)
  PROVE  /\ Held(new, count + e.size - entries[k].size) /\ Held(new, count + e.size)
         /\ Present(new) = Present(entries) \cup {k}
         /\ k \in Present(entries) => Cardinality(Present(new)) = Cardinality(Present(entries))
         /\ Cardinality(Present(new)) <= Cardinality(Present(entries)) + 1
<1>1. Sized(entries, Keys) /\ e \in EntryType /\ e # None BY HeldFacts, DiskFacts
<1>2. /\ Sized(new, Keys) /\ Present(new) = Present(entries) \cup {k}
      /\ Bytes(new, Present(new)) + entries[k].size = Bytes(entries, Present(entries)) + e.size
      /\ k \in Present(entries) => Cardinality(Present(new)) = Cardinality(Present(entries))
      /\ Cardinality(Present(new)) <= Cardinality(Present(entries)) + 1
  BY <1>1, EnterFacts
<1>3. e.size \in Nat /\ entries[k].size \in Nat BY <1>1 DEF Sized, EntryType
<1>4. Bytes(new, Present(new)) \in Nat
  <2>1. Present(new) \subseteq Keys BY <1>2, PresentFacts DEF Sized
  <2>2. QED BY <1>2, <2>1, BytesFacts
<1>5. count \in Nat /\ Bytes(entries, Present(entries)) <= count BY DEF Held
<1>6. Bytes(entries, Present(entries)) \in Nat BY HeldFacts
<1>7. new \in [Keys -> DiskEntries] BY DEF Held, With
<1>8. /\ count + e.size - entries[k].size \in Nat /\ count + e.size \in Nat
      /\ Bytes(new, Present(new)) <= count + e.size - entries[k].size
      /\ Bytes(new, Present(new)) <= count + e.size
  BY <1>2, <1>3, <1>4, <1>5, <1>6
<1>9. Held(new, count + e.size - entries[k].size) /\ Held(new, count + e.size)
  BY <1>2, <1>7, <1>8 DEF Held, Sized
<1>10. QED BY <1>2, <1>9

-----------------------------------------------------------------------------
(* The inductive invariant. Between the steps of a Put the files of its key   *)
(* are where its step says; of every other key the file is what the index     *)
(* says, unless the code knowingly left one behind.                           *)

At(k) == IF put.key = k THEN put.step ELSE "none"

FilesOK ==
  \A k \in Keys \ strays :
    /\ At(k) \in {"none", "clear", "aside"} => files[k] = index[k] /\ olds[k] = None
    /\ At(k) = "move"  => files[k] = None /\ olds[k] = index[k]
    /\ At(k) = "tidy"  => files[k] = put.entry /\ olds[k] = index[k]
    /\ At(k) = "enter" => files[k] = put.entry /\ olds[k] = None

Steps == {"clear", "aside", "move", "tidy", "enter"}

(* The room a Put made is still there when its entry enters.                  *)
PutOK ==
  \/ put.step = "none"
  \/ /\ put \in [step : Steps, key : Keys, entry : DiskEntries \ {None}, existed : BOOLEAN]
     /\ put.step # "enter" => put.existed = (put.key \in Present(index))
     /\ put.step \in {"clear", "aside", "tidy"} => put.existed
     /\ put.key \in Present(index) \/ Cardinality(Present(index)) < MaxEntries
     /\ bytes - index[put.key].size + put.entry.size <= MaxBytes

DiskInv ==
  /\ clock \in Nat /\ puts \in 0 .. MaxPuts
  /\ files \in [Keys -> DiskEntries] /\ olds \in [Keys -> DiskEntries]
  /\ Held(index, bytes) /\ Within(index, bytes)
  /\ last = [k \in Keys |-> index[k].version]
  /\ PutOK /\ FilesOK

LEMMA DiskInvSound == DiskInv => DiskSound
<1> SUFFICES ASSUME DiskInv PROVE DiskSound OBVIOUS
<1>1. /\ index \in [Keys -> DiskEntries] /\ files \in [Keys -> DiskEntries]
      /\ olds \in [Keys -> DiskEntries] /\ bytes \in Nat /\ clock \in Nat
      /\ last = [k \in Keys |-> index[k].version]
  BY DEF DiskInv, Held
<1>2. DiskTypeOK
  <2>1. DiskEntries \subseteq [size : Nat, expires : Int, version : 0 .. MaxPuts]
    BY DiskFacts DEF DiskEntries, None
  <2>2. put.step \in {"none", "clear", "aside", "move", "tidy", "enter"} BY DEF DiskInv, PutOK, Steps
  <2>3. QED BY <1>1, <2>1, <2>2 DEF DiskTypeOK
<1>3. DiskWithinLimits BY DEF DiskInv, Held, Within, DiskWithinLimits
<1>4. ASSUME NEW k \in Keys \ strays PROVE
        /\ \/ Recovered[k] = index[k]
           \/ put.key = k /\ Recovered[k] = put.entry /\ put.entry # None
        /\ index[k] # None => Recovered[k] # None
  <2>1. /\ At(k) \in {"none", "clear", "aside"} => files[k] = index[k] /\ olds[k] = None
        /\ At(k) = "move"  => files[k] = None /\ olds[k] = index[k]
        /\ At(k) = "tidy"  => files[k] = put.entry /\ olds[k] = index[k]
        /\ At(k) = "enter" => files[k] = put.entry /\ olds[k] = None
    BY DEF DiskInv, FilesOK
  <2>2. \/ At(k) = "none"
        \/ /\ put.key = k /\ put.entry # None
           /\ At(k) \in {"clear", "aside", "move", "tidy", "enter"}
    <3>1. CASE put.step = "none" BY <3>1 DEF At
    <3>2. CASE put.step # "none"
      <4>1. /\ put.step \in {"clear", "aside", "move", "tidy", "enter"}
            /\ put.entry \in DiskEntries \ {None}
        BY <3>2 DEF DiskInv, PutOK, Steps
      <4>2. QED BY <4>1 DEF At
    <3>3. QED BY <3>1, <3>2
  <2>3. Recovered[k] = IF files[k] = None THEN olds[k] ELSE files[k] BY DEF Recovered
  <2>4. CASE At(k) \in {"none", "clear", "aside"} BY <2>1, <2>3, <2>4
  <2>5. CASE At(k) = "move" BY <2>1, <2>3, <2>5
  <2>6. CASE At(k) \in {"tidy", "enter"}
    <3>1. files[k] = put.entry /\ put.key = k /\ put.entry # None BY <2>1, <2>2, <2>6
    <3>2. QED BY <2>3, <3>1
  <2>7. QED BY <2>2, <2>4, <2>5, <2>6
<1>5. RestartIsCurrent
  <2>1. SUFFICES ASSUME NEW k \in Keys \ strays, Recovered[k].expires > clock, Recovered[k] = index[k]
                 PROVE  Recovered[k].version = last[k] /\ last[k] > 0
    BY <1>4 DEF RestartIsCurrent
  <2>2. index[k] # None BY <1>1, <2>1, DiskFacts
  <2>3. index[k].version \in 1 .. MaxPuts BY <1>1, <2>2 DEF DiskEntries
  <2>4. QED BY <1>1, <2>1, <2>3, DiskFacts
<1>6. NothingLost
  <2>1. Present(index) \subseteq Keys BY HeldFacts DEF DiskInv
  <2>2. QED BY <1>4, <2>1 DEF NothingLost, Present
<1>7. QED BY <1>2, <1>3, <1>5, <1>6 DEF DiskSound

-----------------------------------------------------------------------------
(* Keys leave the index and the directory.                                    *)

(* The keys in `failing` leave their files, which become strays.              *)
LEMMA ForgetOK ==
  ASSUME DiskInv, Unlocked, NEW keys \in SUBSET Keys, NEW failing, ForgetFiles(keys, failing),
         UNCHANGED olds
  PROVE  /\ Held(index', bytes') /\ Within(index', bytes')
         /\ files' \in [Keys -> DiskEntries] /\ olds' \in [Keys -> DiskEntries]
         /\ last' = [k \in Keys |-> index'[k].version]
         /\ \A k \in Keys \ strays' : files'[k] = index'[k] /\ olds'[k] = None
         /\ \A k \in Keys \ keys : index'[k] = index[k]
<1>1. /\ index' = Minus(index, keys) /\ bytes' = bytes - Bytes(index, keys)
      /\ files' = Minus(files, keys \ failing)
      /\ strays' = strays \cup {k \in keys \cap failing : files[k] # None}
      /\ last' = [k \in Keys |-> IF k \in keys THEN 0 ELSE last[k]]
  BY DEF ForgetFiles
<1>2. /\ Held(index, bytes) /\ Within(index, bytes) /\ index \in [Keys -> DiskEntries]
      /\ files \in [Keys -> DiskEntries] /\ olds \in [Keys -> DiskEntries]
      /\ last = [k \in Keys |-> index[k].version]
  BY DEF DiskInv, Held
<1>3. Held(index', bytes') /\ Within(index', bytes') BY <1>1, <1>2, HeldMinus, WithinMinus
<1>4. \A k \in Keys : /\ index'[k] = IF k \in keys THEN None ELSE index[k]
                      /\ files'[k] = IF k \in keys \ failing THEN None ELSE files[k]
  BY <1>1, <1>2 DEF Minus
<1>5. files' \in [Keys -> DiskEntries] BY <1>1, <1>2, DiskFacts DEF Minus
<1>6. last' = [k \in Keys |-> index'[k].version] BY <1>1, <1>2, <1>4, DiskFacts
<1>7. ASSUME NEW k \in Keys \ strays' PROVE files'[k] = index'[k] /\ olds'[k] = None
  <2>1. k \notin strays /\ ~(k \in keys \cap failing /\ files[k] # None) BY <1>1, <1>7
  <2>2. files[k] = index[k] /\ olds[k] = None BY <2>1 DEF DiskInv, FilesOK, At, Unlocked
  <2>3. QED BY <1>4, <2>1, <2>2
<1>8. QED BY <1>2, <1>3, <1>4, <1>5, <1>6, <1>7

(* They leave, and a Put begins or none does.                                 *)
LEMMA ForgetBegins ==
  ASSUME DiskInv, Unlocked, NEW keys \in SUBSET Keys, NEW failing, ForgetFiles(keys, failing),
         UNCHANGED <<clock, olds>>, puts' \in 0 .. MaxPuts, PutOK',
         \/ put'.step \in {"none", "clear"}
         \/ put'.step = "move" /\ index'[put'.key] = None
  PROVE  DiskInv'
<1>1. /\ Held(index', bytes') /\ Within(index', bytes')
      /\ files' \in [Keys -> DiskEntries] /\ olds' \in [Keys -> DiskEntries]
      /\ last' = [k \in Keys |-> index'[k].version]
      /\ \A k \in Keys \ strays' : files'[k] = index'[k] /\ olds'[k] = None
  BY ForgetOK
<1>2. clock' \in Nat BY DEF DiskInv
<1>3. FilesOK'
  <2>1. ASSUME NEW k \in Keys \ strays' 
               PROVE  \/ At(k)' \in {"none", "clear"}
                      \/ At(k)' = "move" /\ index'[k] = None
    BY DEF At
  <2>2. QED BY <1>1, <2>1 DEF FilesOK
<1>4. QED BY <1>1, <1>2, <1>3 DEF DiskInv

LEMMA ForgetKeeps ==
  ASSUME DiskInv, Unlocked, NEW keys \in SUBSET Keys, NEW failing, ForgetFiles(keys, failing),
         UNCHANGED <<clock, olds, put, puts>>
  PROVE  DiskInv'
<1>1. put'.step = "none" /\ PutOK' BY DEF Unlocked, PutOK
<1>2. puts' \in 0 .. MaxPuts BY DEF DiskInv
<1>3. QED BY <1>1, <1>2, ForgetBegins

LEMMA MinusMinus ==
  ASSUME NEW entries, NEW one, NEW other
  PROVE  Minus(Minus(entries, one), other) = Minus(entries, one \cup other)
BY DEF Minus

LEMMA BeginPutKeeps ==
  ASSUME DiskInv, NEW k \in Keys, NEW size \in Sizes, NEW expires \in Int, BeginPut(k, size, expires)
  PROVE  DiskInv'
<1> DEFINE old == Expired(index, clock) \ {k}
           live == Minus(index, old)
           room == Evicted(live, bytes - Bytes(index, old), k, size, MaxEntries, MaxBytes)
           keys == old \cup room
           left == bytes - Bytes(index, keys)
           rest == Minus(index, keys)
           it   == [size |-> size, expires |-> expires, version |-> puts + 1]
<1>1. /\ Unlocked /\ puts < MaxPuts /\ puts' = puts + 1 /\ UNCHANGED <<clock, olds>>
      /\ \/ /\ ForgetFiles(keys, {})
            /\ put' = IF Fits(Minus(live, room), left, k, size, 0, MaxEntries, MaxBytes)
                      THEN [step |-> IF k \in Present(index) THEN "clear" ELSE "move",
                            key |-> k, entry |-> it, existed |-> k \in Present(index)]
                      ELSE NoPut
         \/ ForgetFiles(old, {}) /\ put' = NoPut
  BY DEF BeginPut
<1>2. Held(index, bytes) /\ puts \in 0 .. MaxPuts BY DEF DiskInv
<1>3. old \in SUBSET Keys /\ k \notin old
  <2>1. Present(index) \subseteq Keys BY <1>2, HeldFacts
  <2>2. QED BY <2>1 DEF Expired
<1>4. puts' \in 0 .. MaxPuts BY <1>1, <1>2, DiskFacts
<1>5. it \in DiskEntries \ {None} /\ it.size = size
  <2>1. size \in Nat /\ puts + 1 \in 1 .. MaxPuts /\ 1 \notin {0}
    BY <1>1, <1>2, DiskFacts, BoundedAssumption
  <2>2. it.version # 0 BY <2>1
  <2>3. QED BY <2>1, <2>2, DiskFacts DEF DiskEntries
<1>6. Minus(live, room) = rest BY MinusMinus
<1>7. room \subseteq Keys \ {k}
  <2>1. Present(live) = Present(index) \ old BY <1>2, <1>3, HeldMinus
  <2>2. Present(index) \subseteq Keys BY <1>2, HeldFacts
  <2>3. room \subseteq Present(live) \ {k} BY EvictedFacts
  <2>4. QED BY <2>1, <2>2, <2>3
<1> HIDE DEF room, old, it
<1>8. CASE ForgetFiles(old, {}) /\ put' = NoPut
  <2>1. put'.step = "none" /\ PutOK' BY <1>8 DEF NoPut, PutOK
  <2>2. QED BY <1>1, <1>3, <1>4, <1>8, <2>1, ForgetBegins
<1>9. CASE ForgetFiles(keys, {}) /\ put' = NoPut
  <2>1. put'.step = "none" /\ PutOK' BY <1>9 DEF NoPut, PutOK
  <2>2. QED BY <1>1, <1>3, <1>4, <1>7, <1>9, <2>1, ForgetBegins
<1>10. CASE /\ ForgetFiles(keys, {}) /\ Fits(Minus(live, room), left, k, size, 0, MaxEntries, MaxBytes)
            /\ put' = [step |-> IF k \in Present(index) THEN "clear" ELSE "move",
                       key |-> k, entry |-> it, existed |-> k \in Present(index)]
  <2>1. keys \in SUBSET Keys /\ k \notin keys BY <1>3, <1>7
  <2>2. index' = rest /\ bytes' = left BY <1>10 DEF ForgetFiles
  <2>3. /\ Held(rest, left) /\ Present(rest) = Present(index) \ keys
    BY <1>2, <2>1, HeldMinus
  <2>4. rest[k] = index[k] BY <1>2, <2>1 DEF Minus, Held
  <2> HIDE DEF keys, left, rest
  <2>5. Sized(rest, Keys) /\ left \in Nat /\ rest[k].size \in Nat /\ size \in Nat
    BY <2>3, HeldFacts, BoundedAssumption DEF Held, Sized, EntryType
  <2>6. /\ k \in Present(rest) \/ Cardinality(Present(rest)) < MaxEntries
        /\ left - rest[k].size + size <= MaxBytes
    BY <1>6, <1>10, <2>5, DiskFacts, FitsFacts
  <2>7. k \in Present(rest) <=> k \in Present(index) BY <2>1, <2>3
  <2>8. /\ put'.key = k /\ put'.entry = it /\ put'.existed = (k \in Present(index))
        /\ put'.step = IF k \in Present(index) THEN "clear" ELSE "move"
        /\ put' \in [step : Steps, key : Keys, entry : DiskEntries \ {None}, existed : BOOLEAN]
    <3> DEFINE step == IF k \in Present(index) THEN "clear" ELSE "move"
               there == k \in Present(index)
    <3>1. there \in BOOLEAN OBVIOUS
    <3>2. put' = [step |-> step, key |-> k, entry |-> it, existed |-> there] BY <1>10
    <3>3. step = "clear" \/ step = "move" OBVIOUS
    <3> HIDE DEF step, there
    <3>4. step \in Steps BY <3>3 DEF Steps
    <3>5. /\ put'.key = k /\ put'.entry = it /\ put'.existed = there /\ put'.step = step
          /\ put' \in [step : Steps, key : Keys, entry : DiskEntries \ {None}, existed : BOOLEAN]
      BY <1>5, <3>1, <3>2, <3>4
    <3>6. QED BY <3>5 DEF step, there
  <2>9. PutOK'
    <3>1. put'.existed = (put'.key \in Present(index')) BY <2>2, <2>7, <2>8
    <3>2. put'.step \in {"clear", "aside", "tidy"} => put'.existed BY <2>8
    <3>3. /\ put'.key \in Present(index') \/ Cardinality(Present(index')) < MaxEntries
          /\ bytes' - index'[put'.key].size + put'.entry.size <= MaxBytes
      BY <1>5, <2>2, <2>6, <2>8
    <3>4. put'.step \in {"clear", "move"} BY <2>8
    <3>5. QED BY <2>8, <3>1, <3>2, <3>3, <3>4 DEF PutOK, Steps
  <2>10. k \notin Present(index) => index[k] = None BY <1>2 DEF Present, Held
  <2>11. put'.step = "clear" \/ (put'.step = "move" /\ index'[put'.key] = None)
    BY <2>2, <2>4, <2>8, <2>10
  <2>12. QED BY <1>1, <1>4, <1>10, <2>1, <2>9, <2>11, ForgetBegins
<1>11. QED BY <1>1, <1>8, <1>9, <1>10

-----------------------------------------------------------------------------
(* The steps of a Put.                                                        *)

LEMMA PutFacts ==
  ASSUME DiskInv, put.step # "none"
  PROVE  /\ put.key \in Keys /\ put.entry \in DiskEntries \ {None} /\ put.step \in Steps
         /\ put \in [step : Steps, key : Keys, entry : DiskEntries \ {None}, existed : BOOLEAN]
         /\ put.step # "enter" => put.existed = (put.key \in Present(index))
         /\ put.step \in {"clear", "aside", "tidy"} => put.existed
         /\ put.key \in Present(index) \/ Cardinality(Present(index)) < MaxEntries
         /\ bytes - index[put.key].size + put.entry.size <= MaxBytes
         /\ At(put.key) = put.step
BY DEF DiskInv, PutOK, At

(* A step to another moves files of its key only, and leaves the index.       *)
LEMMA StepKeeps ==
  ASSUME DiskInv, put.step # "none", PutKeeps, strays \subseteq strays',
         files' \in [Keys -> DiskEntries], olds' \in [Keys -> DiskEntries],
         \A k \in Keys \ {put.key} : files'[k] = files[k] /\ olds'[k] = olds[k],
         NEW s, put' = [put EXCEPT !.step = s] \/ (put' = NoPut /\ s = "none"),
         /\ s \in Steps \cup {"none"}
         /\ s \in Steps => (put.step # "enter" \/ s = "enter")
         /\ s \in {"clear", "aside", "tidy"} => put.existed,
         put.key \notin strays' =>
           /\ s \in {"none", "clear", "aside"} => files'[put.key] = index[put.key] /\ olds'[put.key] = None
           /\ s = "move"  => files'[put.key] = None /\ olds'[put.key] = index[put.key]
           /\ s = "tidy"  => files'[put.key] = put.entry /\ olds'[put.key] = index[put.key]
           /\ s = "enter" => files'[put.key] = put.entry /\ olds'[put.key] = None
  PROVE  DiskInv'
<1>1. /\ put.key \in Keys /\ put.step \in Steps
      /\ put \in [step : Steps, key : Keys, entry : DiskEntries \ {None}, existed : BOOLEAN]
      /\ put.step # "enter" => put.existed = (put.key \in Present(index))
      /\ put.key \in Present(index) \/ Cardinality(Present(index)) < MaxEntries
      /\ bytes - index[put.key].size + put.entry.size <= MaxBytes
  BY PutFacts
<1>2. /\ UNCHANGED <<clock, index, bytes, puts, last>> BY DEF PutKeeps, indexVars
<1>3. /\ clock' \in Nat /\ puts' \in 0 .. MaxPuts /\ Held(index', bytes') /\ Within(index', bytes')
      /\ last' = [k \in Keys |-> index'[k].version]
  BY <1>2 DEF DiskInv
<1>4. /\ put'.step = s
      /\ s \in Steps => put'.key = put.key /\ put'.entry = put.entry /\ put'.existed = put.existed
                        /\ put' \in [step : Steps, key : Keys, entry : DiskEntries \ {None},
                                     existed : BOOLEAN]
  <2>1. CASE put' = [put EXCEPT !.step = s] BY <1>1, <2>1
  <2>2. CASE put' = NoPut /\ s = "none" BY <2>2 DEF NoPut, Steps
  <2>3. QED BY <2>1, <2>2
<1>5. PutOK'
  <2>1. CASE s = "none" BY <1>4, <2>1 DEF PutOK
  <2>2. CASE s \in Steps
    <3>1. /\ put'.step # "enter" => put'.existed = (put'.key \in Present(index'))
          /\ put'.step \in {"clear", "aside", "tidy"} => put'.existed
          /\ put'.key \in Present(index') \/ Cardinality(Present(index')) < MaxEntries
          /\ bytes' - index'[put'.key].size + put'.entry.size <= MaxBytes
      BY <1>1, <1>2, <1>4, <2>2
    <3>2. QED BY <1>4, <2>2, <3>1 DEF PutOK
  <2>3. QED BY <2>1, <2>2
<1>6. FilesOK'
  <2>1. SUFFICES ASSUME NEW k \in Keys \ strays'
                 PROVE  /\ At(k)' \in {"none", "clear", "aside"} => files'[k] = index'[k] /\ olds'[k] = None
                        /\ At(k)' = "move"  => files'[k] = None /\ olds'[k] = index'[k]
                        /\ At(k)' = "tidy"  => files'[k] = put'.entry /\ olds'[k] = index'[k]
                        /\ At(k)' = "enter" => files'[k] = put'.entry /\ olds'[k] = None
    BY DEF FilesOK
  <2>2. CASE k = put.key
    <3>1. At(k)' = s
      <4>1. CASE s = "none" BY <1>4, <4>1 DEF At
      <4>2. CASE s \in Steps BY <1>4, <2>2, <4>2 DEF At
      <4>3. QED BY <4>1, <4>2
    <3>2. s \in Steps => put'.entry = put.entry BY <1>4
    <3>3. index' = index BY <1>2
    <3>4. QED BY <2>2, <3>1, <3>2, <3>3 DEF Steps
  <2>3. CASE k # put.key
    <3>1. At(k) = "none" /\ At(k)' = "none"
      <4>1. CASE s = "none" BY <1>4, <2>3, <4>1 DEF At
      <4>2. CASE s \in Steps BY <1>4, <2>3, <4>2 DEF At
      <4>3. QED BY <4>1, <4>2
    <3>2. k \in Keys \ strays OBVIOUS
    <3>3. files[k] = index[k] /\ olds[k] = None BY <3>1, <3>2 DEF DiskInv, FilesOK
    <3>4. files'[k] = files[k] /\ olds'[k] = olds[k] /\ index' = index BY <1>2, <2>3
    <3>5. QED BY <3>1, <3>3, <3>4
  <2>4. QED BY <2>2, <2>3
<1>7. QED BY <1>3, <1>5, <1>6 DEF DiskInv

LEMMA FilesFacts ==
  ASSUME DiskInv, put.step # "none", put.key \notin strays
  PROVE  /\ put.step \in {"clear", "aside"} => files[put.key] = index[put.key] /\ olds[put.key] = None
         /\ put.step = "move"  => files[put.key] = None /\ olds[put.key] = index[put.key]
         /\ put.step = "tidy"  => files[put.key] = put.entry /\ olds[put.key] = index[put.key]
         /\ put.step = "enter" => files[put.key] = put.entry /\ olds[put.key] = None
<1>1. put.key \in Keys /\ At(put.key) = put.step BY PutFacts
<1>2. QED BY <1>1 DEF DiskInv, FilesOK

LEMMA MinusOne ==
  ASSUME NEW f \in [Keys -> DiskEntries], NEW key \in Keys
  PROVE  /\ Minus(f, {key}) \in [Keys -> DiskEntries] /\ Minus(f, {key})[key] = None
         /\ \A k \in Keys \ {key} : Minus(f, {key})[k] = f[k]
BY DiskFacts DEF Minus

LEMMA PutStepKeeps ==
  ASSUME DiskInv, Clear \/ Aside \/ Move \/ MoveFails \/ Tidy
  PROVE  DiskInv'
<1> DEFINE key == put.key
<1>1. put.step # "none" /\ PutKeeps BY DEF Clear, Aside, Move, MoveFails, Tidy
<1>2. /\ key \in Keys /\ put.entry \in DiskEntries \ {None}
      /\ put.step # "enter" => put.existed = (key \in Present(index))
      /\ put.step \in {"clear", "aside", "tidy"} => put.existed
  BY <1>1, PutFacts
<1>3. /\ files \in [Keys -> DiskEntries] /\ olds \in [Keys -> DiskEntries] /\ index \in [Keys -> DiskEntries]
  BY DEF DiskInv, Held
<1>4. key \notin strays =>
        /\ put.step \in {"clear", "aside"} => files[key] = index[key] /\ olds[key] = None
        /\ put.step = "move"  => files[key] = None /\ olds[key] = index[key]
        /\ put.step = "tidy"  => files[key] = put.entry /\ olds[key] = index[key]
  BY <1>1, FilesFacts
<1>5. /\ Minus(olds, {key}) \in [Keys -> DiskEntries] /\ Minus(olds, {key})[key] = None
      /\ \A k \in Keys \ {key} : Minus(olds, {key})[k] = olds[k]
      /\ Minus(files, {key}) \in [Keys -> DiskEntries] /\ Minus(files, {key})[key] = None
      /\ \A k \in Keys \ {key} : Minus(files, {key})[k] = files[k]
  BY <1>2, <1>3, MinusOne
<1> HIDE DEF key
<1>6. CASE Clear
  <2>1. put.step = "clear" /\ put' = [put EXCEPT !.step = "aside"] /\ UNCHANGED <<files, strays>>
    BY <1>6 DEF Clear
  <2>2. olds' = Minus(olds, {key}) \/ (olds' = olds /\ key \in strays) BY <1>6 DEF Clear, key
  <2>3. QED BY <1>1, <1>2, <1>3, <1>4, <1>5, <2>1, <2>2, StepKeeps DEF Steps, key
<1>7. CASE Aside
  <2>1. put.step = "aside" /\ UNCHANGED strays BY <1>7 DEF Aside
  <2>2. CASE put' = NoPut /\ UNCHANGED fileVars
    <3>1. UNCHANGED <<files, olds, strays>> BY <2>1, <2>2 DEF fileVars
    <3>2. key \notin strays' => files'[key] = index[key] /\ olds'[key] = None BY <1>4, <2>1, <3>1
    <3>3. QED BY <1>1, <1>2, <1>3, <2>1, <2>2, <3>1, <3>2, StepKeeps DEF Steps, key
  <2>3. CASE /\ olds' = [olds EXCEPT ![put.key] = IF files[put.key] # None THEN files[put.key] ELSE @]
             /\ files' = Minus(files, {put.key})
             /\ put' = [put EXCEPT !.step = "move"]
    <3>1. olds' \in [Keys -> DiskEntries] /\ \A k \in Keys \ {key} : olds'[k] = olds[k]
      BY <1>2, <1>3, <2>3 DEF key
    <3>2. key \notin strays => olds'[key] = index[key] BY <1>2, <1>3, <1>4, <2>1, <2>3 DEF key
    <3>3. QED BY <1>1, <1>2, <1>3, <1>5, <2>1, <2>3, <3>1, <3>2, StepKeeps DEF Steps, key
  <2>4. QED BY <1>7, <2>2, <2>3 DEF Aside
<1>8. CASE Move
  <2>1. /\ put.step = "move" /\ files' = [files EXCEPT ![key] = put.entry]
        /\ put' = [put EXCEPT !.step = IF put.existed THEN "tidy" ELSE "enter"] /\ UNCHANGED <<olds, strays>>
    BY <1>8 DEF Move, key
  <2>2. /\ files' \in [Keys -> DiskEntries] /\ files'[key] = put.entry
        /\ \A k \in Keys \ {key} : files'[k] = files[k]
    BY <1>2, <1>3, <2>1
  <2>3. ~put.existed => index[key] = None BY <1>2, <1>3, <2>1 DEF Present
  <2>4. CASE put.existed
    BY <1>1, <1>2, <1>3, <1>4, <2>1, <2>2, <2>4, StepKeeps DEF Steps, key
  <2>5. CASE ~put.existed
    BY <1>1, <1>2, <1>3, <1>4, <2>1, <2>2, <2>3, <2>5, StepKeeps DEF Steps, key
  <2>6. QED BY <2>4, <2>5
<1>9. CASE MoveFails
  <2>1. put.step = "move" /\ put' = NoPut BY <1>9 DEF MoveFails
  <2>2. CASE /\ put.existed /\ olds[put.key] # None
             /\ files' = [files EXCEPT ![put.key] = olds[put.key]] /\ olds' = Minus(olds, {put.key})
             /\ UNCHANGED strays
    <3>1. /\ files' \in [Keys -> DiskEntries] /\ files'[key] = olds[key]
          /\ \A k \in Keys \ {key} : files'[k] = files[k]
      BY <1>2, <1>3, <2>2 DEF key
    <3>2. QED BY <1>1, <1>2, <1>3, <1>4, <1>5, <2>1, <2>2, <3>1, StepKeeps DEF Steps, key
  <2>3. CASE /\ UNCHANGED fileVars
             /\ strays' = IF olds[put.key] # None THEN strays \cup {put.key} ELSE strays
    <3>1. strays \subseteq strays' /\ (key \notin strays' => key \notin strays /\ olds[key] = None)
      BY <2>3 DEF key
    <3>2. QED BY <1>1, <1>2, <1>3, <1>4, <2>1, <2>3, <3>1, StepKeeps DEF Steps, key, fileVars
  <2>4. QED BY <1>9, <2>2, <2>3 DEF MoveFails
<1>10. CASE Tidy
  <2>1. put.step = "tidy" /\ put' = [put EXCEPT !.step = "enter"] /\ UNCHANGED files
    BY <1>10 DEF Tidy
  <2>2. CASE olds' = Minus(olds, {put.key}) /\ UNCHANGED strays
    BY <1>1, <1>2, <1>3, <1>4, <1>5, <2>1, <2>2, StepKeeps DEF Steps, key
  <2>3. CASE strays' = strays \cup {put.key} /\ UNCHANGED olds
    BY <1>1, <1>2, <1>3, <1>4, <1>5, <2>1, <2>3, StepKeeps DEF Steps, key
  <2>4. QED BY <1>10, <2>2, <2>3 DEF Tidy
<1>11. QED BY <1>6, <1>7, <1>8, <1>9, <1>10

(* The entry enters the index, in the room the Put made.                      *)
LEMMA EnterIndexKeeps ==
  ASSUME DiskInv, EnterIndex
  PROVE  DiskInv'
<1> DEFINE key == put.key
           e   == put.entry
<1>1. /\ put.step = "enter" /\ index' = With(index, key, e) /\ bytes' = bytes + e.size - index[key].size
      /\ last' = [last EXCEPT ![key] = e.version] /\ put' = NoPut
      /\ UNCHANGED <<clock, files, olds, puts, strays>>
  BY DEF EnterIndex, With, fileVars
<1>2. /\ key \in Keys /\ e \in DiskEntries \ {None}
      /\ key \in Present(index) \/ Cardinality(Present(index)) < MaxEntries
      /\ bytes - index[key].size + e.size <= MaxBytes
  BY <1>1, PutFacts
<1>3. key \notin strays => files[key] = e /\ olds[key] = None BY <1>1, FilesFacts
<1>4. Held(index, bytes) /\ Within(index, bytes) /\ index \in [Keys -> DiskEntries]
  BY DEF DiskInv, Held
<1> HIDE DEF key, e
<1>5. /\ Held(index', bytes')
      /\ key \in Present(index) => Cardinality(Present(index')) = Cardinality(Present(index))
      /\ Cardinality(Present(index')) <= Cardinality(Present(index)) + 1
  BY <1>1, <1>2, <1>4, HeldEnter
<1>6. Within(index', bytes')
  <2>1. Cardinality(Present(index)) \in Nat /\ Cardinality(Present(index')) \in Nat
    BY <1>4, <1>5, HeldFacts
  <2>2. bytes \in Nat /\ bytes' \in Nat /\ index[key].size \in Nat /\ e.size \in Nat
    BY <1>2, <1>4, <1>5, DiskFacts DEF Held, EntryType
  <2>3. QED BY <1>1, <1>2, <1>4, <1>5, <2>1, <2>2, DiskFacts DEF Within
<1>7. last' = [k \in Keys |-> index'[k].version]
  <2>1. last = [k \in Keys |-> index[k].version] BY DEF DiskInv
  <2>2. QED BY <1>1, <1>2, <1>4, <2>1 DEF With
<1>8. PutOK' BY <1>1 DEF NoPut, PutOK
<1>9. FilesOK'
  <2>1. ASSUME NEW k \in Keys \ strays' PROVE At(k)' = "none" /\ files'[k] = index'[k] /\ olds'[k] = None
    <3>1. At(k)' = "none" BY <1>1 DEF At, NoPut
    <3>2. CASE k = key BY <1>1, <1>2, <1>3, <1>4, <3>1, <3>2 DEF With
    <3>3. CASE k # key
      <4>1. At(k) = "none" BY <3>3 DEF At, key
      <4>2. files[k] = index[k] /\ olds[k] = None BY <1>1, <4>1 DEF DiskInv, FilesOK
      <4>3. QED BY <1>1, <1>4, <3>1, <3>3, <4>2 DEF With
    <3>4. QED BY <3>2, <3>3
  <2>2. QED BY <2>1 DEF FilesOK
<1>10. QED BY <1>1, <1>5, <1>6, <1>7, <1>8, <1>9 DEF DiskInv

-----------------------------------------------------------------------------
(* A start. What has entered so far holds what the files of the same keys     *)
(* hold, and no file is other than it was found.                              *)

Loads ==
  {d \in [entries : [Keys -> DiskEntries], bytes : Nat, files : [Keys -> DiskEntries], failed : BOOLEAN] :
     /\ Held(d.entries, d.bytes) /\ Within(d.entries, d.bytes)
     /\ \A k \in Keys : d.entries[k] = None \/ (d.entries[k] = d.files[k] /\ d.files[k].expires > clock)
     /\ \A k \in Keys : d.files[k] \in {Recovered[k], None}}

Agrees(d, k) == d.failed \/ d.entries[k] = d.files[k]

LEMMA HeldFinite ==
  ASSUME NEW entries \in [Keys -> DiskEntries]
  PROVE  IsFiniteSet(Present(entries))
<1>1. Present(entries) \subseteq Keys BY DEF Present
<1>2. QED BY <1>1, DiskFacts, FS_Subset

LEMMA EnterListedOK ==
  ASSUME clock \in Nat, NEW d \in Loads, NEW k \in Keys
  PROVE  /\ EnterListed(d, k) \in Loads /\ Agrees(EnterListed(d, k), k)
         /\ \A j \in Keys : Agrees(d, j) => Agrees(EnterListed(d, k), j)
<1>1. /\ d \in [entries : [Keys -> DiskEntries], bytes : Nat, files : [Keys -> DiskEntries], failed : BOOLEAN]
      /\ Held(d.entries, d.bytes) /\ Within(d.entries, d.bytes)
      /\ \A j \in Keys : d.entries[j] = None \/ (d.entries[j] = d.files[j] /\ d.files[j].expires > clock)
      /\ \A j \in Keys : d.files[j] \in {Recovered[j], None}
  BY DEF Loads
<1>2. CASE d.files[k] = None \/ d.files[k].expires <= clock
  <2> DEFINE to == [d EXCEPT !.files[k] = None]
  <2>1. EnterListed(d, k) = to BY <1>2 DEF EnterListed
  <2>2. d.entries[k] = None
    <3>1. CASE d.files[k] = None BY <1>1, <3>1
    <3>2. CASE d.files[k].expires <= clock
      <4>1. d.files[k].expires \in Int BY <1>1, DiskFacts DEF EntryType
      <4>2. QED BY <1>1, <3>2, <4>1
    <3>3. QED BY <1>2, <3>1, <3>2
  <2>3. /\ to.entries = d.entries /\ to.bytes = d.bytes /\ to.failed = d.failed
        /\ to.files \in [Keys -> DiskEntries]
        /\ to.files[k] = None /\ \A j \in Keys \ {k} : to.files[j] = d.files[j]
        /\ to \in [entries : [Keys -> DiskEntries], bytes : Nat, files : [Keys -> DiskEntries], failed : BOOLEAN]
    BY <1>1, DiskFacts
  <2> HIDE DEF to
  <2>4. to \in Loads BY <1>1, <2>2, <2>3 DEF Loads
  <2>5. Agrees(to, k) /\ \A j \in Keys : Agrees(d, j) => Agrees(to, j) BY <2>2, <2>3 DEF Agrees
  <2>6. QED BY <2>1, <2>4, <2>5
<1>3. CASE ~(d.files[k] = None \/ d.files[k].expires <= clock)
  <2> DEFINE entries == [d.entries EXCEPT ![k] = d.files[k]]
             count == d.bytes + d.files[k].size
             out(n) == First(entries, 0, n)
             enough == {n \in 0 .. Cardinality(Present(entries)) :
                          /\ Cardinality(Present(entries) \ out(n)) <= MaxEntries
                          /\ count - Bytes(entries, out(n)) <= MaxBytes}
             gone == out(CHOOSE n \in enough : \A m \in enough : n <= m)
             to == [entries |-> Minus(entries, gone), bytes |-> count - Bytes(entries, gone),
                    files |-> Minus(d.files, gone), failed |-> d.failed]
  <2>1. EnterListed(d, k) = IF enough = {} THEN [d EXCEPT !.failed = TRUE] ELSE to
    BY <1>3 DEF EnterListed
  <2>2. d.files[k] \in DiskEntries \ {None} /\ d.files[k].expires > clock
    <3>1. d.files[k].expires \in Int BY <1>1, DiskFacts DEF EntryType
    <3>2. QED BY <1>1, <1>3, <3>1
  <2>3. CASE enough = {}
    <3> DEFINE failed == [d EXCEPT !.failed = TRUE]
    <3>1. EnterListed(d, k) = failed BY <2>1, <2>3
    <3>2. /\ failed.entries = d.entries /\ failed.bytes = d.bytes /\ failed.failed
          /\ failed.files = d.files
          /\ failed \in [entries : [Keys -> DiskEntries], bytes : Nat, files : [Keys -> DiskEntries],
                         failed : BOOLEAN]
      BY <1>1
    <3> HIDE DEF failed
    <3>3. failed \in Loads BY <1>1, <3>2 DEF Loads
    <3>4. \A j \in Keys : Agrees(failed, j) BY <3>2 DEF Agrees
    <3>5. QED BY <3>1, <3>3, <3>4
  <2>4. CASE enough # {}
    <3>1. EnterListed(d, k) = to BY <2>1, <2>4
    <3>2. Held(entries, count)
      <4>1. entries = With(d.entries, k, d.files[k]) BY DEF With
      <4>2. QED BY <1>1, <2>2, <4>1, HeldEnter
    <3>3. entries[k] = d.files[k] /\ \A j \in Keys \ {k} : entries[j] = d.entries[j] BY <1>1
    <3>4. Present(entries) \subseteq Keys /\ Cardinality(Present(entries)) \in Nat BY <3>2, HeldFacts
    <3>5. PICK n \in enough : gone = out(n)
      <4>1. enough \subseteq Nat BY <3>4
      <4> HIDE DEF enough
      <4>2. \E n \in enough : \A m \in enough : n <= m BY <2>4, <4>1, LeastNatural
      <4> DEFINE least == CHOOSE n \in enough : \A m \in enough : n <= m
      <4>3. least \in enough BY <4>2
      <4>4. gone = out(least) OBVIOUS
      <4> HIDE DEF least, gone
      <4>5. QED BY <4>3, <4>4
    <3>6. /\ Cardinality(Present(entries) \ gone) <= MaxEntries
          /\ count - Bytes(entries, gone) <= MaxBytes
      BY <3>5
    <3>7. gone \subseteq Keys BY <3>4, <3>5 DEF First
    <3> HIDE DEF gone, out, enough, count, entries
    <3>8. /\ Held(Minus(entries, gone), count - Bytes(entries, gone))
          /\ Present(Minus(entries, gone)) = Present(entries) \ gone
      BY <3>2, <3>7, HeldMinus
    <3>9. Within(Minus(entries, gone), count - Bytes(entries, gone)) BY <3>6, <3>8 DEF Within
    <3>10. \A j \in Keys : /\ Minus(entries, gone)[j] = IF j \in gone THEN None ELSE entries[j]
                           /\ Minus(d.files, gone)[j] = IF j \in gone THEN None ELSE d.files[j]
      BY <1>1, <3>2 DEF Held, Minus
    <3>11. Minus(d.files, gone) \in [Keys -> DiskEntries] BY <1>1, DiskFacts DEF Minus
    <3>12. /\ to.entries = Minus(entries, gone) /\ to.bytes = count - Bytes(entries, gone)
           /\ to.failed = d.failed /\ to.files = Minus(d.files, gone)
      OBVIOUS
    <3>13. to \in [entries : [Keys -> DiskEntries], bytes : Nat, files : [Keys -> DiskEntries],
                   failed : BOOLEAN]
      BY <1>1, <3>8, <3>11 DEF Held
    <3> HIDE DEF to
    <3>14. \A j \in Keys : to.entries[j] = None \/ (to.entries[j] = to.files[j] /\ to.files[j].expires > clock)
      BY <1>1, <2>2, <3>3, <3>10, <3>12
    <3>15. \A j \in Keys : to.files[j] \in {Recovered[j], None} BY <1>1, <3>10, <3>12
    <3>16. to \in Loads BY <3>8, <3>9, <3>12, <3>13, <3>14, <3>15 DEF Loads
    <3>17. Agrees(to, k) BY <3>3, <3>10, <3>12 DEF Agrees
    <3>18. \A j \in Keys : Agrees(d, j) => Agrees(to, j) BY <3>3, <3>10, <3>12 DEF Agrees
    <3>19. QED BY <3>1, <3>16, <3>17, <3>18
  <2>5. QED BY <2>3, <2>4
<1>4. QED BY <1>2, <1>3

-----------------------------------------------------------------------------
Empty == [entries |-> Nothing, bytes |-> 0, files |-> Recovered, failed |-> FALSE]

LEMMA EmptyLoads ==
  ASSUME DiskInv
  PROVE  Empty \in Loads
<1>1. Nothing \in [Keys -> DiskEntries] /\ Present(Nothing) = {} BY DiskFacts DEF Nothing, Present
<1>2. IsFiniteSet({}) /\ Cardinality({}) = 0 BY FS_EmptySet
<1>3. Bytes(Nothing, {}) = 0
  <2>1. Total([k \in DOMAIN Nothing |-> Nothing[k].size], {}) = 0 BY TotalZero
  <2>2. QED BY <2>1 DEF Bytes
<1>4. Held(Nothing, 0) /\ Within(Nothing, 0) BY <1>1, <1>2, <1>3, DiskFacts DEF Held, Within
<1>5. Recovered \in [Keys -> DiskEntries] BY DEF Recovered, DiskInv
<1>6. \A k \in Keys : Nothing[k] = None BY DEF Nothing
<1>7. QED BY <1>1, <1>4, <1>5, <1>6 DEF Empty, Loads

LEMMA ListingFacts ==
  ASSUME NEW listing \in Listings
  PROVE  /\ Len(listing) \in Nat
         /\ \A i \in 1 .. Len(listing) : listing[i] \in Keys
         /\ \A k \in Listed : \E i \in 1 .. Len(listing) : listing[i] = k
<1> DEFINE c == Cardinality(Listed)
           once == {l \in [1 .. c -> Listed] : \A k \in Listed : \E i \in DOMAIN l : l[i] = k}
<1>1. Listed \subseteq Keys /\ MovedBack \subseteq Keys BY DEF Listed, MovedBack
<1>2. c \in Nat BY <1>1, DiskFacts, FS_Subset, FS_CardinalityType
<1>3. listing \in once \cup {Append(l, k) : l \in once, k \in MovedBack} BY DEF Listings
<1> HIDE DEF c
<1>4. ASSUME NEW l \in once
      PROVE  /\ l \in Seq(Keys) /\ Len(l) = c /\ \A i \in 1 .. c : l[i] \in Keys
             /\ \A k \in Listed : \E i \in 1 .. c : l[i] = k
  <2>1. /\ l \in [1 .. c -> Listed] /\ \A k \in Listed : \E i \in DOMAIN l : l[i] = k BY <1>4
  <2>2. l \in [1 .. c -> Keys] BY <1>1, <2>1
  <2>3. l \in Seq(Keys) BY <1>2, <2>2, SeqDef
  <2>4. DOMAIN l = 1 .. c /\ Len(l) = c BY <1>2, <2>2, <2>3
  <2>5. QED BY <2>1, <2>2, <2>3, <2>4
<1>5. CASE listing \in once BY <1>2, <1>4, <1>5
<1>6. CASE listing \in {Append(l, k) : l \in once, k \in MovedBack}
  <2>1. PICK l \in once, k \in MovedBack : listing = Append(l, k) BY <1>6
  <2> HIDE DEF once
  <2>2. l \in Seq(Keys) /\ Len(l) = c /\ k \in Keys BY <1>1, <1>4
  <2>3. /\ Len(listing) = c + 1 /\ listing[c + 1] = k
        /\ \A i \in 1 .. c : listing[i] = l[i]
    BY <2>1, <2>2, AppendProperties
  <2>4. \A i \in 1 .. c + 1 : listing[i] \in Keys BY <1>2, <1>4, <2>2, <2>3
  <2>5. \A j \in Listed : \E i \in 1 .. c + 1 : listing[i] = j BY <1>2, <1>4, <2>3
  <2>6. QED BY <1>2, <2>3, <2>4, <2>5
<1>7. QED BY <1>3, <1>5, <1>6

(* The states of a start, one per file entered.                               *)
IsRun(run, listing) ==
  run = [i \in 0 .. Len(listing) |-> IF i = 0 THEN Empty ELSE EnterListed(run[i - 1], listing[i])]

LEMMA LoadedRuns ==
  ASSUME DiskInv, NEW listing \in Listings
  PROVE  \E run : /\ Loaded(listing) = run[Len(listing)] /\ run[0] = Empty
                  /\ \A i \in 1 .. Len(listing) : run[i] = EnterListed(run[i - 1], listing[i])
<1> DEFINE n == Len(listing)
           step == [p \in Loads \X (1 .. n) |-> EnterListed(p[1], listing[p[2]])]
<1>1. n \in Nat /\ \A i \in 1 .. n : listing[i] \in Keys BY ListingFacts
<1>2. Empty \in Loads /\ clock \in Nat BY EmptyLoads DEF DiskInv
<1>3. step \in [Loads \X (1 .. n) -> Loads]
  <2>1. ASSUME NEW p \in Loads \X (1 .. n) PROVE EnterListed(p[1], listing[p[2]]) \in Loads
    BY <1>1, <1>2, EnterListedOK
  <2>2. QED BY <2>1
<1>4. \A d \in Loads, i \in 1 .. n : step[<<d, i>>] = EnterListed(d, listing[i]) OBVIOUS
<1> HIDE DEF step, n
<1>5. PICK r \in [0 .. n -> Loads] : r[0] = Empty /\ \A i \in 1 .. n : r[i] = step[<<r[i - 1], i>>]
  <2>1. Runs(n, Loads, Empty, step) # {} BY <1>1, <1>2, <1>3, RunExists
  <2>2. QED BY <2>1 DEF Runs
<1>6. IsRun(r, listing)
  <2>1. ASSUME NEW i \in 0 .. n PROVE r[i] = IF i = 0 THEN Empty ELSE EnterListed(r[i - 1], listing[i])
    <3>1. CASE i = 0 BY <1>5, <3>1
    <3>2. CASE i # 0
      <4>1. i \in 1 .. n /\ i - 1 \in 0 .. n BY <1>1, <3>2
      <4>2. r[i - 1] \in Loads BY <1>5, <4>1
      <4>3. QED BY <1>4, <1>5, <3>2, <4>1, <4>2
    <3>3. QED BY <3>1, <3>2
  <2>2. QED BY <1>5, <2>1 DEF IsRun, n
<1> DEFINE run == CHOOSE g : IsRun(g, listing)
<1>7. IsRun(run, listing) BY <1>6
<1>8. Loaded(listing) = run[n] BY DEF Loaded, IsRun, Empty, n
<1> HIDE DEF run
<1>9. /\ run[0] = Empty
      /\ \A i \in 1 .. n : run[i] = EnterListed(run[i - 1], listing[i])
  BY <1>1, <1>7 DEF IsRun, n
<1>10. QED BY <1>8, <1>9 DEF n

(* The index of a start holds what the files hold.                            *)
LEMMA LoadedOK ==
  ASSUME DiskInv, NEW listing \in Listings, ~Loaded(listing).failed
  PROVE  /\ Loaded(listing) \in Loads
         /\ Loaded(listing).files = Loaded(listing).entries
<1>1. PICK run : /\ Loaded(listing) = run[Len(listing)] /\ run[0] = Empty
                 /\ \A i \in 1 .. Len(listing) : run[i] = EnterListed(run[i - 1], listing[i])
  BY LoadedRuns
<1> DEFINE n == Len(listing)
           P == {i \in 0 .. n : run[i] \in Loads /\ \A j \in 1 .. i : Agrees(run[i], listing[j])}
<1>2. n \in Nat /\ \A i \in 1 .. n : listing[i] \in Keys BY ListingFacts
<1>3. 0 \in P BY <1>1, <1>2, EmptyLoads
<1>4. ASSUME NEW i \in 0 .. n, i \in P, i # n PROVE i + 1 \in P
  <2>1. i + 1 \in 1 .. n /\ i + 1 \in 0 .. n /\ (i + 1) - 1 = i BY <1>2, <1>4
  <2>2. run[i + 1] = EnterListed(run[i], listing[i + 1]) BY <1>1, <2>1
  <2>3. run[i] \in Loads /\ \A j \in 1 .. i : Agrees(run[i], listing[j]) BY <1>4
  <2>4. listing[i + 1] \in Keys /\ clock \in Nat BY <1>2, <2>1 DEF DiskInv
  <2> HIDE DEF P, n
  <2>5. /\ run[i + 1] \in Loads /\ Agrees(run[i + 1], listing[i + 1])
        /\ \A k \in Keys : Agrees(run[i], k) => Agrees(run[i + 1], k)
    BY <2>2, <2>3, <2>4, EnterListedOK
  <2>6. ASSUME NEW j \in 1 .. i + 1 PROVE Agrees(run[i + 1], listing[j])
    <3>1. CASE j = i + 1 BY <2>5, <3>1
    <3>2. CASE j # i + 1
      <4>1. j \in 1 .. i /\ j \in 1 .. n BY <1>2, <2>1, <3>2
      <4>2. QED BY <1>2, <2>3, <2>5, <4>1
    <3>3. QED BY <3>1, <3>2
  <2>7. QED BY <2>1, <2>5, <2>6 DEF P
<1> HIDE DEF P
<1>5. n \in P
  <2>1. \A i \in 0 .. n : i \in P BY <1>2, <1>3, <1>4, Induction
  <2>2. QED BY <1>2, <2>1
<1> DEFINE d == Loaded(listing)
<1>6. d \in Loads /\ \A j \in 1 .. n : Agrees(d, listing[j]) BY <1>1, <1>5 DEF P, n
<1>7. \A k \in Keys : d.entries[k] = d.files[k]
  <2>1. SUFFICES ASSUME NEW k \in Keys PROVE d.entries[k] = d.files[k] OBVIOUS
  <2>2. CASE k \in Listed
    <3>1. PICK j \in 1 .. n : listing[j] = k BY <2>2, ListingFacts
    <3>2. QED BY <1>6, <3>1 DEF Agrees
  <2>3. CASE k \notin Listed
    <3>1. Recovered[k] = None BY <2>3 DEF Listed
    <3> HIDE DEF d
    <3>2. d.files[k] = None /\ d.entries[k] \in {None, d.files[k]} BY <1>6, <3>1 DEF Loads
    <3>3. QED BY <3>2
  <2>4. QED BY <2>2, <2>3
<1> HIDE DEF d
<1>8. d.entries \in [Keys -> DiskEntries] /\ d.files \in [Keys -> DiskEntries] BY <1>6 DEF Loads
<1>9. d.files = d.entries BY <1>7, <1>8
<1>10. QED BY <1>6, <1>9 DEF d

LEMMA CrashKeeps ==
  ASSUME DiskInv, Crash
  PROVE  DiskInv'
<1>1. PICK listing \in Listings :
        /\ ~Loaded(listing).failed
        /\ index' = Loaded(listing).entries /\ bytes' = Loaded(listing).bytes
        /\ files' = Loaded(listing).files
  BY DEF Crash
<1>2. Loaded(listing) \in Loads /\ Loaded(listing).files = Loaded(listing).entries
  BY <1>1, LoadedOK
<1>3. Held(index', bytes') /\ Within(index', bytes') /\ files' = index' BY <1>1, <1>2 DEF Loads
<1>4. /\ put' = NoPut /\ olds' = Nothing /\ UNCHANGED <<clock, puts>>
      /\ last' = [k \in Keys |-> index'[k].version]
  BY DEF Crash
<1>5. /\ files' \in [Keys -> DiskEntries] /\ olds' \in [Keys -> DiskEntries]
      /\ \A k \in Keys : olds'[k] = None
  BY <1>3, <1>4, DiskFacts DEF Held, Nothing
<1>6. clock' \in Nat /\ puts' \in 0 .. MaxPuts BY <1>4 DEF DiskInv
<1>7. PutOK' BY <1>4 DEF NoPut, PutOK
<1>8. FilesOK' BY <1>3, <1>4, <1>5 DEF FilesOK, At, NoPut
<1>9. QED BY <1>3, <1>4, <1>5, <1>6, <1>7, <1>8 DEF DiskInv

LEMMA DiskStart == DiskInit => DiskInv
<1> SUFFICES ASSUME DiskInit PROVE DiskInv OBVIOUS
<1>1. Nothing \in [Keys -> DiskEntries] /\ Present(Nothing) = {} BY DiskFacts DEF Nothing, Present
<1>2. IsFiniteSet({}) /\ Cardinality({}) = 0 BY FS_EmptySet
<1>3. Bytes(Nothing, {}) = 0
  <2>1. Total([k \in DOMAIN Nothing |-> Nothing[k].size], {}) = 0 BY TotalZero
  <2>2. QED BY <2>1 DEF Bytes
<1>4. Held(Nothing, 0) /\ Within(Nothing, 0) BY <1>1, <1>2, <1>3, DiskFacts DEF Held, Within
<1>5. PutOK /\ FilesOK BY DEF DiskInit, PutOK, FilesOK, At, NoPut, Nothing
<1>6. last = [k \in Keys |-> index[k].version] BY DiskFacts DEF DiskInit, Nothing
<1>7. QED BY <1>1, <1>4, <1>5, <1>6, DiskFacts DEF DiskInit, DiskInv

(* The invariant speaks of the clock only to type it.                         *)
LEMMA DiskHolds ==
  ASSUME DiskInv, UNCHANGED <<index, bytes, files, olds, put, puts, last, strays>>, clock' \in Nat
  PROVE  DiskInv'
<1>1. Held(index', bytes') /\ Within(index', bytes') /\ PutOK' /\ FilesOK'
  BY DEF DiskInv, PutOK, FilesOK, At
<1>2. QED BY <1>1 DEF DiskInv

LEMMA DiskStep == DiskInv /\ [DiskNext]_diskVars => DiskInv'
<1> SUFFICES ASSUME DiskInv, [DiskNext]_diskVars PROVE DiskInv' OBVIOUS
<1>1. Expired(index, clock) \subseteq Keys /\ Present(index) \subseteq Keys
  <2>1. Present(index) \subseteq Keys BY HeldFacts DEF DiskInv
  <2>2. QED BY <2>1 DEF Expired
<1>2. CASE UNCHANGED diskVars
  <2>1. UNCHANGED <<clock, index, bytes, files, olds, put, puts, last, strays>>
    BY <1>2 DEF diskVars, indexVars, fileVars
  <2>2. QED BY <2>1, DiskHolds DEF DiskInv
<1>3. CASE TickDisk
  <2>1. UNCHANGED <<index, bytes, files, olds, put, puts, last, strays>> /\ clock' = clock + 1
    BY <1>3 DEF TickDisk, indexVars, fileVars
  <2>2. clock' \in Nat BY <2>1 DEF DiskInv
  <2>3. QED BY <2>1, <2>2, DiskHolds
<1>4. ASSUME NEW k \in Keys, GetFile(k) PROVE DiskInv'
  BY <1>4, ForgetKeeps DEF GetFile
<1>5. ASSUME NEW keys, PurgeFiles(keys) PROVE DiskInv'
  <2>1. PICK purged \in SUBSET (keys \cap Present(index)) : ForgetFiles(purged, {}) BY <1>5 DEF PurgeFiles
  <2>2. purged \in SUBSET Keys /\ Unlocked /\ UNCHANGED <<clock, olds, put, puts>>
    BY <1>1, <1>5 DEF PurgeFiles
  <2>3. QED BY <2>1, <2>2, ForgetKeeps
<1>6. CASE DropExpired
  <2>1. PICK failing : ForgetFiles(Expired(index, clock), failing) BY <1>6 DEF DropExpired
  <2>2. Unlocked /\ UNCHANGED <<clock, olds, put, puts>> BY <1>6 DEF DropExpired
  <2>3. QED BY <1>1, <2>1, <2>2, ForgetKeeps
<1>7. ASSUME NEW k \in Keys, NEW size \in Sizes, NEW ttl \in 1 .. 2, BeginPut(k, size, clock + ttl)
      PROVE  DiskInv'
  <2>1. clock + ttl \in Int BY DEF DiskInv
  <2>2. QED BY <1>7, <2>1, BeginPutKeeps
<1>8. QED
  BY <1>2, <1>3, <1>4, <1>5, <1>6, <1>7, PutStepKeeps, EnterIndexKeeps, CrashKeeps DEF DiskNext

(* The cache on disk keeps its limits, and wherever the process ends, the     *)
(* next one finds what the last Put stored or the Put under way stores.       *)
THEOREM DiskKept == DiskSpec => []DiskSound
BY DiskStart, DiskStep, DiskInvSound, PTL DEF DiskSpec

-----------------------------------------------------------------------------
(* The caches of one process.                                                 *)

CacheInvs == CachesInv /\ DiskInv

LEMMA CacheInvsStep == CacheInvs /\ [ServicesNext]_servicesVars => CacheInvs'
<1> SUFFICES ASSUME CacheInvs, [ServicesNext]_servicesVars PROVE CacheInvs' OBVIOUS
<1>1. CachesInv /\ DiskInv BY DEF CacheInvs
<1>2. CASE part = "caches" /\ CachesNext
           /\ UNCHANGED <<part, alertVars, indexVars, fileVars, put, puts, last, strays>>
  <2>1. CachesInv' BY <1>1, <1>2, CachesStep
  <2>2. UNCHANGED <<index, bytes, files, olds, put, puts, last, strays>>
    BY <1>2 DEF indexVars, fileVars
  <2>3. clock' \in Nat BY <2>1 DEF CachesInv
  <2>4. DiskInv' BY <1>1, <2>2, <2>3, DiskHolds
  <2>5. QED BY <2>1, <2>4 DEF CacheInvs
<1>3. CASE part = "disk" /\ DiskNext /\ UNCHANGED <<part, alertVars, responses, dns, lookups>>
  <2>1. DiskInv' BY <1>1, <1>3, DiskStep
  <2>2. clock' \in Nat BY <2>1 DEF DiskInv
  <2>3. CachesInv' BY <1>1, <1>3, <2>2 DEF CachesInv
  <2>4. QED BY <2>1, <2>3 DEF CacheInvs
<1>4. CASE UNCHANGED <<cacheVars, diskVars>>
  <2>1. CachesInv' BY <1>1, <1>4, CachesStep
  <2>2. DiskInv' BY <1>1, <1>4, DiskStep
  <2>3. QED BY <2>1, <2>2 DEF CacheInvs
<1>5. QED BY <1>2, <1>3, <1>4 DEF ServicesNext, servicesVars

(* The caches of a process keep their counts and limits, and the files of the *)
(* one on disk tell the next process what its index tells this one: for any   *)
(* keys, sizes, expiries, limits, order of operations and failing removals,   *)
(* and an end of the process between any two steps.                           *)
THEOREM CachesHold == ServicesSpec => []CachesSound
<1>1. ServicesInit => CacheInvs BY CachesStart, DiskStart DEF ServicesInit, CacheInvs
<1>2. CacheInvs => CachesSound BY CachesInvCounts, DiskInvSound DEF CacheInvs, CachesSound
<1>3. QED BY <1>1, <1>2, CacheInvsStep, PTL DEF ServicesSpec
=============================================================================
