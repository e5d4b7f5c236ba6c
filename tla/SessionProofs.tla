---------------------------- MODULE SessionProofs ----------------------------
(* Theorems about Session for every set of ids, keys, requests and policies,  *)
(* every capacity and bound, with and without a store.                        *)
(*                                                                            *)
(* The actions change the maps in four ways: a session is touched, sessions   *)
(* are rotated or removed, one is created, or all are loaded (Moves). Each    *)
(* invariant of the maps is proved once for each way.                         *)
EXTENDS Session, FiniteSetTheorems, TLAPS

Entry == SessionRecord \cup {Absent}

MapsOK == sessions \in [Ids -> Entry] /\ index \in [Keys -> Ids \cup {NoId}]

RequestsOK ==
  /\ request \in [Requests -> RequestRecord \cup {Idle}]
  /\ \A r \in Requests :
       request[r].pc \in {"reused", "serving", "recorded"} => request[r].id # NoId

ClockOK ==
  /\ now \in 0 .. MaxTime
  /\ runtime \in [revision : 0 .. MaxRevision, policy : Policies]

(* What the table holds: with a store what memory does, without one nothing.  *)
Durable(f) == IF Persistent THEN f ELSE [i \in Ids |-> Absent]

(* Session.Validate holds of what a manager with a store keeps.               *)
Validated == Persistent => \A i \in Present(sessions) : sessions[i].used >= sessions[i].created

(* The inductive invariant. IndexSound and ActiveIsIndexed need each other    *)
(* and the agreement of memory and table: the UNIQUE index compares with the  *)
(* table, the loops of Rotate and Delete go over the index.                   *)
MapsInv ==
  /\ MapsOK /\ durable = Durable(sessions)
  /\ Validated /\ WithinCapacity /\ IndexSound /\ ActiveIsIndexed

IInv == MapsInv /\ RequestsOK /\ ClockOK

-----------------------------------------------------------------------------
(* Facts about the maps.                                                      *)

(* A status tells what a map holds for an id.                                 *)
LEMMA StatusFacts ==
  ASSUME NEW s \in Entry
  PROVE  /\ s \in SessionRecord <=> s # Absent
         /\ s.status \in {"active", "rotated", "absent"}
         /\ s.status = "absent" <=> s = Absent
         /\ s.status = "active" => s \in SessionRecord
BY DEF Entry, SessionRecord, Absent

LEMMA ActivePresent ==
  ASSUME NEW f \in [Ids -> Entry]
  PROVE  Active(f) \subseteq Present(f) /\ Present(f) \subseteq Ids
<1>1. \A i \in Ids : f[i].status = "active" => f[i] # Absent BY StatusFacts
<1>2. QED BY <1>1 DEF Active, Present

(* makeRoomLocked names nothing or one session, which is not active.          *)
LEMMA RoomFacts ==
  ASSUME NEW f \in [Ids -> Entry], NEW gone \in Room(f)
  PROVE  /\ gone \subseteq Present(f) \ Active(f)
         /\ \/ gone = {} /\ Cardinality(Present(f)) < Capacity
            \/ \E i \in Present(f) : gone = {i}
<1>1. CASE Cardinality(Present(f)) < Capacity
  BY <1>1 DEF Room
<1>2. CASE ~(Cardinality(Present(f)) < Capacity)
  <2>1. PICK i \in Present(f) \ Active(f) : gone = {i} BY <1>2 DEF Room
  <2>2. QED BY <2>1
<1>3. QED BY <1>1, <1>2

(* Rotating keeps a session's record but for its status.                      *)
LEMMA RotatedRecord ==
  ASSUME NEW s \in SessionRecord
  PROVE  LET t == [s EXCEPT !.status = "rotated"] IN
         /\ t \in SessionRecord /\ t.status = "rotated"
         /\ t.key = s.key /\ t.endpoint = s.endpoint /\ t.created = s.created
         /\ t.used = s.used /\ t.requests = s.requests /\ t.bytes = s.bytes
BY DEF SessionRecord

(* The maps after sessions were rotated and removed, id by id.                *)
LEMMA RetiredFacts ==
  ASSUME NEW f \in [Ids -> Entry], NEW rot \in SUBSET Present(f), NEW gone \in SUBSET Ids
  PROVE  LET g == Without(Rotated(f, rot), gone) IN
         /\ g \in [Ids -> Entry]
         /\ \A i \in Ids : g[i] = IF i \in gone THEN Absent
                                  ELSE IF i \in rot THEN [f[i] EXCEPT !.status = "rotated"]
                                  ELSE f[i]
         /\ Present(g) = Present(f) \ gone
         /\ Active(g) = Active(f) \ (rot \cup gone)
<1> DEFINE g == Without(Rotated(f, rot), gone)
<1>1. \A i \in Ids : g[i] = IF i \in gone THEN Absent
                            ELSE IF i \in rot THEN [f[i] EXCEPT !.status = "rotated"]
                            ELSE f[i]
  BY DEF Without, Rotated
<1>2. \A i \in rot : f[i] \in SessionRecord BY StatusFacts DEF Present
<1>3. \A i \in rot : LET t == [f[i] EXCEPT !.status = "rotated"] IN
                     t \in SessionRecord /\ t.status = "rotated" /\ t # Absent
  BY <1>2, RotatedRecord DEF Absent
<1>4. \A i \in Ids : g[i] \in Entry BY <1>1, <1>3 DEF Entry
<1>5. g \in [Ids -> Entry]
  <2>1. g = [i \in Ids |-> g[i]] BY DEF Without
  <2>2. QED BY <1>4, <2>1
<1>6. Present(g) = Present(f) \ gone BY <1>1, <1>3 DEF Present
<1>7. Absent.status # "active" BY DEF Absent
<1>8. Active(g) = Active(f) \ (rot \cup gone) BY <1>1, <1>3, <1>7 DEF Active
<1>9. QED BY <1>1, <1>5, <1>6, <1>8

(* Nothing rotated, nothing removed.                                          *)
LEMMA NothingRetired ==
  ASSUME NEW f \in [Ids -> Entry]
  PROVE  /\ Rotated(f, {}) = f
         /\ Without(f, {}) = f
BY DEF Rotated, Without

-----------------------------------------------------------------------------
(* What the steps do to the maps.                                             *)

Touches(i, s) ==
  /\ sessions[i] # Absent /\ s \in SessionRecord
  /\ s.status = sessions[i].status /\ s.key = sessions[i].key
  /\ s.endpoint = sessions[i].endpoint /\ s.created = sessions[i].created
  /\ s.requests >= sessions[i].requests /\ s.bytes >= sessions[i].bytes
  /\ Accepts(i, s)
  /\ Stored([sessions EXCEPT ![i] = s]) /\ index' = index

Retires(rot, gone) ==
  /\ Stored(Without(Rotated(sessions, rot), gone))
  /\ index' = Unindexed(rot \cup gone)

Creates(k, i, s, gone) ==
  /\ sessions[i] = Absent
  /\ s \in SessionRecord /\ s.status = "active" /\ s.key = k
  /\ Accepts(i, s)
  /\ gone \in Room(sessions)
  /\ Stored([Without(sessions, gone) EXCEPT ![i] = s])
  /\ index' = [Unindexed(gone) EXCEPT ![k] = i]

Moves ==
  \/ UNCHANGED <<sessions, index, durable>>
  \/ \E i \in Ids, s \in SessionRecord : Touches(i, s)
  \/ \E rot \in SUBSET Present(sessions), gone \in SUBSET Ids : Retires(rot, gone)
  \/ \E k \in Keys, i \in Ids, s \in SessionRecord, gone \in SUBSET Ids : Creates(k, i, s, gone)
  \/ Restart

(* A session the index names is named for its own key only.                   *)
LEMMA IndexOnce ==
  ASSUME IndexSound, NEW k \in Keys, NEW l \in Keys, index[k] = index[l], index[k] # NoId
  PROVE  k = l
BY DEF IndexSound

LEMMA RotateMoves ==
  ASSUME MapsOK, NEW i \in Ids, Rotate(i)
  PROVE  Retires({i}, {}) /\ {i} \in SUBSET Present(sessions)
<1>1. i \in Present(sessions) BY StatusFacts DEF Rotate, MapsOK, Present
<1>2. Rotated(sessions, {i}) \in [Ids -> Entry]
  <2>1. Without(Rotated(sessions, {i}), {}) \in [Ids -> Entry]
    BY <1>1, RetiredFacts DEF MapsOK
  <2>2. Without(Rotated(sessions, {i}), {}) = Rotated(sessions, {i})
    BY DEF Without, Rotated
  <2>3. QED BY <2>1, <2>2
<1>3. Without(Rotated(sessions, {i}), {}) = Rotated(sessions, {i})
  BY <1>2, NothingRetired
<1>4. {i} \cup {} = {i} OBVIOUS
<1>5. QED BY <1>1, <1>3, <1>4 DEF Rotate, Retires

LEMMA ReuseMoves ==
  ASSUME IInv, NEW r \in Requests, Reuse(r)
  PROVE  Moves
<1> DEFINE q == request[r]
           i == index[q.key]
           s == [sessions[i] EXCEPT !.used = q.at]
<1>1. q \in RequestRecord BY DEF IInv, MapsInv, RequestsOK, Reuse, Idle
<1>2. i \in Ids /\ sessions[i].status = "active"
  BY <1>1 DEF IInv, MapsInv, MapsOK, Reuse, Live, Stale, RequestRecord
<1>3. sessions[i] \in SessionRecord /\ sessions[i] # Absent
  BY <1>2, StatusFacts DEF IInv, MapsInv, MapsOK
<1>4. s \in SessionRecord BY <1>1, <1>3 DEF SessionRecord, RequestRecord
<1>5. s.requests >= sessions[i].requests /\ s.bytes >= sessions[i].bytes
  BY <1>3, SessionAssumption DEF SessionRecord
<1>6. CASE Accepts(i, s) /\ Stored([sessions EXCEPT ![i] = s])
  <2>1. Touches(i, s) BY <1>3, <1>4, <1>5, <1>6 DEF Touches, Reuse, SessionRecord
  <2>2. QED BY <1>2, <1>4, <2>1 DEF Moves
<1>7. CASE UNCHANGED <<sessions, durable>> BY <1>7 DEF Reuse, Moves
<1>8. QED BY <1>6, <1>7 DEF Reuse

LEMMA MissMoves ==
  ASSUME IInv, NEW r \in Requests, Miss(r)
  PROVE  Moves
<1> DEFINE q == request[r]
           stale == {index[q.key]} \ {NoId}
           f == Rotated(sessions, stale)
<1>1. q.key \in Keys
  BY DEF IInv, MapsInv, RequestsOK, Miss, Idle, RequestRecord
<1>2. stale \in SUBSET Present(sessions)
  <2>1. \A j \in stale : j \in Ids /\ sessions[j].status = "active"
    BY <1>1 DEF IInv, MapsInv, MapsOK, IndexSound
  <2>2. QED BY <2>1, StatusFacts DEF IInv, MapsInv, MapsOK, Present
<1>3. f \in [Ids -> Entry]
  <2>1. Without(f, {}) \in [Ids -> Entry] BY <1>2, RetiredFacts DEF IInv, MapsInv, MapsOK
  <2>2. Without(f, {}) = f BY DEF Without, Rotated
  <2>3. QED BY <2>1, <2>2
<1>4. Without(f, {}) = f BY <1>3, NothingRetired
<1>5. ASSUME NEW gone \in SUBSET Ids
      PROVE  [Unindexed(gone) EXCEPT ![q.key] = NoId] = Unindexed(stale \cup gone)
  <2>1. \A k \in Keys : index[k] \in stale => k = q.key
    BY <1>1, IndexOnce DEF IInv, MapsInv
  <2>2. \A k \in Keys : [Unindexed(gone) EXCEPT ![q.key] = NoId][k] = Unindexed(stale \cup gone)[k]
    BY <1>1, <2>1 DEF Unindexed
  <2>3. QED BY <2>2 DEF Unindexed
<1>6. ASSUME NEW gone \in SUBSET Ids, Stored(Without(f, gone)),
             index' = [Unindexed(gone) EXCEPT ![q.key] = NoId]
      PROVE  Moves
  <2>1. Retires(stale, gone) BY <1>5, <1>6 DEF Retires
  <2>2. QED BY <1>2, <2>1 DEF Moves
<1>7. ASSUME Stored(f), index' = [index EXCEPT ![q.key] = NoId]
      PROVE  Moves
  <2>1. Unindexed({}) = index BY DEF Unindexed, IInv, MapsInv, MapsOK
  <2>2. Stored(Without(f, {})) BY <1>4, <1>7
  <2>3. index' = [Unindexed({}) EXCEPT ![q.key] = NoId] BY <1>7, <2>1
  <2> HIDE DEF f, stale, q
  <2>4. {} \in SUBSET Ids OBVIOUS
  <2>5. QED BY <1>6, <2>2, <2>3, <2>4
<1>8. CASE \E gone \in Room(f) :
             /\ Stored(Without(f, gone))
             /\ index' = [Unindexed(gone) EXCEPT ![q.key] = NoId]
  <2>1. PICK gone \in Room(f) :
             /\ Stored(Without(f, gone))
             /\ index' = [Unindexed(gone) EXCEPT ![q.key] = NoId]
    BY <1>8
  <2>2. gone \in SUBSET Ids BY <1>3, RoomFacts, ActivePresent
  <2>3. QED BY <1>6, <2>1, <2>2
<1>9. CASE UNCHANGED <<sessions, durable, index>> BY <1>9 DEF Moves
<1>10. QED BY <1>7, <1>8, <1>9 DEF Miss

LEMMA BindMoves ==
  ASSUME IInv, NEW r \in Requests, Bind(r)
  PROVE  Moves
<1> DEFINE q == request[r]
<1>1. q \in RequestRecord BY DEF IInv, MapsInv, RequestsOK, Bind, Idle
<1>2. ASSUME NEW i \in Unseen, NEW e \in Endpoints, NEW gone \in Room(sessions),
             LET s == Created(q, e) IN
             /\ Accepts(i, s)
             /\ Stored([Without(sessions, gone) EXCEPT ![i] = s])
             /\ index' = [Unindexed(gone) EXCEPT ![q.key] = i]
      PROVE  Moves
  <2> DEFINE s == Created(q, e)
  <2>1. s \in SessionRecord
    BY <1>1, SessionAssumption DEF Created, RequestRecord, SessionRecord
  <2>2. i \in Ids /\ sessions[i] = Absent BY DEF Unseen
  <2>3. s.status = "active" /\ s.key = q.key BY DEF Created
  <2>4. gone \in SUBSET Ids BY RoomFacts, ActivePresent DEF IInv, MapsInv, MapsOK
  <2>5. Creates(q.key, i, s, gone) BY <1>2, <2>1, <2>2, <2>3 DEF Creates
  <2>6. q.key \in Keys BY <1>1 DEF RequestRecord
  <2>7. QED BY <2>1, <2>2, <2>4, <2>5, <2>6 DEF Moves
<1>3. CASE UNCHANGED <<sessions, durable, index>> BY <1>3 DEF Moves
<1>4. QED BY <1>2, <1>3 DEF Bind

LEMMA CompleteMoves ==
  ASSUME IInv, NEW r \in Requests, Complete(r)
  PROVE  Moves
<1> DEFINE i == request[r].id
<1>1. i \in Ids
  BY DEF IInv, MapsInv, RequestsOK, Complete, Idle, RequestRecord
<1>2. PICK n \in Amounts :
        IF Unaccountable(i, n)
          THEN UNCHANGED <<sessions, durable>>
          ELSE LET s == [sessions[i] EXCEPT !.requests = @ + 1, !.bytes = @ + n, !.used = now] IN
               \/ (Accepts(i, s) /\ Stored([sessions EXCEPT ![i] = s]))
               \/ (Rejects(i, s) /\ UNCHANGED <<sessions, durable>>)
  BY DEF Complete
<1> DEFINE s == [sessions[i] EXCEPT !.requests = @ + 1, !.bytes = @ + n, !.used = now]
<1>3. n \in Nat /\ MaxCount \in Nat BY SessionAssumption
<1>4. CASE UNCHANGED <<sessions, durable>> BY <1>4 DEF Complete, Moves
<1>5. CASE ~Unaccountable(i, n) /\ Accepts(i, s) /\ Stored([sessions EXCEPT ![i] = s])
  <2>1. sessions[i] \in SessionRecord /\ sessions[i] # Absent
    BY <1>1, <1>5, StatusFacts DEF IInv, MapsInv, MapsOK, Unaccountable
  <2>2. /\ sessions[i].requests + 1 \in 0 .. MaxCount
        /\ sessions[i].bytes + n \in 0 .. MaxCount
    BY <1>3, <1>5, <2>1 DEF Unaccountable, SessionRecord
  <2>3. s \in SessionRecord BY <2>1, <2>2 DEF IInv, MapsInv, ClockOK, SessionRecord
  <2>4. s.requests >= sessions[i].requests /\ s.bytes >= sessions[i].bytes
    BY <1>3, <2>1 DEF SessionRecord
  <2>5. Touches(i, s) BY <1>5, <2>1, <2>3, <2>4 DEF Touches, Complete, SessionRecord
  <2>6. QED BY <1>1, <2>3, <2>5 DEF Moves
<1>6. QED BY <1>2, <1>4, <1>5

LEMMA NextMoves == IInv /\ [Next]_vars => Moves
<1> SUFFICES ASSUME IInv, [Next]_vars PROVE Moves OBVIOUS
<1>1. ASSUME NEW i \in Ids, Rotate(i) PROVE Moves
  BY <1>1, RotateMoves DEF IInv, MapsInv, Moves
<1>2. ASSUME NEW r \in Requests, request[r].pc \in {"reused", "serving", "recorded"}
      PROVE  request[r].id \in Ids
  BY <1>2 DEF IInv, MapsInv, RequestsOK, Idle, RequestRecord
<1>3. ASSUME NEW r \in Requests, NEW k \in Keys, Begin(r, k) PROVE Moves
  BY <1>3 DEF Begin, Moves
<1>4. ASSUME NEW r \in Requests, SelectFails(r) \/ Join(r) \/ Answer(r) PROVE Moves
  BY <1>4 DEF SelectFails, Join, Answer, Moves
<1>5. ASSUME NEW r \in Requests, Check(r) PROVE Moves
  BY <1>1, <1>2, <1>5 DEF Check, RotateFails, Moves
<1>6. ASSUME NEW r \in Requests, Observe(r) PROVE Moves
  BY <1>1, <1>2, <1>6 DEF Observe
<1>7. ASSUME NEW r \in Requests, Retry(r) PROVE Moves
  BY <1>1, <1>2, <1>7 DEF Retry, RotateFails, Moves
<1>8. ASSUME NEW i \in Ids, DeleteSession(i) PROVE Moves
  <2>1. Rotated(sessions, {}) = sessions BY NothingRetired DEF IInv, MapsInv, MapsOK
  <2>2. {} \cup {i} = {i} OBVIOUS
  <2>3. Retires({}, {i}) BY <1>8, <2>1, <2>2 DEF DeleteSession, Retires
  <2>4. QED BY <2>3 DEF Moves
<1>9. CASE Activate \/ Tick BY <1>9 DEF Activate, Tick, Moves
<1>10. CASE UNCHANGED vars BY <1>10 DEF vars, Moves
<1>11. CASE Restart BY <1>11 DEF Moves
<1>12. QED
  BY <1>1, <1>3, <1>4, <1>5, <1>6, <1>7, <1>8, <1>9, <1>10, <1>11,
     ReuseMoves, MissMoves, BindMoves, CompleteMoves
  DEF Next, RotateSession

-----------------------------------------------------------------------------
(* The invariant of the maps, move by move.                                   *)

LEMMA PresentFinite ==
  ASSUME MapsOK
  PROVE  IsFiniteSet(Present(sessions)) /\ Cardinality(Present(sessions)) \in Nat
<1>1. IsFiniteSet(Present(sessions))
  BY SessionAssumption, FS_Subset DEF Present
<1>2. QED BY <1>1, FS_CardinalityType

LEMMA StoredDurable ==
  ASSUME durable = Durable(sessions), NEW f, Stored(f)
  PROVE  sessions' = f /\ durable' = Durable(sessions)'
BY DEF Durable, Stored

LEMMA TouchKeeps ==
  ASSUME MapsInv, NEW i \in Ids, NEW s \in SessionRecord, Touches(i, s)
  PROVE  MapsInv'
<1>1. /\ sessions' = [sessions EXCEPT ![i] = s] /\ index' = index
      /\ durable' = Durable(sessions)'
  BY StoredDurable DEF Touches, MapsInv
<1>2. sessions[i] \in SessionRecord BY StatusFacts DEF Touches, MapsInv, MapsOK
<1>3. MapsOK' BY <1>1 DEF MapsInv, MapsOK, Entry
<1>4. \A j \in Ids : /\ sessions'[j].status = sessions[j].status
                     /\ sessions'[j] # Absent <=> sessions[j] # Absent
                     /\ sessions'[j] # Absent => sessions'[j].key = sessions[j].key
  BY <1>1, StatusFacts DEF Touches, MapsInv, MapsOK, Entry
<1>5. Present(sessions)' = Present(sessions) /\ Active(sessions)' = Active(sessions)
  BY <1>4 DEF Present, Active
<1>6. WithinCapacity' BY <1>5 DEF MapsInv, WithinCapacity
<1>7. Validated' BY <1>1, <1>5 DEF Touches, Accepts, MapsInv, Validated, MapsOK, Present
<1>8. IndexSound'
  BY <1>1, <1>4, StatusFacts DEF MapsInv, IndexSound, MapsOK
<1>9. ActiveIsIndexed'
  <2>1. \A j \in Active(sessions) : j \in Ids /\ sessions[j] # Absent
    BY ActivePresent DEF MapsInv, MapsOK, Present
  <2>2. QED BY <1>1, <1>4, <1>5, <2>1 DEF MapsInv, ActiveIsIndexed
<1>10. QED BY <1>1, <1>3, <1>6, <1>7, <1>8, <1>9 DEF MapsInv

LEMMA RetireKeeps ==
  ASSUME MapsInv, NEW rot \in SUBSET Present(sessions), NEW gone \in SUBSET Ids,
         Retires(rot, gone)
  PROVE  MapsInv'
<1>1. /\ sessions' = Without(Rotated(sessions, rot), gone)
      /\ index' = Unindexed(rot \cup gone)
      /\ durable' = Durable(sessions)'
  BY StoredDurable DEF Retires, MapsInv
<1>2. /\ sessions' \in [Ids -> Entry]
      /\ \A i \in Ids : sessions'[i] = IF i \in gone THEN Absent
                                       ELSE IF i \in rot THEN [sessions[i] EXCEPT !.status = "rotated"]
                                       ELSE sessions[i]
      /\ Present(sessions)' = Present(sessions) \ gone
      /\ Active(sessions)' = Active(sessions) \ (rot \cup gone)
  BY <1>1, RetiredFacts DEF MapsInv, MapsOK
<1>3. MapsOK' BY <1>1, <1>2 DEF MapsInv, MapsOK, Unindexed
<1>4. \A i \in rot : sessions[i] \in SessionRecord /\ i \in Ids
  BY StatusFacts DEF MapsInv, MapsOK, Present
<1>5. WithinCapacity'
  <2>1. /\ IsFiniteSet(Present(sessions)) /\ Cardinality(Present(sessions)) \in Nat
    BY PresentFinite DEF MapsInv
  <2>2. Cardinality(Present(sessions) \ gone) <= Cardinality(Present(sessions))
    BY <2>1, FS_Subset
  <2>3. Cardinality(Present(sessions) \ gone) \in Nat
    BY <2>1, FS_Subset, FS_CardinalityType
  <2>4. QED BY <1>2, <2>1, <2>2, <2>3, SessionAssumption DEF MapsInv, WithinCapacity
<1>6. Validated'
  <2>1. ASSUME Persistent, NEW i \in Present(sessions)'
        PROVE  sessions'[i].used >= sessions'[i].created
    <3>1. i \in Present(sessions) /\ i \notin gone /\ i \in Ids
      BY <1>2 DEF Present
    <3>2. sessions[i].used >= sessions[i].created BY <2>1, <3>1 DEF MapsInv, Validated
    <3>3. CASE i \in rot BY <1>2, <1>4, <3>1, <3>2, <3>3, RotatedRecord
    <3>4. CASE i \notin rot BY <1>2, <3>1, <3>2, <3>4
    <3>5. QED BY <3>3, <3>4
  <2>2. QED BY <2>1 DEF Validated
<1>7. IndexSound'
  <2>1. ASSUME NEW k \in Keys, index'[k] # NoId
        PROVE  sessions'[index'[k]].status = "active" /\ sessions'[index'[k]].key = k
    <3>1. index'[k] = index[k] /\ index[k] \notin rot \cup gone
      BY <1>1, <2>1 DEF Unindexed
    <3>2. index[k] \in Ids BY <2>1, <3>1 DEF MapsInv, MapsOK
    <3>3. sessions'[index[k]] = sessions[index[k]] BY <1>2, <3>1, <3>2
    <3>4. QED BY <2>1, <3>1, <3>3 DEF MapsInv, IndexSound
  <2>2. QED BY <2>1 DEF IndexSound
<1>8. ActiveIsIndexed'
  <2>1. ASSUME Persistent, NEW i \in Active(sessions)'
        PROVE  index'[sessions'[i].key] = i
    <3>1. i \in Active(sessions) /\ i \notin rot \cup gone /\ i \in Ids
      BY <1>2 DEF Active
    <3>2. sessions'[i] = sessions[i] BY <1>2, <3>1
    <3>3. sessions[i] \in SessionRecord BY <3>1, StatusFacts DEF MapsInv, MapsOK, Active
    <3>4. sessions[i].key \in Keys BY <3>3 DEF SessionRecord
    <3>5. index[sessions[i].key] = i BY <2>1, <3>1 DEF MapsInv, ActiveIsIndexed
    <3>6. QED BY <1>1, <3>1, <3>2, <3>4, <3>5 DEF Unindexed
  <2>2. QED BY <2>1 DEF ActiveIsIndexed
<1>9. QED BY <1>1, <1>3, <1>5, <1>6, <1>7, <1>8 DEF MapsInv

LEMMA CreateKeeps ==
  ASSUME MapsInv, NEW k \in Keys, NEW i \in Ids, NEW s \in SessionRecord,
         NEW gone \in SUBSET Ids, Creates(k, i, s, gone)
  PROVE  MapsInv'
<1>1. /\ sessions' = [Without(sessions, gone) EXCEPT ![i] = s]
      /\ index' = [Unindexed(gone) EXCEPT ![k] = i]
      /\ durable' = Durable(sessions)'
  BY StoredDurable DEF Creates, MapsInv
<1>2. gone \subseteq Present(sessions) \ Active(sessions)
  BY RoomFacts DEF Creates, MapsInv, MapsOK
<1>3. i \notin gone /\ i \notin Present(sessions) BY <1>2 DEF Creates, Present
<1>4. \A j \in Ids : sessions'[j] = IF j = i THEN s ELSE IF j \in gone THEN Absent ELSE sessions[j]
  BY <1>1 DEF Without
<1>5. MapsOK'
  BY <1>1 DEF MapsInv, MapsOK, Entry, Without, Unindexed
<1>6. s # Absent /\ s.status = "active" /\ s.key = k BY StatusFacts DEF Creates, Entry
<1>7. Present(sessions)' = (Present(sessions) \ gone) \cup {i}
  BY <1>4, <1>6 DEF Present
<1>8. Active(sessions)' = Active(sessions) \cup {i}
  <2>1. Absent.status # "active" BY DEF Absent
  <2>2. QED BY <1>2, <1>4, <1>6, <2>1 DEF Active
<1>9. WithinCapacity'
  <2>1. /\ IsFiniteSet(Present(sessions)) /\ Cardinality(Present(sessions)) \in Nat
    BY PresentFinite DEF MapsInv
  <2>2. CASE gone = {} /\ Cardinality(Present(sessions)) < Capacity
    <3>1. Present(sessions)' = Present(sessions) \cup {i} BY <1>7, <2>2
    <3>2. Cardinality(Present(sessions)') = Cardinality(Present(sessions)) + 1
      BY <1>3, <2>1, <3>1, FS_AddElement
    <3>3. QED BY <2>1, <2>2, <3>2, SessionAssumption DEF WithinCapacity
  <2>3. ASSUME NEW j \in Present(sessions), gone = {j} PROVE WithinCapacity'
    <3> DEFINE rest == Present(sessions) \ {j}
    <3>1. IsFiniteSet(rest) /\ Cardinality(rest) = Cardinality(Present(sessions)) - 1
      BY <2>1, FS_RemoveElement
    <3>2. i \notin rest BY <1>3
    <3> HIDE DEF rest
    <3>3. Cardinality(rest \cup {i}) = Cardinality(rest) + 1 BY <3>1, <3>2, FS_AddElement
    <3>4. Present(sessions)' = rest \cup {i} BY <1>7, <2>3 DEF rest
    <3>5. QED BY <2>1, <3>1, <3>3, <3>4, SessionAssumption DEF MapsInv, WithinCapacity
  <2>4. QED BY <2>2, <2>3, RoomFacts DEF Creates, MapsInv, MapsOK
<1>10. Validated'
  BY <1>4, <1>7 DEF MapsInv, Validated, Creates, Accepts, Present
<1>11. IndexSound'
  <2>1. ASSUME NEW l \in Keys, index'[l] # NoId
        PROVE  sessions'[index'[l]].status = "active" /\ sessions'[index'[l]].key = l
    <3>1. CASE l = k BY <1>1, <1>4, <1>5, <1>6, <3>1 DEF MapsOK, Unindexed
    <3>2. CASE l # k
      <4>1. index'[l] = index[l] /\ index[l] \notin gone
        BY <1>1, <2>1, <3>2 DEF Unindexed
      <4>2. index[l] \in Ids BY <2>1, <4>1 DEF MapsInv, MapsOK
      <4>3. sessions[index[l]].status = "active" /\ sessions[index[l]].key = l
        BY <2>1, <4>1 DEF MapsInv, IndexSound
      <4>4. index[l] # i BY <4>3 DEF Creates, Absent
      <4>5. QED BY <1>4, <4>1, <4>2, <4>3, <4>4
    <3>3. QED BY <3>1, <3>2
  <2>2. QED BY <2>1 DEF IndexSound
<1>12. ActiveIsIndexed'
  <2>1. ASSUME Persistent, NEW j \in Active(sessions)'
        PROVE  index'[sessions'[j].key] = j
    <3>1. CASE j = i BY <1>1, <1>4, <1>6, <3>1 DEF Unindexed
    <3>2. CASE j # i
      <4>1. j \in Active(sessions) /\ j \in Ids /\ j \notin gone
        BY <1>2, <1>8, <3>2 DEF Active
      <4>2. sessions'[j] = sessions[j] BY <1>4, <3>2, <4>1
      <4>3. sessions[j] \in SessionRecord BY <4>1, StatusFacts DEF MapsInv, MapsOK, Active
      <4>4. sessions[j].key \in Keys BY <4>3 DEF SessionRecord
      <4>5. sessions[j].key # k
        BY <1>6, <2>1, <3>2, <4>1 DEF Creates, Accepts, MapsInv, Durable
      <4>6. index[sessions[j].key] = j BY <2>1, <4>1 DEF MapsInv, ActiveIsIndexed
      <4>7. QED BY <1>1, <4>1, <4>2, <4>4, <4>5, <4>6 DEF Unindexed
    <3>3. QED BY <3>1, <3>2
  <2>2. QED BY <2>1 DEF ActiveIsIndexed
<1>13. QED BY <1>1, <1>5, <1>9, <1>10, <1>11, <1>12 DEF MapsInv

(* A crash loses nothing of a persistent manager, so a restart finds what     *)
(* memory had; the index it makes is the one that was lost.                   *)
LEMMA RestartKeeps ==
  ASSUME MapsInv, Restart
  PROVE  MapsInv' /\ sessions' = sessions
<1>1. Persistent /\ durable = sessions BY DEF Restart, MapsInv, Durable
<1>2. sessions' = sessions /\ durable' = Durable(sessions)'
  BY <1>1 DEF Restart, Durable
<1>3. \A k \in Keys :
        IF \E i \in Active(sessions) : sessions[i].key = k
        THEN index'[k] \in Active(sessions) /\ sessions[index'[k]].key = k
        ELSE index'[k] = NoId
  BY <1>1 DEF Restart
<1>4. \A i \in Active(sessions) :
        i \in Ids /\ sessions[i].status = "active" /\ sessions[i].key \in Keys
  BY StatusFacts DEF Active, MapsInv, MapsOK, SessionRecord
<1>5. index' \in [Keys -> Ids \cup {NoId}]
  <2>1. \A k \in Keys : index'[k] \in Ids \cup {NoId} BY <1>3, <1>4
  <2>2. index' = [k \in Keys |-> index'[k]] BY DEF Restart
  <2>3. QED BY <2>1, <2>2
<1>6. MapsOK' BY <1>2, <1>5 DEF MapsInv, MapsOK
<1>7. IndexSound' BY <1>2, <1>3, <1>4 DEF IndexSound
<1>8. ActiveIsIndexed'
  <2>1. ASSUME NEW i \in Active(sessions) PROVE index'[sessions[i].key] = i
    <3>1. /\ index'[sessions[i].key] \in Active(sessions)
          /\ sessions[index'[sessions[i].key]].key = sessions[i].key
      BY <1>3, <1>4
    <3>2. QED BY <1>1, <3>1 DEF MapsInv, ActiveIsIndexed
  <2>2. Active(sessions)' = Active(sessions) BY <1>2
  <2>3. QED BY <1>2, <2>1, <2>2 DEF ActiveIsIndexed
<1>9. Validated' /\ WithinCapacity'
  BY <1>2 DEF MapsInv, Validated, WithinCapacity
<1>10. QED BY <1>2, <1>6, <1>7, <1>8, <1>9 DEF MapsInv

LEMMA MovesKeepMaps == MapsInv /\ Moves => MapsInv'
<1>1. ASSUME MapsInv, UNCHANGED <<sessions, index, durable>> PROVE MapsInv'
  BY <1>1 DEF MapsInv, MapsOK, Durable, Validated, WithinCapacity, IndexSound, ActiveIsIndexed
<1>2. QED BY <1>1, TouchKeeps, RetireKeeps, CreateKeeps, RestartKeeps DEF Moves

-----------------------------------------------------------------------------
(* The requests and the clock.                                                *)

LEMMA RequestUpdate ==
  ASSUME RequestsOK, NEW r \in Requests, NEW q \in RequestRecord,
         q.pc \in {"reused", "serving", "recorded"} => q.id # NoId,
         request' = [request EXCEPT ![r] = q]
  PROVE  RequestsOK'
BY DEF RequestsOK

LEMMA GotoOK ==
  ASSUME RequestsOK, NEW r \in Requests, request[r] # Idle,
         NEW pc \in {"select", "recorded", "serving", "failed", "full", "unroutable"},
         Goto(r, pc), pc \in {"recorded", "serving"} => request[r].id # NoId
  PROVE  RequestsOK'
<1> DEFINE q == [request[r] EXCEPT !.pc = pc]
<1>1. q \in RequestRecord /\ q.pc = pc /\ q.id = request[r].id
  BY DEF RequestsOK, RequestRecord
<1>2. request' = [request EXCEPT ![r] = q] BY DEF Goto, RequestsOK
<1>3. QED BY <1>1, <1>2, RequestUpdate

LEMMA ServeOK ==
  ASSUME RequestsOK, NEW r \in Requests, request[r] # Idle, NEW i \in Ids,
         NEW pc \in {"reused", "serving"}, Serve(r, i, pc)
  PROVE  RequestsOK'
<1> DEFINE q == [request[r] EXCEPT !.pc = pc, !.id = i]
<1>1. q \in RequestRecord /\ q.id # NoId
  BY SessionAssumption DEF RequestsOK, RequestRecord
<1>2. request' = [request EXCEPT ![r] = q] BY DEF Serve, RequestsOK
<1>3. QED BY <1>1, <1>2, RequestUpdate

LEMMA AgainOK ==
  ASSUME RequestsOK, ClockOK, NEW r \in Requests, request[r] # Idle,
         NEW again \in BOOLEAN, Again(r, again)
  PROVE  RequestsOK'
<1> DEFINE q == [request[r] EXCEPT !.pc = "resolve", !.at = now, !.id = NoId, !.again = again]
<1>1. q \in RequestRecord /\ q.pc = "resolve"
  BY DEF RequestsOK, ClockOK, RequestRecord
<1>2. request' = [request EXCEPT ![r] = q] BY DEF Again, RequestsOK
<1>3. QED BY <1>1, <1>2, RequestUpdate

LEMMA StepRequests == IInv /\ [Next]_vars => RequestsOK' /\ ClockOK'
<1> SUFFICES ASSUME IInv, [Next]_vars PROVE RequestsOK' /\ ClockOK' OBVIOUS
<1> USE DEF IInv
<1>1. ASSUME UNCHANGED request PROVE RequestsOK'
  BY <1>1 DEF RequestsOK
<1>2. ASSUME UNCHANGED <<now, runtime>> PROVE ClockOK'
  BY <1>2 DEF ClockOK
<1>3. ASSUME NEW r \in Requests, NEW k \in Keys, Begin(r, k) PROVE RequestsOK' /\ ClockOK'
  <2> DEFINE q == [pc |-> "resolve", key |-> k, policy |-> runtime.policy,
                   revision |-> runtime.revision, at |-> now, id |-> NoId, again |-> FALSE]
  <2>1. q \in RequestRecord BY DEF ClockOK, RequestRecord
  <2>2. QED BY <1>2, <1>3, <2>1, RequestUpdate DEF Begin
<1>4. ASSUME NEW r \in Requests, Reuse(r) PROVE RequestsOK' /\ ClockOK'
  <2>1. request[r] # Idle /\ request[r].key \in Keys
    BY <1>4 DEF Reuse, Idle, RequestsOK, RequestRecord
  <2>2. index[request[r].key] \in Ids
    BY <1>4, <2>1 DEF Reuse, Live, MapsInv, MapsOK
  <2>3. ASSUME Goto(r, "failed") PROVE RequestsOK' BY <2>1, <2>3, GotoOK
  <2>4. ASSUME NEW pc \in {"serving", "reused"}, Serve(r, index[request[r].key], pc)
        PROVE  RequestsOK'
    BY <2>1, <2>2, <2>4, ServeOK
  <2>5. QED BY <1>2, <1>4, <2>3, <2>4 DEF Reuse
<1>5. ASSUME NEW r \in Requests, Miss(r) PROVE RequestsOK' /\ ClockOK'
  BY <1>2, <1>5, GotoOK DEF Miss, Idle
<1>6. ASSUME NEW r \in Requests, SelectFails(r) PROVE RequestsOK' /\ ClockOK'
  BY <1>2, <1>6, GotoOK DEF SelectFails, Idle
<1>7. ASSUME NEW r \in Requests, Join(r) PROVE RequestsOK' /\ ClockOK'
  <2>1. request[r] # Idle /\ request[r].key \in Keys
    BY <1>7 DEF Join, Idle, RequestsOK, RequestRecord
  <2>2. index[request[r].key] \in Ids
    BY <1>7, <2>1 DEF Join, Live, MapsInv, MapsOK
  <2>3. QED BY <1>2, <1>7, <2>1, <2>2, ServeOK DEF Join
<1>8. ASSUME NEW r \in Requests, Bind(r) PROVE RequestsOK' /\ ClockOK'
  <2>1. request[r] # Idle BY <1>8 DEF Bind, Idle
  <2>2. ASSUME NEW i \in Unseen, Serve(r, i, "serving") PROVE RequestsOK'
    BY <2>1, <2>2, ServeOK DEF Unseen
  <2>3. ASSUME Goto(r, "failed") \/ Goto(r, "full") PROVE RequestsOK' BY <2>1, <2>3, GotoOK
  <2>4. QED BY <1>2, <1>8, <2>2, <2>3 DEF Bind
<1>9. ASSUME NEW r \in Requests, Check(r) \/ Retry(r) PROVE RequestsOK' /\ ClockOK'
  <2>0. request[r].pc \in {"reused", "recorded"} BY <1>9 DEF Check, Retry
  <2>1. request[r] # Idle /\ request[r].id # NoId BY <2>0 DEF Idle, RequestsOK
  <2>2. QED BY <1>2, <1>9, <2>1, GotoOK, AgainOK DEF Check, Retry
<1>10. ASSUME NEW r \in Requests, Observe(r) PROVE RequestsOK' /\ ClockOK'
  BY <1>1, <1>2, <1>10 DEF Observe
<1>11. ASSUME NEW r \in Requests, Complete(r) PROVE RequestsOK' /\ ClockOK'
  BY <1>2, <1>11, GotoOK DEF Complete, Idle, RequestsOK
<1>12. ASSUME NEW r \in Requests, Answer(r) PROVE RequestsOK' /\ ClockOK'
  BY <1>2, <1>12 DEF Answer, RequestsOK, Idle
<1>13. ASSUME NEW i \in Ids, RotateSession(i) \/ DeleteSession(i) PROVE RequestsOK' /\ ClockOK'
  BY <1>1, <1>2, <1>13 DEF RotateSession, DeleteSession
<1>14. CASE Activate
  BY <1>1, <1>14, SessionAssumption DEF Activate, ClockOK
<1>15. CASE Tick
  BY <1>1, <1>15, SessionAssumption DEF Tick, ClockOK
<1>16. CASE Restart
  BY <1>2, <1>16 DEF Restart, RequestsOK, Idle
<1>17. CASE UNCHANGED vars BY <1>1, <1>2, <1>17 DEF vars
<1>18. QED
  BY <1>3, <1>4, <1>5, <1>6, <1>7, <1>8, <1>9, <1>10, <1>11, <1>12, <1>13, <1>14,
     <1>15, <1>16, <1>17 DEF Next

-----------------------------------------------------------------------------
(* The theorems.                                                              *)

LEMMA InitInv == Init => IInv
<1> SUFFICES ASSUME Init PROVE IInv OBVIOUS
<1>1. MapsOK /\ durable = Durable(sessions) BY DEF Init, MapsOK, Durable, Entry
<1>2. Present(sessions) = {} /\ Active(sessions) = {}
  BY DEF Init, Present, Active, Absent
<1>3. WithinCapacity BY <1>2, FS_EmptySet, SessionAssumption DEF WithinCapacity
<1>4. Validated /\ IndexSound /\ ActiveIsIndexed
  BY <1>2 DEF Init, Validated, IndexSound, ActiveIsIndexed
<1>5. RequestsOK /\ ClockOK BY SessionAssumption DEF Init, RequestsOK, ClockOK, Idle
<1>6. QED BY <1>1, <1>3, <1>4, <1>5 DEF IInv, MapsInv

LEMMA Invariance == Spec => []IInv
<1>1. IInv /\ [Next]_vars => IInv'
  BY NextMoves, MovesKeepMaps, StepRequests DEF IInv
<1>2. QED BY <1>1, InitInv, PTL DEF Spec

(* Every variable keeps its shape.                                            *)
THEOREM TypeCorrect == Spec => []TypeOK
<1>1. IInv => TypeOK
  BY DEF IInv, MapsInv, MapsOK, RequestsOK, ClockOK, TypeOK, Entry, Durable
<1>2. QED BY <1>1, Invariance, PTL

(* The manager never holds more sessions than its capacity.                   *)
THEOREM CapacityKept == Spec => []WithinCapacity
<1>1. IInv => WithinCapacity BY DEF IInv, MapsInv
<1>2. QED BY <1>1, Invariance, PTL

(* The index and the sessions agree in both directions.                       *)
THEOREM IndexAgrees == Spec => []IndexExact
<1>1. IInv => IndexExact BY DEF IInv, MapsInv, IndexExact
<1>2. QED BY <1>1, Invariance, PTL

(* Memory and table agree after every step, failed writes included.           *)
THEOREM MemoryKept == Spec => []MemoryIsDurable
<1>1. IInv => MemoryIsDurable BY DEF IInv, MapsInv, MemoryIsDurable, Durable
<1>2. QED BY <1>1, Invariance, PTL

(* Whenever the process dies, the next one accepts the table.                 *)
THEOREM RestartAccepts == Spec => []Reloadable
<1>1. ASSUME IInv PROVE Reloadable
  <2>1. CASE Persistent
    <3>1. durable = sessions BY <1>1, <2>1 DEF IInv, MapsInv, Durable
    <3>2. \A i, j \in Active(sessions) : sessions[i].key = sessions[j].key => i = j
      BY <1>1, <2>1 DEF IInv, MapsInv, ActiveIsIndexed
    <3>3. QED BY <1>1, <2>1, <3>1, <3>2
      DEF IInv, MapsInv, Validated, WithinCapacity, Reloadable, Loadable
  <2>2. CASE ~Persistent
    <3>1. Present(durable) = {} /\ Active(durable) = {}
      BY <1>1, <2>2 DEF IInv, MapsInv, Durable, Present, Active, Absent
    <3>2. QED BY <3>1, FS_EmptySet, SessionAssumption DEF Reloadable, Loadable
  <2>3. QED BY <2>1, <2>2
<1>2. QED BY <1>1, Invariance, PTL

(* A step of one request leaves the others where they are.                    *)
LEMMA OthersStay ==
  ASSUME RequestsOK, NEW r \in Requests, NEW o \in Requests \ {r},
         \/ \E k \in Keys : Begin(r, k)
         \/ Reuse(r) \/ Miss(r) \/ SelectFails(r) \/ Join(r) \/ Bind(r)
         \/ Check(r) \/ Observe(r) \/ Retry(r) \/ Complete(r) \/ Answer(r)
  PROVE  request'[o] = request[o]
<1>1. ASSUME NEW pc, Goto(r, pc) PROVE request'[o] = request[o] BY <1>1 DEF Goto, RequestsOK
<1>2. ASSUME NEW i, NEW pc, Serve(r, i, pc) PROVE request'[o] = request[o] BY <1>2 DEF Serve, RequestsOK
<1>3. ASSUME NEW b, Again(r, b) PROVE request'[o] = request[o] BY <1>3 DEF Again, RequestsOK
<1>4. CASE \E k \in Keys : Begin(r, k) BY <1>4 DEF Begin, RequestsOK
<1>5. CASE Reuse(r) BY <1>1, <1>2, <1>5 DEF Reuse
<1>6. CASE Miss(r) BY <1>1, <1>6 DEF Miss
<1>7. CASE SelectFails(r) \/ Join(r) BY <1>1, <1>2, <1>7 DEF SelectFails, Join
<1>8. CASE Bind(r) BY <1>1, <1>2, <1>8 DEF Bind
<1>9. CASE Check(r) \/ Retry(r) BY <1>1, <1>3, <1>9 DEF Check, Retry
<1>10. CASE Complete(r) BY <1>1, <1>10 DEF Complete
<1>11. CASE Observe(r) \/ Answer(r) BY <1>11 DEF Observe, Answer, RequestsOK
<1>12. QED BY <1>4, <1>5, <1>6, <1>7, <1>8, <1>9, <1>10, <1>11

(* Resolve leaves a key the binding that serves it, in both locked sections.  *)
THEOREM AffinityKept == Spec => Affinity
<1>1. ASSUME IInv, [Next]_vars, NEW r \in Requests,
             request[r].pc \in {"resolve", "select"},
             request'[r].pc \notin {request[r].pc, "idle"},
             Live(request[r].key, request[r].policy, request[r].revision, request[r].at)
      PROVE  index'[request[r].key] = index[request[r].key]
  <2>1. request'[r] # request[r] BY <1>1
  <2>2. CASE \E o \in Requests :
               \/ \E k \in Keys : Begin(o, k)
               \/ Reuse(o) \/ Miss(o) \/ SelectFails(o) \/ Join(o) \/ Bind(o)
               \/ Check(o) \/ Observe(o) \/ Retry(o) \/ Complete(o) \/ Answer(o)
    <3>1. \/ \E k \in Keys : Begin(r, k)
          \/ Reuse(r) \/ Miss(r) \/ SelectFails(r) \/ Join(r) \/ Bind(r)
          \/ Check(r) \/ Observe(r) \/ Retry(r) \/ Complete(r) \/ Answer(r)
      BY <1>1, <2>1, <2>2, OthersStay DEF IInv
    <3>2. ~(\E k \in Keys : Begin(r, k)) BY <1>1 DEF Begin, Idle
    <3>3. ~(Check(r) \/ Observe(r) \/ Retry(r) \/ Complete(r) \/ Answer(r))
      BY <1>1 DEF Check, Observe, Retry, Complete, Answer
    <3>4. ~(Miss(r) \/ Bind(r)) BY <1>1 DEF Miss, Bind
    <3>5. QED BY <3>1, <3>2, <3>3, <3>4 DEF Reuse, SelectFails, Join
  <2>3. CASE (\E i \in Ids : RotateSession(i) \/ DeleteSession(i)) \/ Activate \/ Tick
    BY <2>1, <2>3 DEF RotateSession, DeleteSession, Activate, Tick
  <2>4. CASE Restart BY <1>1, <2>4 DEF Restart, Idle
  <2>5. CASE UNCHANGED vars BY <2>1, <2>5 DEF vars
  <2>6. QED BY <1>1, <2>2, <2>3, <2>4, <2>5 DEF Next
<1>2. IInv /\ [Next]_vars =>
        [\A r \in Requests :
           LET q == request[r] IN
           /\ q.pc \in {"resolve", "select"}
           /\ request'[r].pc \notin {q.pc, "idle"}
           /\ Live(q.key, q.policy, q.revision, q.at)
           => index'[q.key] = index[q.key]]_vars
  BY <1>1
<1>3. QED BY <1>2, Invariance, PTL DEF Spec, Affinity

(* A session that stays keeps what identifies it, counts upwards and is not   *)
(* revived.                                                                   *)
THEOREM HistoryKept == Spec => History
<1>1. ASSUME IInv, [Next]_vars, NEW i \in Present(sessions), sessions'[i] # Absent
      PROVE  /\ sessions'[i].key = sessions[i].key
             /\ sessions'[i].endpoint = sessions[i].endpoint
             /\ sessions'[i].created = sessions[i].created
             /\ sessions'[i].requests >= sessions[i].requests
             /\ sessions'[i].bytes >= sessions[i].bytes
             /\ sessions[i].status = "rotated" => sessions'[i].status = "rotated"
  <2>1. i \in Ids /\ sessions[i] \in SessionRecord /\ sessions[i] # Absent
    BY <1>1, StatusFacts DEF IInv, MapsInv, MapsOK, Present
  <2>2. /\ sessions[i].requests >= sessions[i].requests
        /\ sessions[i].bytes >= sessions[i].bytes
    BY <2>1, SessionAssumption DEF SessionRecord
  <2>3. CASE sessions'[i] = sessions[i] BY <2>2, <2>3
  <2>4. ASSUME NEW j \in Ids, NEW s \in SessionRecord, Touches(j, s), sessions'[i] # sessions[i]
        PROVE  sessions'[i] = s /\ i = j
    BY <1>1, <2>1, <2>4 DEF Touches, Stored, IInv, MapsInv, MapsOK
  <2>5. CASE \E j \in Ids, s \in SessionRecord : Touches(j, s)
    BY <2>3, <2>4, <2>5 DEF Touches
  <2>6. CASE \E rot \in SUBSET Present(sessions), gone \in SUBSET Ids : Retires(rot, gone)
    <3>1. PICK rot \in SUBSET Present(sessions), gone \in SUBSET Ids : Retires(rot, gone)
      BY <2>6
    <3>2. sessions' = Without(Rotated(sessions, rot), gone) BY <3>1 DEF Retires, Stored
    <3>3. sessions'[i] = IF i \in rot THEN [sessions[i] EXCEPT !.status = "rotated"]
                         ELSE sessions[i]
      BY <1>1, <2>1, <3>2, RetiredFacts DEF IInv, MapsInv, MapsOK
    <3>4. CASE i \in rot BY <2>1, <2>2, <3>3, <3>4, RotatedRecord
    <3>5. QED BY <2>3, <3>3, <3>4
  <2>7. ASSUME NEW k \in Keys, NEW j \in Ids, NEW s \in SessionRecord, NEW gone \in SUBSET Ids,
               Creates(k, j, s, gone)
        PROVE  sessions'[i] = sessions[i]
    <3>1. sessions' = [Without(sessions, gone) EXCEPT ![j] = s] BY <2>7 DEF Creates, Stored
    <3>2. i # j BY <2>1, <2>7 DEF Creates
    <3>3. sessions'[i] = IF i \in gone THEN Absent ELSE sessions[i]
      BY <2>1, <3>1, <3>2 DEF Without
    <3>4. QED BY <1>1, <3>3
  <2>8. CASE Restart
    <3>1. sessions' = sessions BY <1>1, <2>8, RestartKeeps DEF IInv
    <3>2. QED BY <2>3, <3>1
  <2>9. QED BY <1>1, <2>3, <2>5, <2>6, <2>7, <2>8, NextMoves DEF Moves
<1>2. IInv /\ [Next]_vars =>
        [\A i \in Present(sessions) : sessions'[i] # Absent =>
           /\ sessions'[i].key = sessions[i].key
           /\ sessions'[i].endpoint = sessions[i].endpoint
           /\ sessions'[i].created = sessions[i].created
           /\ sessions'[i].requests >= sessions[i].requests
           /\ sessions'[i].bytes >= sessions[i].bytes
           /\ sessions[i].status = "rotated" => sessions'[i].status = "rotated"]_vars
  BY <1>1
<1>3. QED BY <1>2, Invariance, PTL DEF Spec, History
=============================================================================
