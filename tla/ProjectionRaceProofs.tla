------------------------ MODULE ProjectionRaceProofs ------------------------
(***************************************************************************)
(* What any number of replicas guarantee although nothing joins a handler's *)
(* stale check to its write: only a handler that another one overtook in    *)
(* between can do harm.  The handlers that were not overtaken raise the     *)
(* version, write published states and repair what races have left; until a *)
(* row is torn it is never stale against what was acknowledged.             *)
(***************************************************************************)
EXTENDS ProjectionReplicaProofs

-----------------------------------------------------------------------------
(* Nobody has changed the row since the stale check of a handler that is    *)
(* not overtaken, so what the check, the re-read and the SELECT saw still   *)
(* holds when the row is written.                                           *)
Fresh(w) ==
    /\ Checked(w) => row.version < event[w]
    /\ pc[w] \in {"load", "write"} =>
        IF Effect(event[w]) = Upsert THEN entity[w] = Payload(event[w])
        ELSE /\ Exists(row)
             /\ entity[w].attrs = row.attrs
             /\ entity[w].status = hist[event[w]].status
    /\ pc[w] = "write" => loaded[w] = row

(* What overtaken handlers keep too.                                        *)
Aware(w) ==
    /\ pc[w] \in {"load", "write"} => entity[w].version = event[w]
    /\ pc[w] = "write" => loaded[w].version <= peak

RaceInv ==
    /\ TypeInv
    /\ StatusEventsAgree
    /\ row.version <= peak
    /\ \A w \in Workers : Aware(w) /\ (w \in overtaken \/ Fresh(w))

-----------------------------------------------------------------------------
(* What the invariant says of one handler.                                  *)
LEMMA RaceFacts ==
  ASSUME RaceInv, NEW w \in Workers
  PROVE  /\ row \in Row /\ row.version \in Nat
         /\ peak \in Nat /\ row.version <= peak
         /\ entity[w] \in Row /\ loaded[w] \in Row /\ event[w] \in Nat
         /\ entity[w].version \in Nat /\ loaded[w].version \in Nat
         /\ pc[w] # "idle" => event[w] \in Published
         /\ Published \subseteq Nat \ {0}
         /\ Aware(w)
         /\ w \notin overtaken => Fresh(w)
BY DEF RaceInv, TypeInv, TypeOK, HandlesPublished, Published, Row

(* A write that nobody overtook replaces the row by its entity: the payload,*)
(* or the row's own attributes with a newer status.                         *)
LEMMA FreshWrite ==
  ASSUME RaceInv, NEW w \in Workers, w \notin overtaken, Writes(w)
  PROVE  /\ row' = entity[w]
         /\ row'.version = event[w] /\ row.version < event[w]
         /\ event[w] \in Published
         /\ IF Effect(event[w]) = Upsert THEN row' = Payload(event[w])
            ELSE /\ Exists(row) /\ row'.attrs = row.attrs
                 /\ row'.status = hist[event[w]].status
<1>1. /\ Fresh(w) /\ Aware(w) /\ pc[w] = "write"
      /\ entity[w] \in Row /\ row \in Row /\ row.version \in Nat /\ event[w] \in Nat
      /\ event[w] \in Published
  BY RaceFacts DEF Writes
<1>2. /\ loaded[w] = row /\ entity[w].version = event[w] /\ row.version < event[w]
  BY <1>1 DEF Fresh, Aware, Checked
<1>3. Saved(entity[w], row, row) = entity[w]
  BY <1>1, <1>2, FreshSave
<1>4. row' = entity[w]
  BY <1>2, <1>3 DEF Writes
<1>5. QED BY <1>1, <1>2, <1>4 DEF Fresh

(* The version a write leaves behind has been shown by the row.             *)
LEMMA WriteShows ==
  ASSUME RaceInv, NEW w \in Workers, Writes(w), row' \in Row
  PROVE  /\ peak' \in Nat /\ peak <= peak' /\ event[w] <= peak'
         /\ row'.version <= peak'
<1>1. /\ pc[w] = "write" /\ Aware(w) /\ peak \in Nat /\ row.version <= peak
      /\ row.version \in Nat /\ event[w] \in Nat
      /\ loaded[w].version \in Nat
  BY RaceFacts DEF Writes
<1>2. entity[w].version = event[w] /\ loaded[w].version <= peak
  BY <1>1 DEF Aware
<1>3. row'.version \in Nat
  BY DEF Row
<1>4. /\ peak' \in Nat /\ peak <= peak' /\ row'.version <= peak'
  <2>1. CASE row' = row
    BY <1>1, <2>1 DEF Writes, Remember, pastVars
  <2>2. CASE row' # row
    BY <1>1, <1>3, <2>2 DEF Writes, Remember
  <2>3. QED BY <2>1, <2>2
<1>5. CASE loaded[w].version = event[w]
  BY <1>1, <1>2, <1>4, <1>5
<1>6. CASE loaded[w].version # event[w]
  <2>1. "version" \in Changed(entity[w], loaded[w])
    BY <1>2, <1>6 DEF Changed
  <2>2. row'.version = event[w]
    BY <1>2, <2>1 DEF Writes, Saved
  <2>3. QED BY <1>4, <2>2
<1>7. QED BY <1>4, <1>5, <1>6

(* Only a write moves the row or the peak, and the peak never falls.        *)
LEMMA MovesRow ==
  ASSUME RaceInv, NEW w \in Workers, Handle(w) \/ Disturb(w)
  PROVE  /\ row' \in Row /\ row'.version \in Nat
         /\ peak' \in Nat /\ peak <= peak' /\ row'.version <= peak'
         /\ ~Writes(w) => /\ row' = row /\ UNCHANGED <<peak, torn>>
                          /\ overtaken' \in {overtaken, overtaken \ {w}}
<1>1. row' \in Row
  BY TypeInvStep DEF RaceInv, TypeInv, TypeOK, Next
<1>2. row'.version \in Nat
  BY <1>1 DEF Row
<1>3. CASE Writes(w)
  BY <1>1, <1>2, <1>3, WriteShows
<1>4. CASE ~Writes(w)
  <2>1. row' = row /\ UNCHANGED <<peak, torn>> /\ overtaken' \in {overtaken, overtaken \ {w}}
    BY <1>4, Moves DEF RaceInv, Starts, Skips, Passes, FindsNoRow, SavesPayload,
       SavesStatus, Loads, Acks, Throws, Dies, LosesPartition, Quiet, Unseen, Forgets, pastVars
  <2>2. QED BY <1>1, <1>2, <2>1, RaceFacts
<1>5. QED BY <1>3, <1>4

(* A step of one replica, for the others: either the row stays, and with it *)
(* what they saw, or they are overtaken.                                    *)
LEMMA OthersStayAware ==
  ASSUME RaceInv, NEW w \in Workers, Handle(w) \/ Disturb(w),
         NEW u \in Workers \ {w}
  PROVE  Aware(u)' /\ (u \in overtaken' \/ Fresh(u)')
<1>1. /\ hist' = hist /\ pc'[u] = pc[u] /\ event'[u] = event[u]
      /\ entity'[u] = entity[u] /\ loaded'[u] = loaded[u]
  BY Moves DEF RaceInv, OthersKept
<1>2. Aware(u)'
  BY <1>1, MovesRow, RaceFacts DEF Aware
<1>3. CASE row' = row
  <2>1. u \in overtaken => u \in overtaken'
    <3>1. CASE Writes(w)
      BY <1>3, <3>1 DEF Writes, Remember, pastVars
    <3>2. CASE ~Writes(w)
      BY <3>2, MovesRow
    <3>3. QED BY <3>1, <3>2
  <2>2. Fresh(u) => Fresh(u)'
    BY <1>1, <1>3 DEF Fresh, Checked, Effect, Payload, Exists
  <2>3. QED BY <1>2, <2>1, <2>2, RaceFacts
<1>4. CASE row' # row
  <2>1. Writes(w)
    BY <1>4, MovesRow
  <2>2. Checked(u) => u \in overtaken'
    BY <1>4, <2>1 DEF Writes, Remember
  <2>3. ~Checked(u) => Fresh(u)'
    BY <1>1 DEF Fresh, Checked
  <2>4. QED BY <1>2, <2>2, <2>3
<1>5. QED BY <1>3, <1>4

LEMMA RaceMove ==
  ASSUME RaceInv, NEW w \in Workers, Handle(w) \/ Disturb(w)
  PROVE  Aware(w)' /\ (w \in overtaken' \/ Fresh(w)')
<1>1. /\ hist' = hist
      /\ \A v : Effect(v)' = Effect(v) /\ Payload(v)' = Payload(v)
  BY Moves DEF RaceInv, Effect, Payload
<1>2. /\ row.version \in Nat /\ peak \in Nat /\ row.version <= peak
      /\ event[w] \in Nat /\ row \in Row
      /\ pc[w] # "idle" => event[w] \in Published
      /\ Published \subseteq Nat \ {0}
      /\ Aware(w) /\ (w \notin overtaken => Fresh(w))
  BY RaceFacts
<1> USE DEF SameMessage, Quiet
<1>3. ASSUME pc'[w] \notin {"reread", "load", "write"}
      PROVE  Aware(w)' /\ Fresh(w)'
  BY <1>3 DEF Aware, Fresh, Checked
<1>4. CASE Passes(w)
  <2>1. /\ row' = row /\ event'[w] = event[w] /\ row.version < event[w]
        /\ pc'[w] = "reread"
    BY <1>2, <1>4 DEF Passes, Stale, Exists
  <2>2. QED BY <2>1 DEF Aware, Fresh, Checked
<1>5. CASE SavesPayload(w)
  <2>1. /\ row' = row /\ event'[w] = event[w] /\ pc[w] = "reread" /\ pc'[w] = "load"
        /\ Effect(event[w]) = Upsert /\ entity'[w] = Payload(event[w])
        /\ overtaken' = overtaken
    BY <1>5 DEF SavesPayload, Unseen, pastVars
  <2>2. entity'[w].version = event[w]
    BY <2>1 DEF Payload
  <2>3. Aware(w)'
    BY <2>1, <2>2 DEF Aware
  <2>4. Fresh(w) => Fresh(w)'
    BY <1>1, <2>1 DEF Fresh, Checked
  <2>5. QED BY <1>2, <2>1, <2>3, <2>4
<1>6. CASE SavesStatus(w)
  <2>1. /\ row' = row /\ event'[w] = event[w] /\ pc[w] = "reread" /\ pc'[w] = "load"
        /\ Effect(event[w]) # Upsert /\ Exists(row) /\ overtaken' = overtaken
        /\ entity'[w].attrs = row.attrs /\ entity'[w].status = Effect(event[w])
        /\ entity'[w].version = event[w]
    BY <1>6 DEF SavesStatus, Unseen, pastVars
  <2>2. entity'[w].status = hist[event[w]].status
    BY <1>2, <2>1 DEF RaceInv, StatusEventsAgree
  <2>3. Aware(w)'
    BY <2>1 DEF Aware
  <2>4. Fresh(w) => Fresh(w)'
    BY <1>1, <2>1, <2>2 DEF Fresh, Checked, Exists
  <2>5. QED BY <1>2, <2>1, <2>3, <2>4
<1>7. CASE Loads(w)
  <2>1. /\ row' = row /\ event'[w] = event[w] /\ pc[w] = "load" /\ pc'[w] = "write"
        /\ entity'[w] = entity[w] /\ loaded'[w] = row
        /\ overtaken' = overtaken /\ peak' = peak
    BY <1>7 DEF Loads, Unseen, pastVars
  <2>2. Aware(w)'
    BY <1>2, <2>1 DEF Aware
  <2>3. Fresh(w) => Fresh(w)'
    BY <1>1, <2>1 DEF Fresh, Checked, Exists
  <2>4. QED BY <1>2, <2>1, <2>2, <2>3
<1>8. CASE LosesPartition(w)
  <2>1. /\ row' = row /\ event'[w] = event[w] /\ pc'[w] = pc[w]
        /\ entity'[w] = entity[w] /\ loaded'[w] = loaded[w]
        /\ overtaken' = overtaken /\ peak' = peak
    BY <1>8 DEF LosesPartition, Unseen, pastVars
  <2>2. Aware(w)'
    BY <1>2, <2>1 DEF Aware
  <2>3. Fresh(w) => Fresh(w)'
    BY <1>1, <2>1 DEF Fresh, Checked, Exists
  <2>4. QED BY <1>2, <2>1, <2>2, <2>3
<1>9. QED BY <1>3, <1>4, <1>5, <1>6, <1>7, <1>8, Moves
          DEF RaceInv, Starts, Skips, FindsNoRow, Writes, Acks, Throws, Dies, Ends

LEMMA RaceStep == RaceInv /\ [Next]_vars => RaceInv'
<1> SUFFICES ASSUME RaceInv, [Next]_vars PROVE RaceInv'
  OBVIOUS
<1>1. TypeInv'
  BY TypeInvStep DEF RaceInv
<1>2. CASE Setting
  <2>1. /\ UNCHANGED <<row, jobVars, pastVars>>
        /\ \A v \in Published : v \in Published' /\ hist'[v] = hist[v]
    BY <1>2, PublishAppends DEF RaceInv, TypeInv
  <2>2. \A v \in Published : Effect(v)' = Effect(v) /\ Payload(v)' = Payload(v)
    BY <2>1 DEF Effect, Payload
  <2>3. ASSUME NEW w \in Workers
        PROVE  Aware(w)' /\ (w \in overtaken' \/ Fresh(w)')
    <3>1. /\ pc[w] # "idle" => event[w] \in Published
          /\ Aware(w) /\ (w \in overtaken \/ Fresh(w))
      BY RaceFacts
    <3>2. Aware(w)'
      BY <2>1, <3>1 DEF Aware, jobVars, pastVars
    <3>3. Fresh(w) => Fresh(w)'
      BY <2>1, <2>2, <3>1 DEF Fresh, Checked, Exists, jobVars
    <3>4. QED BY <2>1, <3>1, <3>2, <3>3 DEF pastVars
  <2>4. StatusEventsAgree'
    BY <1>2, PublishAgrees DEF RaceInv
  <2>5. QED BY <1>1, <2>1, <2>3, <2>4 DEF RaceInv, pastVars
<1>3. ASSUME NEW w \in Workers, Handle(w) \/ Disturb(w)
      PROVE  RaceInv'
  <2>1. StatusEventsAgree'
    BY <1>3, Moves DEF RaceInv, StatusEventsAgree, Published, Effect
  <2>2. row'.version <= peak'
    BY <1>3, MovesRow
  <2>3. \A u \in Workers : Aware(u)' /\ (u \in overtaken' \/ Fresh(u)')
    BY <1>3, RaceMove, OthersStayAware
  <2>4. QED BY <1>1, <2>1, <2>2, <2>3 DEF RaceInv
<1>4. CASE UNCHANGED vars
  BY <1>1, <1>4 DEF vars, jobVars, pastVars, RaceInv, StatusEventsAgree, Aware, Fresh,
     Checked, Exists, Published, Effect, Payload
<1>5. QED BY <1>2, <1>3, <1>4 DEF Next

LEMMA RaceInvHolds == Spec => []RaceInv
<1>1. Init => RaceInv
  BY InitTypeInv DEF Init, RaceInv, StatusEventsAgree, Aware, Fresh, Checked, Absent, Published
<1>2. QED BY <1>1, RaceStep, PTL DEF Spec

(* Nothing makes a row disappear, or lowers the peak.                       *)
LEMMA RowStays ==
  ASSUME RaceInv, ReplicaInv, [Next]_vars, Exists(row)
  PROVE  Exists(row')
<1>1. CASE Setting
  BY <1>1, PublishAppends DEF RaceInv, TypeInv
<1>2. ASSUME NEW w \in Workers, Handle(w) \/ Disturb(w)
      PROVE  Exists(row')
  BY <1>2, MovesRow, WrittenRowExists
<1>3. CASE UNCHANGED vars
  BY <1>3 DEF vars
<1>4. QED BY <1>1, <1>2, <1>3 DEF Next

LEMMA PeakStays ==
  ASSUME RaceInv, [Next]_vars
  PROVE  peak <= peak'
<1>1. peak \in Nat
  BY DEF RaceInv, TypeInv, TypeOK
<1>2. CASE Setting
  BY <1>1, <1>2, PublishAppends DEF RaceInv, TypeInv, pastVars
<1>3. ASSUME NEW w \in Workers, Handle(w) \/ Disturb(w)
      PROVE  peak <= peak'
  BY <1>3, MovesRow
<1>4. CASE UNCHANGED vars
  BY <1>1, <1>4 DEF vars, pastVars
<1>5. QED BY <1>2, <1>3, <1>4 DEF Next

(* However many replicas interleave, crash, retry and redeliver: a write    *)
(* that does not raise the version is one whose handler another replica     *)
(* overtook after its stale check.                                          *)
THEOREM RegressionNeedsRace == Spec => OnlyOvertakenWritesRegress
<1>1. RaceInv /\ [Next]_vars
        => [row'.version > row.version \/ \E w \in overtaken : pc[w] = "write"]_row
  <2> SUFFICES ASSUME RaceInv, [Next]_vars, row' # row
               PROVE  row'.version > row.version \/ \E w \in overtaken : pc[w] = "write"
    OBVIOUS
  <2>1. PICK w \in Workers : Handle(w) \/ Disturb(w)
    BY PublishAppends DEF Next, vars, RaceInv, TypeInv
  <2>2. Writes(w)
    BY <2>1, MovesRow
  <2>3. CASE w \in overtaken
    BY <2>2, <2>3 DEF Writes
  <2>4. CASE w \notin overtaken
    BY <2>2, <2>4, FreshWrite, RaceFacts
  <2>5. QED BY <2>3, <2>4
<1>2. QED BY <1>1, RaceInvHolds, PTL DEF Spec, OnlyOvertakenWritesRegress

(* However many replicas race: an upsert that is not overtaken puts the     *)
(* published state of its version into the row, as a whole.                 *)
THEOREM FreshUpsertsRepair == Spec => UpsertsRepair
<1> DEFINE A == \A w \in Workers \ overtaken :
                  pc[w] = "write" /\ pc'[w] = "ack" /\ Effect(event[w]) = Upsert
                      => row' = Payload(event[w])
<1>1. RaceInv /\ [Next]_vars => [A]_row
  <2> SUFFICES ASSUME RaceInv, [Next]_vars, row' # row,
                      NEW w \in Workers \ overtaken,
                      pc[w] = "write", pc'[w] = "ack", Effect(event[w]) = Upsert
               PROVE  row' = Payload(event[w])
    OBVIOUS
  <2>1. PICK u \in Workers : Handle(u) \/ Disturb(u)
    BY PublishAppends DEF Next, vars, RaceInv, TypeInv
  <2>2. Writes(u)
    BY <2>1, MovesRow
  <2>3. u = w
    BY <2>1, Moves DEF RaceInv, OthersKept
  <2>4. QED BY <2>2, <2>3, FreshWrite
<1>2. QED BY <1>1, RaceInvHolds, PTL DEF Spec, UpsertsRepair

-----------------------------------------------------------------------------
(* What the row shows until it is torn, and what acknowledgements promise.  *)

(* The attributes of a row at a version are those of that version, or older *)
(* ones if the version is a status event's.                                 *)
AtMostBehind(r) ==
    /\ r.attrs \in 1 .. hist[r.version].attrs
    /\ Effect(r.version) = Upsert => r.attrs = hist[r.version].attrs

CleanRow ==
    /\ row.version = peak
    /\ Exists(row) => /\ row.version \in Published
                      /\ row.status = hist[row.version].status
                      /\ AtMostBehind(row)

Reflected(v) == hist[v].ok /\ Effect(v) = Upsert => peak >= v

CleanInv ==
    /\ AttrsAge
    /\ torn \/ CleanRow
    /\ \A v \in settled \ dlq : Reflected(v)
    /\ \A w \in Workers : pc[w] = "ack" => Reflected(event[w])

-----------------------------------------------------------------------------
(* A write that does not leave the row torn leaves it clean: a payload, or  *)
(* a clean row at a lower version under the status of its event.            *)
LEMMA WriteKeepsClean ==
  ASSUME RaceInv, CleanInv, NEW w \in Workers, Handle(w) \/ Disturb(w), Writes(w)
  PROVE  torn' \/ CleanRow'
<1>1. /\ hist' = hist /\ Published' = Published
      /\ \A v : Effect(v)' = Effect(v)
  BY Moves DEF RaceInv, Published, Effect
<1>2. CASE row' = row
  <2>1. UNCHANGED <<peak, torn>>
    BY <1>2 DEF Writes, Remember, pastVars
  <2>2. CleanRow => CleanRow'
    BY <1>1, <1>2, <2>1 DEF CleanRow, AtMostBehind, Exists
  <2>3. QED BY <2>1, <2>2 DEF CleanInv
<1>3. CASE row' # row /\ w \in overtaken
  BY <1>3 DEF Writes, Remember
<1>4. CASE row' # row /\ w \notin overtaken
  <2> SUFFICES ASSUME ~torn' PROVE CleanRow'
    OBVIOUS
  <2>1. /\ row'.version = event[w] /\ row.version < event[w]
        /\ event[w] \in Published
        /\ IF Effect(event[w]) = Upsert THEN row' = Payload(event[w])
           ELSE /\ Exists(row) /\ row'.attrs = row.attrs
                /\ row'.status = hist[event[w]].status
    BY <1>4, FreshWrite
  <2>2. /\ peak \in Nat /\ row.version \in Nat /\ event[w] \in Nat
        /\ Published \subseteq Nat \ {0}
    BY RaceFacts
  <2>3. torn => Effect(event[w]) = Upsert /\ event[w] >= peak
    BY <1>4 DEF Writes, Remember
  <2>4. peak <= event[w]
    BY <2>1, <2>2, <2>3 DEF CleanInv, CleanRow
  <2>5. peak' = row'.version
    BY <1>4, <2>1, <2>2, <2>4 DEF Writes, Remember
  <2>6. CASE Effect(event[w]) = Upsert
    <3>1. /\ hist[event[w]].attrs = event[w]
          /\ row'.attrs = event[w] /\ row'.status = hist[event[w]].status
      BY <2>1, <2>6 DEF Payload, CleanInv, AttrsAge
    <3>2. QED BY <1>1, <2>1, <2>2, <2>5, <3>1 DEF CleanRow, AtMostBehind
  <2>7. CASE Effect(event[w]) # Upsert
    <3>1. CleanRow /\ Exists(row)
      BY <2>1, <2>3, <2>7 DEF CleanInv
    <3>2. /\ row.version \in Published
          /\ row.attrs \in 1 .. hist[row.version].attrs
      BY <3>1 DEF CleanRow, AtMostBehind
    <3>3. /\ hist[row.version].attrs <= hist[event[w]].attrs
          /\ hist[event[w]].attrs \in Nat /\ hist[row.version].attrs \in Nat
      BY <2>1, <2>2, <3>2 DEF CleanInv, AttrsAge
    <3>4. row'.attrs \in 1 .. hist[event[w]].attrs
      BY <2>1, <2>7, <3>2, <3>3
    <3>5. QED BY <1>1, <2>1, <2>5, <2>7, <3>4 DEF CleanRow, AtMostBehind
  <2>8. QED BY <2>6, <2>7
<1>5. QED BY <1>2, <1>3, <1>4

(* A handler returns when its event is reflected: the row is as new, or the *)
(* write has just shown it.                                                 *)
LEMMA ReturnsReflected ==
  ASSUME RaceInv, CleanInv, NEW w \in Workers, Handle(w) \/ Disturb(w)
  PROVE  /\ pc'[w] = "ack" => Reflected(event[w])'
         /\ \A v \in settled' \ dlq' : Reflected(v)'
<1>1. /\ hist' = hist /\ peak \in Nat /\ peak' \in Nat /\ peak <= peak'
      /\ row.version \in Nat /\ row.version <= peak
      /\ event[w] \in Nat /\ settled \subseteq Nat
  <2>1. settled \subseteq Published
    BY DEF RaceInv, TypeInv, TypeOK
  <2>2. QED BY <2>1, RaceFacts, MovesRow, Moves DEF RaceInv
<1>2. \A v : Effect(v)' = Effect(v)
  BY <1>1 DEF Effect
<1>3. \A v \in Nat : Reflected(v) => Reflected(v)'
  BY <1>1, <1>2 DEF Reflected
<1>4. pc'[w] = "ack" => Reflected(event[w])'
  <2>1. CASE Skips(w)
    BY <1>1, <1>2, <2>1 DEF Skips, Stale, SameMessage, Reflected
  <2>2. CASE FindsNoRow(w)
    BY <1>2, <2>2 DEF FindsNoRow, SameMessage, Reflected
  <2>3. CASE Writes(w)
    <3>1. event'[w] = event[w] /\ event[w] <= peak'
      BY <2>3, WriteShows, MovesRow DEF Writes, SameMessage
    <3>2. QED BY <1>1, <3>1 DEF Reflected
  <2>4. CASE LosesPartition(w)
    BY <1>1, <1>3, <2>4 DEF LosesPartition, CleanInv
  <2>5. QED BY <2>1, <2>2, <2>3, <2>4, Moves DEF RaceInv, Starts, Passes, SavesPayload,
            SavesStatus, Loads, Acks, Throws, Dies, Ends
<1>5. ASSUME NEW v \in settled' \ dlq'
      PROVE  Reflected(v)'
  <2>1. v \in settled \ dlq \/ (v = event[w] /\ pc[w] = "ack")
    <3>1. CASE Acks(w)
      BY <1>5, <3>1 DEF Acks, Commits
    <3>2. CASE Throws(w)
      BY <1>5, <3>2 DEF Throws, Commits
    <3>3. CASE UNCHANGED <<settled, dlq>>
      BY <1>5, <3>3
    <3>4. QED BY <3>1, <3>2, <3>3, Moves DEF RaceInv, Starts, Skips, Passes, FindsNoRow,
              SavesPayload, SavesStatus, Loads, Writes, Dies, LosesPartition, Quiet
  <2>2. Reflected(v) /\ v \in Nat
    BY <1>1, <2>1 DEF CleanInv
  <2>3. QED BY <1>3, <2>2
<1>6. QED BY <1>4, <1>5

LEMMA CleanStep == RaceInv /\ CleanInv /\ [Next]_vars => CleanInv'
<1> SUFFICES ASSUME RaceInv, CleanInv, [Next]_vars PROVE CleanInv'
  OBVIOUS
<1>1. CASE Setting
  <2>1. /\ UNCHANGED <<row, jobVars, settled, dlq, pastVars>> /\ AttrsAge'
        /\ \A v \in Published : v \in Published' /\ hist'[v] = hist[v]
    BY <1>1, PublishAppends, PublishAges DEF RaceInv, TypeInv, CleanInv
  <2>2. \A v \in Published : /\ Effect(v)' = Effect(v)
                             /\ Reflected(v) => Reflected(v)'
    BY <2>1 DEF Effect, Reflected, pastVars
  <2>3. CleanRow => CleanRow'
    BY <2>1, <2>2 DEF CleanRow, AtMostBehind, Exists, pastVars
  <2>4. /\ settled \subseteq Published
        /\ \A w \in Workers : pc[w] = "ack" => event[w] \in Published
    BY DEF RaceInv, TypeInv, TypeOK, HandlesPublished
  <2>5. torn' = torn /\ settled' = settled /\ dlq' = dlq /\ pc' = pc /\ event' = event
    BY <2>1 DEF pastVars, jobVars
  <2>6. \A v \in settled' \ dlq' : Reflected(v)'
    BY <2>2, <2>4, <2>5 DEF CleanInv
  <2>7. \A w \in Workers : pc'[w] = "ack" => Reflected(event[w])'
    BY <2>2, <2>4, <2>5 DEF CleanInv
  <2>8. torn' \/ CleanRow'
    BY <2>3, <2>5 DEF CleanInv
  <2>9. QED BY <2>1, <2>6, <2>7, <2>8 DEF CleanInv
<1>2. ASSUME NEW w \in Workers, Handle(w) \/ Disturb(w)
      PROVE  CleanInv'
  <2>1. /\ hist' = hist /\ OthersKept(w) /\ Published' = Published
        /\ \A v : Effect(v)' = Effect(v)
    BY <1>2, Moves DEF RaceInv, Published, Effect
  <2>2. AttrsAge'
    BY <2>1 DEF CleanInv, AttrsAge
  <2>3. torn' \/ CleanRow'
    <3>1. CASE Writes(w)
      BY <1>2, <3>1, WriteKeepsClean
    <3>2. CASE ~Writes(w)
      <4>1. row' = row /\ UNCHANGED <<peak, torn>>
        BY <1>2, <3>2, MovesRow
      <4>2. CleanRow => CleanRow'
        BY <2>1, <4>1 DEF CleanRow, AtMostBehind, Exists
      <4>3. QED BY <4>1, <4>2 DEF CleanInv
    <3>3. QED BY <3>1, <3>2
  <2>4. ASSUME NEW u \in Workers \ {w}, pc'[u] = "ack"
        PROVE  Reflected(event[u])'
    <3>1. Reflected(event[u]) /\ event'[u] = event[u] /\ event[u] \in Nat
      BY <2>1, <2>4, RaceFacts DEF OthersKept, CleanInv
    <3>2. peak <= peak' /\ peak \in Nat /\ peak' \in Nat
      BY <1>2, MovesRow, RaceFacts
    <3>3. QED BY <2>1, <3>1, <3>2 DEF Reflected
  <2>5. QED BY <1>2, <2>2, <2>3, <2>4, ReturnsReflected DEF CleanInv
<1>3. CASE UNCHANGED vars
  BY <1>3 DEF vars, jobVars, pastVars, CleanInv, AttrsAge, CleanRow, AtMostBehind,
     Reflected, Exists, Published, Effect
<1>4. QED BY <1>1, <1>2, <1>3 DEF Next

LEMMA CleanInvHolds == Spec => []CleanInv
<1>1. Init => CleanInv
  BY DEF Init, CleanInv, AttrsAge, CleanRow, Exists, Absent, Published
<1>2. QED BY <1>1, CleanStep, RaceInvHolds, PTL DEF Spec

(* For any number of replicas, any order of delivery and any failure: until *)
(* an overtaken handler tears the row, it shows the status of the version   *)
(* it claims, which is the highest it has shown.                            *)
THEOREM UntornStatusMatchesVersion == Spec => []StatusMatchesVersion
<1>1. CleanInv => StatusMatchesVersion
  BY DEF CleanInv, CleanRow, StatusMatchesVersion
<1>2. QED BY <1>1, CleanInvHolds, PTL

(* Likewise the attributes of a row that is not torn lag behind its version *)
(* only when a status event overtook the update that changed them, and are  *)
(* never newer.                                                             *)
THEOREM UntornAttrsLag == Spec => []AttrsLagOnlyBehindStatusEvents
<1>1. RaceInv /\ CleanInv => AttrsLagOnlyBehindStatusEvents
  <2> SUFFICES ASSUME RaceInv, CleanInv, Exists(row), ~torn,
                      row.attrs # hist[row.version].attrs
               PROVE  /\ Effect(row.version) # Upsert
                      /\ row.attrs < hist[row.version].attrs
    BY DEF AttrsLagOnlyBehindStatusEvents
  <2>1. row.version \in Published /\ AtMostBehind(row)
    BY DEF CleanInv, CleanRow
  <2>2. hist[row.version].attrs \in Nat
    BY <2>1, PayloadIsRow DEF RaceInv, TypeInv, Event
  <2>3. QED BY <2>1, <2>2 DEF AtMostBehind
<1>2. QED BY <1>1, RaceInvHolds, CleanInvHolds, PTL

(* For any number of replicas, every upsert event whose offset was          *)
(* committed without a dead letter has been shown, and unless the row is    *)
(* torn it still shows that version or a newer one.                         *)
THEOREM AcknowledgedIsReflected == Spec => []SettledIsReflected
<1>1. RaceInv /\ CleanInv => SettledIsReflected
  <2> SUFFICES ASSUME RaceInv, CleanInv, NEW v \in settled \ dlq,
                      hist[v].ok, Effect(v) = Upsert
               PROVE  peak >= v /\ (row.version >= v \/ torn)
    BY DEF SettledIsReflected
  <2>1. peak >= v
    BY DEF CleanInv, Reflected
  <2>2. CASE torn
    BY <2>1, <2>2
  <2>3. CASE ~torn
    BY <2>1, <2>3 DEF CleanInv, CleanRow
  <2>4. QED BY <2>2, <2>3
<1>2. QED BY <1>1, RaceInvHolds, CleanInvHolds, PTL
=============================================================================
