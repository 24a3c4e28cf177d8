----------------------- MODULE ProjectionReplicaProofs -----------------------
(***************************************************************************)
(* What holds with any number of replicas, whose handlers interleave at    *)
(* every await and mix their column-wise UPDATEs: no column of the row is  *)
(* ever a value that Setting did not publish.                              *)
(***************************************************************************)
EXTENDS ProjectionProofs

PublishedAttrs(a) == a # 0 /\ \E v \in Published : a = hist[v].attrs
PublishedStatus(s) == \E v \in Published : s = hist[v].status

(* A row is the absent one, or each of its columns was published.           *)
Sound(r) ==
    IF Exists(r) THEN PublishedAttrs(r.attrs) /\ PublishedStatus(r.status)
                 ELSE r = Absent

(* What a handler holds: a sound entity to save, and a loaded row that is   *)
(* sound and whose existence the row has kept.                              *)
SoundHandler(w) ==
    /\ pc[w] \in {"load", "write"} => Exists(entity[w]) /\ Sound(entity[w])
    /\ pc[w] = "write" => Sound(loaded[w]) /\ (Exists(loaded[w]) => Exists(row))

ReplicaInv ==
    /\ TypeInv
    /\ StatusEventsAgree
    /\ \A v \in Published : hist[v].attrs # 0
    /\ Sound(row)
    /\ \A w \in Workers : SoundHandler(w)

(* Merging a sound entity into a sound row, by the columns that differ from *)
(* an older sound row, gives a sound row.                                   *)
LEMMA SoundSave ==
  ASSUME NEW new \in Row, NEW old \in Row, NEW current \in Row,
         Exists(new), Sound(new), Sound(old), Sound(current),
         Exists(old) <=> Exists(current)
  PROVE  Exists(Saved(new, old, current)) /\ Sound(Saved(new, old, current))
<1> DEFINE saved == Saved(new, old, current)
<1>1. new.version \in Nat /\ current.version \in Nat
  BY DEF Row
<1>2. CASE Exists(old)
  <2>1. Exists(saved)
    BY <1>1, <1>2 DEF Saved, Exists
  <2>2. saved.attrs \in {new.attrs, current.attrs} /\ saved.status \in {new.status, current.status}
    BY DEF Saved
  <2>3. QED BY <1>2, <2>1, <2>2 DEF Sound
<1>3. CASE ~Exists(old)
  <2>1. old = Absent /\ current = Absent
    BY <1>3 DEF Sound
  <2>2. "attrs" \in Changed(new, old) /\ "version" \in Changed(new, old)
    BY <2>1 DEF Changed, Absent, Sound, Exists, PublishedAttrs
  <2>3. "status" \notin Changed(new, old) => new.status = current.status
    BY <2>1 DEF Changed
  <2>4. saved.attrs = new.attrs /\ saved.status = new.status /\ saved.version = new.version
    BY <2>2, <2>3 DEF Saved
  <2>5. QED BY <2>4 DEF Sound, Exists
<1>4. QED BY <1>2, <1>3

(* Whatever Setting publishes next, what was sound stays sound.             *)
LEMMA PublishKeepsSound ==
  ASSUME ReplicaInv, Setting
  PROVE  /\ \A v \in Published' : hist'[v].attrs # 0
         /\ \A r \in Row : Sound(r) => Sound(r)'
<1>1. /\ hist' \in Seq(Event) /\ Len(hist') = Len(hist) + 1
      /\ \A v \in Published : v \in Published' /\ hist'[v] = hist[v]
  BY PublishAppends DEF ReplicaInv, TypeInv
<1>2. ASSUME NEW type, NEW attrs, NEW s, Publish(type, attrs, s)
      PROVE  hist'[Len(hist) + 1].attrs = attrs
  <2>1. PICK ok \in Envelopes :
          hist' = Append(hist, [type |-> type, attrs |-> attrs, status |-> s, ok |-> ok])
    BY <1>2 DEF Publish
  <2>2. QED BY <2>1 DEF ReplicaInv, TypeInv, TypeOK
<1>3. hist'[Len(hist) + 1].attrs # 0
  <2>1. CASE SettingCreates
    BY <1>2, <2>1 DEF SettingCreates
  <2>2. CASE SettingUpdates
    BY <1>2, <2>2 DEF SettingUpdates, ReplicaInv, TypeInv, TypeOK
  <2>3. CASE SettingChangesStatus
    <3>1. Len(hist) \in Published
      BY <2>3 DEF SettingChangesStatus, Published, ReplicaInv, TypeInv, TypeOK
    <3>2. QED BY <1>2, <2>3, <3>1 DEF SettingChangesStatus, ReplicaInv
  <2>4. QED BY <2>1, <2>2, <2>3 DEF Setting
<1>4. Published' = Published \cup {Len(hist) + 1}
  BY <1>1 DEF Published, ReplicaInv, TypeInv, TypeOK
<1>5. \A v \in Published' : hist'[v].attrs # 0
  BY <1>1, <1>3, <1>4 DEF ReplicaInv
<1>6. ASSUME NEW r \in Row, Sound(r) PROVE Sound(r)'
  BY <1>1, <1>6 DEF Sound, Exists, PublishedAttrs, PublishedStatus
<1>7. QED BY <1>5, <1>6

-----------------------------------------------------------------------------
LEMMA ReplicaStep == ReplicaInv /\ [Next]_vars => ReplicaInv'
<1> SUFFICES ASSUME ReplicaInv, [Next]_vars PROVE ReplicaInv'
  OBVIOUS
<1> USE DEF envVars, jobVars
<1>1. TypeInv'
  BY TypeInvStep DEF ReplicaInv
<1>2. CASE Setting
  <2>1. UNCHANGED <<row, jobVars>>
    BY <1>2, PublishAppends DEF ReplicaInv, TypeInv
  <2>2. StatusEventsAgree'
    BY <1>2, PublishAgrees DEF ReplicaInv
  <2>3. Sound(row)'
    BY <1>2, <2>1, PublishKeepsSound DEF ReplicaInv, TypeInv, TypeOK, Sound, Exists,
       PublishedAttrs, PublishedStatus
  <2>4. ASSUME NEW w \in Workers PROVE SoundHandler(w)'
    <3>1. /\ Sound(entity[w]) => Sound(entity[w])'
          /\ Sound(loaded[w]) => Sound(loaded[w])'
      BY <1>2, <2>1, PublishKeepsSound DEF ReplicaInv, TypeInv, TypeOK, Sound, Exists,
         PublishedAttrs, PublishedStatus
    <3>2. QED BY <2>1, <3>1 DEF SoundHandler, ReplicaInv, Exists
  <2>5. QED BY <1>1, <1>2, <2>2, <2>3, <2>4, PublishKeepsSound DEF ReplicaInv
<1>3. ASSUME NEW w \in Workers, Handle(w) \/ Disturb(w)
      PROVE  ReplicaInv'
  <2>1. hist' = hist
    BY <1>3 DEF Handle, Disturb, Deliver, StaleCheck, UpsertProjection, UpdateStatus,
        SaveLoads, SaveWrites, InsertFails, Ack, DatabaseFault, Crash, Rebalance
  <2>2. /\ Published' = Published /\ StatusEventsAgree'
        /\ \A v \in Published' : hist'[v].attrs # 0
    BY <2>1 DEF ReplicaInv, StatusEventsAgree, Published, Effect
  <2>3. \A x : /\ PublishedAttrs(x)' <=> PublishedAttrs(x)
               /\ PublishedStatus(x)' <=> PublishedStatus(x)
    BY <2>1, <2>2 DEF PublishedAttrs, PublishedStatus
  <2>4. \A u \in Workers \ {w} : /\ pc'[u] = pc[u]
                                 /\ entity'[u] = entity[u]
                                 /\ loaded'[u] = loaded[u]
    BY <1>3 DEF Handle, Disturb, Deliver, StaleCheck, UpsertProjection, UpdateStatus,
        SaveLoads, SaveWrites, InsertFails, Ack, DatabaseFault, Crash, Rebalance,
        HandlerThrows, Start, Restart, Finish, Begin, Return, Proceed, Save, Goto, held,
        ReplicaInv, TypeInv, TypeOK
  <2>5. /\ row \in Row /\ entity[w] \in Row /\ loaded[w] \in Row
        /\ pc \in [Workers -> Labels] /\ entity \in [Workers -> Row]
        /\ loaded \in [Workers -> Row]
        /\ Sound(row) /\ SoundHandler(w)
        /\ pc[w] # "idle" => event[w] \in Published
    BY DEF ReplicaInv, TypeInv, TypeOK, HandlesPublished, Labels
  <2>6. ASSUME Exists(row) => Exists(row'), Sound(row)', SoundHandler(w)'
        PROVE  ReplicaInv'
    <3>1. ASSUME NEW u \in Workers \ {w} PROVE SoundHandler(u)'
      <4>1. SoundHandler(u)
        BY DEF ReplicaInv
      <4>2. QED BY <2>3, <2>4, <2>6, <4>1 DEF SoundHandler, Sound, Exists
    <3>2. QED BY <1>1, <2>2, <2>6, <3>1 DEF ReplicaInv
  <2>7. ASSUME row' = row, SoundHandler(w)'
        PROVE  ReplicaInv'
    BY <2>3, <2>5, <2>6, <2>7 DEF Sound, Exists
  <2>8. ASSUME NEW label \in {"idle", "check", "reread", "ack"},
               pc' = [pc EXCEPT ![w] = label]
        PROVE  SoundHandler(w)'
    BY <2>5, <2>8 DEF SoundHandler
  <2>9. ASSUME NEW e, Save(w, e), row' = row, Exists(e), Sound(e)
        PROVE  ReplicaInv'
    <3>1. pc'[w] = "load" /\ entity'[w] = e
      BY <2>5, <2>9 DEF Save, Goto
    <3>2. SoundHandler(w)'
      BY <2>3, <2>9, <3>1 DEF SoundHandler, Sound, Exists
    <3>3. QED BY <2>7, <2>9, <3>2
  <2>10. HandlerThrows(w) => SoundHandler(w)'
    BY <2>8 DEF HandlerThrows, Restart, Finish, Begin, Goto
  <2>11. CASE Deliver(w)
    BY <2>7, <2>8, <2>11 DEF Deliver, Start, Begin, Goto
  <2>12. CASE StaleCheck(w)
    BY <2>7, <2>8, <2>12 DEF StaleCheck, Return, Proceed, Goto
  <2>13. CASE UpsertProjection(w)
    <3>1. event[w] \in Nat /\ event[w] > 0 /\ event[w] \in Published
      BY <2>5, <2>13 DEF UpsertProjection, Published, ReplicaInv, TypeInv, TypeOK
    <3>2. Exists(Payload(event[w])) /\ Sound(Payload(event[w]))
      BY <3>1 DEF Payload, Exists, Sound, PublishedAttrs, PublishedStatus, ReplicaInv
    <3>3. Save(w, Payload(event[w])) /\ row' = row
      BY <2>13 DEF UpsertProjection
    <3>4. QED BY <2>9, <3>2, <3>3
  <2>14. CASE UpdateStatus(w)
    <3>1. CASE Return(w)
      BY <2>7, <2>8, <2>14, <3>1 DEF UpdateStatus, Return, Goto
    <3>2. CASE ~Return(w)
      <4> DEFINE e == [row EXCEPT !.status = Effect(event[w]), !.version = event[w]]
      <4>1. /\ Save(w, e) /\ row' = row /\ Exists(row) /\ Effect(event[w]) # Upsert
            /\ event[w] \in Published
        BY <2>5, <2>14, <3>2 DEF UpdateStatus
      <4>2. /\ e.attrs = row.attrs /\ e.version = event[w]
            /\ e.status = hist[event[w]].status
        BY <2>5, <4>1 DEF Row, ReplicaInv, StatusEventsAgree
      <4>3. event[w] > 0
        BY <4>1 DEF Published, ReplicaInv, TypeInv, TypeOK
      <4> HIDE DEF e
      <4>4. Exists(e) /\ Sound(e)
        BY <2>5, <4>1, <4>2, <4>3 DEF Exists, Sound, PublishedStatus
      <4>5. QED BY <2>9, <4>1, <4>4
    <3>3. QED BY <3>1, <3>2
  <2>15. CASE SaveLoads(w)
    <3>1. /\ pc[w] = "load" /\ pc'[w] = "write" /\ loaded'[w] = row
          /\ entity' = entity /\ row' = row
      BY <2>5, <2>15 DEF SaveLoads, Goto
    <3>2. SoundHandler(w)'
      BY <2>3, <2>5, <3>1 DEF SoundHandler, Sound, Exists
    <3>3. QED BY <2>7, <3>1, <3>2
  <2>16. CASE SaveWrites(w)
    <3>1. /\ pc[w] = "write" /\ row' = Saved(entity[w], loaded[w], row)
          /\ Exists(loaded[w]) \/ ~Exists(row)
          /\ pc' = [pc EXCEPT ![w] = "ack"]
      BY <2>16 DEF SaveWrites, InsertConflict, Return, Goto
    <3>2. Exists(row') /\ Sound(row')
      BY <2>5, <3>1, SoundSave DEF SoundHandler
    <3>3. Sound(row)'
      BY <2>3, <3>2 DEF Sound, Exists
    <3>4. QED BY <2>6, <2>8, <3>1, <3>2, <3>3
  <2>17. CASE InsertFails(w)
    BY <2>7, <2>10, <2>17 DEF InsertFails
  <2>18. CASE Ack(w)
    BY <2>7, <2>8, <2>18 DEF Ack, Finish, Begin, Goto
  <2>19. CASE DatabaseFault(w)
    BY <2>7, <2>10, <2>19 DEF DatabaseFault
  <2>20. CASE Crash(w)
    BY <2>7, <2>8, <2>20 DEF Crash, Finish, Begin, Goto
  <2>21. CASE Rebalance(w)
    BY <2>3, <2>5, <2>7, <2>21 DEF Rebalance, SoundHandler, Sound, Exists
  <2>22. QED BY <1>3, <2>11, <2>12, <2>13, <2>14, <2>15, <2>16, <2>17, <2>18, <2>19, <2>20,
                <2>21 DEF Handle, Disturb
<1>4. CASE UNCHANGED vars
  BY <1>1, <1>4 DEF vars, ReplicaInv, StatusEventsAgree, SoundHandler, Sound, Exists,
      Published, Effect, PublishedAttrs, PublishedStatus
<1>5. QED BY <1>2, <1>3, <1>4 DEF Next

(* A write never makes the row disappear.                                   *)
LEMMA WrittenRowExists ==
  ASSUME ReplicaInv, NEW w \in Workers, Writes(w)
  PROVE  Exists(row')
<1>1. /\ row \in Row /\ entity[w] \in Row /\ loaded[w] \in Row /\ pc[w] = "write"
      /\ Sound(row) /\ SoundHandler(w)
      /\ Exists(loaded[w]) \/ ~Exists(row)
      /\ row' = Saved(entity[w], loaded[w], row)
  BY DEF ReplicaInv, TypeInv, TypeOK, Writes, InsertConflict
<1>2. QED BY <1>1, SoundSave DEF SoundHandler

LEMMA ReplicaInvHolds == Spec => []ReplicaInv
<1>1. Init => ReplicaInv
  BY InitTypeInv DEF Init, ReplicaInv, StatusEventsAgree, SoundHandler, Sound, Exists,
      Absent, Published
<1>2. QED BY <1>1, ReplicaStep, PTL DEF Spec

(* However many replicas handle the entity's events, and however their      *)
(* handlers interleave, fail and repeat, each column of the row holds a     *)
(* value that Setting published.                                            *)
THEOREM ReplicasKeepPublishedColumns == Spec => []ColumnsWerePublished
<1>1. ReplicaInv => ColumnsWerePublished
  BY DEF ReplicaInv, Sound, PublishedAttrs, PublishedStatus, ColumnsWerePublished
<1>2. QED BY <1>1, ReplicaInvHolds, PTL

-----------------------------------------------------------------------------
(* The version, as long as no partition moved inside a handler: a message   *)
(* is then in one handler at a time, only the handler of version v writes   *)
(* v, and it writes it once.  So save() always finds the version changed    *)
(* and never makes one up.                                                  *)
WritesOnce(w) ==
    /\ pc[w] \in {"reread", "load", "write"} => row.version # event[w]
    /\ pc[w] \in {"load", "write"} => entity[w].version = event[w]
    /\ pc[w] = "write" => loaded[w].version # event[w]

Exclusive ==
    /\ \A w \in Workers : assigned[w]
    /\ \A u, w \in Workers :
        pc[u] # "idle" /\ pc[w] # "idle" /\ event[u] = event[w] => u = w
    /\ Exists(row) => row.version \in Published
    /\ \A w \in Workers : WritesOnce(w)

VersionInv == TypeInv /\ (rebalances = 0 => Exclusive)

LEMMA VersionStep == VersionInv /\ [Next]_vars => VersionInv'
<1> SUFFICES ASSUME VersionInv, [Next]_vars PROVE VersionInv'
  OBVIOUS
<1>1. TypeInv'
  BY TypeInvStep DEF VersionInv
<1>2. CASE Setting
  <2>1. /\ UNCHANGED <<row, jobVars, envVars>>
        /\ Published \subseteq Published'
    BY <1>2, PublishAppends DEF VersionInv, TypeInv
  <2>2. QED BY <1>1, <2>1 DEF VersionInv, Exclusive, WritesOnce, Exists, jobVars, envVars
<1>3. ASSUME NEW w \in Workers, Handle(w) \/ Disturb(w)
      PROVE  VersionInv'
  <2>1. /\ hist' = hist /\ Published' = Published /\ OthersKept(w)
        /\ \/ Starts(w) \/ Skips(w) \/ Passes(w) \/ FindsNoRow(w)
           \/ SavesPayload(w) \/ SavesStatus(w) \/ Loads(w) \/ Writes(w)
           \/ Acks(w) \/ Throws(w) \/ Dies(w) \/ LosesPartition(w)
    BY <1>3, Moves DEF VersionInv, Published
  <2>2. CASE LosesPartition(w)
    <3>1. rebalances' # 0
      BY <2>2 DEF LosesPartition, VersionInv, TypeInv, TypeOK
    <3>2. QED BY <1>1, <3>1 DEF VersionInv
  <2> SUFFICES ASSUME ~LosesPartition(w), rebalances' = 0
               PROVE  Exclusive'
    BY <1>1, <2>2 DEF VersionInv
  <2>3. rebalances = 0 /\ Exclusive
    BY <2>1 DEF VersionInv, Starts, Skips, Passes, FindsNoRow, SavesPayload,
       SavesStatus, Loads, Writes, Acks, Throws, Dies, Quiet, envVars
  <2>4. /\ WritesOnce(w) /\ assigned[w]
        /\ row \in Row /\ Published \subseteq Nat \ {0}
        /\ pc[w] # "idle" => event[w] \in Published
        /\ entity[w] \in Row /\ loaded[w] \in Row
    BY <2>3 DEF Exclusive, VersionInv, TypeInv, TypeOK, HandlesPublished, Published
  <2>5. /\ assigned'[w]
        /\ pc'[w] # "idle" =>
            \/ pc[w] # "idle" /\ event'[w] = event[w]
            \/ \A u \in Workers : event[u] # event'[w]
    <3>1. CASE Starts(w)
      BY <2>3, <3>1 DEF Starts, Exclusive
    <3>2. CASE ~Starts(w)
      BY <2>1, <2>4, <3>2 DEF Skips, Passes, FindsNoRow, SavesPayload, SavesStatus,
         Loads, Writes, Acks, Throws, Dies, Ends, SameMessage
    <3>3. QED BY <3>1, <3>2
  <2>6. ASSUME NEW u \in Workers, NEW v \in Workers,
               pc'[u] # "idle", pc'[v] # "idle", event'[u] = event'[v]
        PROVE  u = v
    BY <2>1, <2>3, <2>5, <2>6 DEF Exclusive, OthersKept
  <2>7. \A u \in Workers : assigned'[u]
    BY <2>1, <2>3, <2>5 DEF Exclusive, OthersKept
  <2>8. ASSUME row' = row, WritesOnce(w)'
        PROVE  Exclusive'
    <3>1. ASSUME NEW u \in Workers \ {w} PROVE WritesOnce(u)'
      BY <2>1, <2>3, <2>8 DEF OthersKept, Exclusive, WritesOnce
    <3>2. QED BY <2>1, <2>3, <2>6, <2>7, <2>8, <3>1 DEF Exclusive, Exists
  <2>9. CASE Passes(w)
    <3>1. row.version # event[w]
      BY <2>4, <2>9 DEF Passes, Stale, Exists, Row
    <3>2. WritesOnce(w)'
      BY <2>9, <3>1 DEF Passes, SameMessage, Quiet, WritesOnce
    <3>3. QED BY <2>8, <2>9, <3>2 DEF Passes, Quiet
  <2>10. CASE SavesPayload(w) \/ SavesStatus(w)
    <3>0. entity'[w].version = event[w]
      BY <2>10 DEF SavesPayload, SavesStatus, Payload
    <3>1. WritesOnce(w)'
      BY <2>4, <2>10, <3>0 DEF SavesPayload, SavesStatus, SameMessage, Quiet, WritesOnce
    <3>2. QED BY <2>8, <2>10, <3>1 DEF SavesPayload, SavesStatus, Quiet
  <2>11. CASE Loads(w)
    <3>1. WritesOnce(w)'
      BY <2>4, <2>11 DEF Loads, SameMessage, Quiet, WritesOnce
    <3>2. QED BY <2>8, <2>11, <3>1 DEF Loads, Quiet
  <2>12. CASE Writes(w)
    <3>1. /\ pc[w] = "write" /\ pc'[w] = "ack" /\ event'[w] = event[w]
          /\ row' = Saved(entity[w], loaded[w], row)
          /\ entity[w].version = event[w] /\ loaded[w].version # event[w]
      BY <2>4, <2>12 DEF Writes, SameMessage, WritesOnce
    <3>2. "version" \in Changed(entity[w], loaded[w])
      BY <3>1 DEF Changed
    <3>3. row'.version = event[w]
      BY <3>1, <3>2 DEF Saved
    <3>4. ASSUME NEW u \in Workers \ {w} PROVE WritesOnce(u)'
      <4>1. pc[u] # "idle" => event[u] # event[w]
        BY <2>3, <3>1 DEF Exclusive
      <4>2. QED BY <2>1, <2>3, <3>3, <4>1 DEF OthersKept, Exclusive, WritesOnce
    <3>5. WritesOnce(w)'
      BY <3>1 DEF WritesOnce
    <3>6. QED BY <2>1, <2>4, <2>6, <2>7, <3>1, <3>3, <3>4, <3>5 DEF Exclusive
  <2>13. ASSUME row' = row, pc'[w] \notin {"reread", "load", "write"}
         PROVE  Exclusive'
    BY <2>8, <2>13 DEF WritesOnce
  <2>14. QED BY <2>1, <2>9, <2>10, <2>11, <2>12, <2>13
            DEF Starts, Skips, FindsNoRow, Acks, Throws, Dies, Ends, Quiet
<1>4. CASE UNCHANGED vars
  BY <1>1, <1>4 DEF vars, jobVars, envVars, VersionInv, Exclusive, WritesOnce, Exists,
     Published
<1>5. QED BY <1>2, <1>3, <1>4 DEF Next

(* However many replicas interleave, crash and retry: unless a partition    *)
(* moves away from a running handler, the row only ever claims a version    *)
(* that Setting published, which a version made up by save() would not be.  *)
THEOREM ReplicasClaimPublishedVersions == Spec => []VersionIsPublished
<1>1. Init => VersionInv
  BY InitTypeInv DEF Init, VersionInv, Exclusive, WritesOnce, Exists, Absent
<1>2. VersionInv => VersionIsPublished
  BY DEF VersionInv, Exclusive, VersionIsPublished
<1>3. QED BY <1>1, <1>2, VersionStep, PTL DEF Spec
=============================================================================
