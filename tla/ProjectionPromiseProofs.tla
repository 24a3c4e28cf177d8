----------------------- MODULE ProjectionPromiseProofs -----------------------
(***************************************************************************)
(* The handlers of any number of replicas implement VersionedReplica: each *)
(* write either moves the row forward to a published state, or to the      *)
(* status of one, or it was overtaken and tears the row, which then still  *)
(* consists of published columns.                                          *)
(***************************************************************************)
EXTENDS ProjectionRaceProofs

past == [v \in Published |-> [attrs |-> hist[v].attrs, status |-> hist[v].status,
                              whole |-> Effect(v) = Upsert]]

PromiseInv == RaceInv /\ ReplicaInv

-----------------------------------------------------------------------------
(* A function on an initial interval is a sequence of that length.          *)
LEMMA FunctionIsSequence ==
  ASSUME NEW n \in Nat, NEW f, DOMAIN f = 1 .. n, f = [v \in 1 .. n |-> f[v]]
  PROVE  Len(f) = n
<1> DEFINE S == {f[v] : v \in 1 .. n}
<1>1. f \in [1 .. n -> S]
  OBVIOUS
<1> HIDE DEF S
<1>2. f \in Seq(S)
  BY <1>1
<1>3. QED BY <1>2

(* What the abstract source has published is the history.                   *)
LEMMA PastIsHistory ==
  ASSUME TypeInv
  PROVE  /\ Len(past) = Len(hist) /\ 1 .. Len(past) = Published
         /\ \A v \in Published : /\ past[v].attrs = hist[v].attrs
                                 /\ past[v].status = hist[v].status
                                 /\ past[v].whole <=> Effect(v) = Upsert
<1>1. /\ Len(hist) \in Nat /\ DOMAIN past = 1 .. Len(hist)
      /\ past = [v \in 1 .. Len(hist) |-> past[v]]
  BY DEF past, Published, TypeInv, TypeOK
<1>2. Len(past) = Len(hist)
  BY <1>1, FunctionIsSequence
<1>3. \A v \in Published : past[v].whole <=> Effect(v) = Upsert
  BY Zenon DEF past
<1>4. QED BY <1>2, <1>3 DEF past, Published

LEMMA PastGrows ==
  ASSUME TypeInv, Setting
  PROVE  Promise!Publish
<1>1. /\ Len(hist') = Len(hist) + 1 /\ UNCHANGED <<row, pastVars>>
      /\ Published \subseteq Published' /\ \A v \in Published : hist'[v] = hist[v]
  BY PublishAppends DEF TypeInv
<1>2. TypeInv'
  BY TypeInvStep DEF Next
<1>3. /\ Len(past) = Len(hist) /\ 1 .. Len(past) = Published
  BY PastIsHistory
<1>4. Len(past') = Len(hist')
  <2>1. /\ Len(hist') \in Nat /\ DOMAIN past' = 1 .. Len(hist')
        /\ past' = [v \in 1 .. Len(hist') |-> past'[v]]
    BY <1>2 DEF past, Published, TypeInv, TypeOK
  <2>2. QED BY <2>1, FunctionIsSequence
<1>5. \A v \in Published : past'[v] = past[v]
  BY <1>1 DEF past, Effect
<1>6. QED BY <1>1, <1>3, <1>4, <1>5 DEF Promise!Publish, past, pastVars

LEMMA OvertakenWriteTears ==
  ASSUME PromiseInv, NEW w \in Workers, Handle(w) \/ Disturb(w),
         Writes(w), row' # row, w \in overtaken
  PROVE  Promise!Tear
<1>1. hist' = hist /\ past' = past
  BY Moves DEF PromiseInv, RaceInv, past, Published, Effect
<1>2. torn'
  BY DEF Writes, Remember
<1>3. ReplicaInv'
  BY ReplicaStep DEF PromiseInv, Next
<1>4. Exists(row')
  BY WrittenRowExists DEF PromiseInv
<1>5. /\ \E v \in Published : row'.attrs = hist[v].attrs
      /\ \E v \in Published : row'.status = hist[v].status
  BY <1>1, <1>3, <1>4 DEF ReplicaInv, Sound, Exists, PublishedAttrs, PublishedStatus, Published
<1>6. /\ \E v \in 1 .. Len(past) : row'.attrs = past[v].attrs
      /\ \E v \in 1 .. Len(past) : row'.status = past[v].status
  BY <1>5, PastIsHistory DEF PromiseInv, RaceInv
<1>7. QED BY <1>1, <1>2, <1>4, <1>6 DEF Promise!Tear, past, Exists

LEMMA FreshWriteAdopts ==
  ASSUME PromiseInv, NEW w \in Workers, Handle(w) \/ Disturb(w),
         Writes(w), row' # row, w \notin overtaken
  PROVE  Promise!Adopt \/ Promise!AdoptStatus
<1> DEFINE v == event[w]
<1>1. /\ row'.version = v /\ row.version < v /\ v \in Published
      /\ IF Effect(v) = Upsert THEN row' = Payload(v)
         ELSE /\ Exists(row) /\ row'.attrs = row.attrs
              /\ row'.status = hist[v].status
  BY FreshWrite DEF PromiseInv
<1>2. /\ row.version \in Nat /\ v \in Nat /\ row \in Row /\ row' \in Row
  BY RaceFacts, MovesRow DEF PromiseInv
<1>3. past' = past
  BY Moves DEF PromiseInv, RaceInv, past, Published, Effect
<1>4. /\ v \in 1 .. Len(past) /\ past[v].attrs = hist[v].attrs
      /\ past[v].status = hist[v].status
  BY <1>1, PastIsHistory DEF PromiseInv, RaceInv
<1>5. past[v].whole <=> Effect(v) = Upsert
  BY <1>1, PastIsHistory DEF PromiseInv, RaceInv
<1>6. /\ torn' => torn
      /\ Effect(v) # Upsert => torn' = torn
  BY DEF Writes, Remember
<1> HIDE DEF v
<1>7. CASE Effect(v) = Upsert
  <2>1. row' = [attrs |-> past[v].attrs, status |-> past[v].status, version |-> v]
    BY <1>1, <1>4, <1>7 DEF Payload
  <2>2. v > row.version
    BY <1>1, <1>2
  <2>3. past[v].whole
    BY <1>5, <1>7
  <2>4. QED BY <1>3, <1>4, <1>6, <2>1, <2>2, <2>3 DEF Promise!Adopt, past
<1>8. CASE Effect(v) # Upsert
  <2>1. row' = [row EXCEPT !.status = past[v].status, !.version = v]
    BY <1>1, <1>2, <1>4, <1>8 DEF Row
  <2>2. v > row.version /\ row.version > 0
    BY <1>1, <1>2, <1>8 DEF Exists
  <2>3. ~past[v].whole
    BY <1>5, <1>8
  <2>4. UNCHANGED torn
    BY <1>6, <1>8
  <2>5. QED BY <1>3, <1>4, <2>1, <2>2, <2>3, <2>4 DEF Promise!AdoptStatus, past
<1>9. QED BY <1>7, <1>8

LEMMA RowKeepsPromise ==
  ASSUME PromiseInv, NEW w \in Workers, Handle(w) \/ Disturb(w)
  PROVE  [Promise!Next]_(Promise!vars)
<1>1. past' = past
  BY Moves DEF PromiseInv, RaceInv, past, Published, Effect
<1>2. CASE Writes(w) /\ row' # row
  BY <1>2, OvertakenWriteTears, FreshWriteAdopts DEF Promise!Next
<1>3. CASE ~(Writes(w) /\ row' # row)
  <2>1. row' = row /\ torn' = torn
    <3>1. CASE Writes(w)
      BY <1>3, <3>1 DEF Writes, Remember, pastVars
    <3>2. CASE ~Writes(w)
      BY <3>2, MovesRow DEF PromiseInv
    <3>3. QED BY <3>1, <3>2
  <2>2. QED BY <1>1, <2>1 DEF Promise!vars, past
<1>4. QED BY <1>2, <1>3

(* However many replicas handle the entity's events, and in whatever order  *)
(* they deliver, interleave, crash and retry, the row behaves as            *)
(* VersionedReplica promises its readers.                                   *)
THEOREM ReplicasImplementPromise == Spec => ImplementsPromise
<1>1. Init => Promise!Init
  <2> SUFFICES ASSUME Init PROVE Promise!Init
    OBVIOUS
  <2>1. Published = {} /\ row = Absent /\ torn = FALSE
    BY DEF Init, Published
  <2>2. past = <<>>
    BY <2>1 DEF past
  <2>3. QED BY <2>1, <2>2 DEF Promise!Init, Absent, past
<1>2. PromiseInv /\ [Next]_vars => [Promise!Next]_(Promise!vars)
  <2> SUFFICES ASSUME PromiseInv, [Next]_vars PROVE [Promise!Next]_(Promise!vars)
    OBVIOUS
  <2>1. CASE Setting
    BY <2>1, PastGrows DEF Promise!Next, PromiseInv, RaceInv
  <2>2. CASE UNCHANGED vars
    BY <2>2 DEF vars, pastVars, Promise!vars, Published, Effect
  <2>3. QED BY <2>1, <2>2, RowKeepsPromise DEF Next
<1>3. Spec => []PromiseInv
  BY RaceInvHolds, ReplicaInvHolds, PTL DEF PromiseInv
<1>4. QED BY <1>1, <1>2, <1>3, PTL DEF Spec, ImplementsPromise, Promise!Spec
=============================================================================
