------------------------- MODULE ImportProfileProofs -------------------------
(***************************************************************************)
(* Proofs of the safety properties of ImportProfile, for any number of     *)
(* clients, profiles, names and requests, and for every set of             *)
(* configurations that requests may carry.                                 *)
(***************************************************************************)
EXTENDS ImportProfile, ImportConfigProofs, SequenceTheorems

-----------------------------------------------------------------------------
(* The inductive invariant.                                                *)

\* Where a request is: creating, changing a profile, and in the latter case
\* after it read the profile and after it checked its patch.
Creating == {"company", "createName", "insert"}
Changing == {"read", "name", "verify", "load", "write"}
Informed == {"name", "verify", "load", "write"}
Checked == {"verify", "load", "write"}

IsSeq(s) == s \in Seq({s[i] : i \in 1 .. Len(s)})

TablesTyped ==
    /\ DOMAIN table = Profiles /\ DOMAIN log = Profiles
    /\ \A p \in Profiles :
        /\ IsRow(table[p])
        /\ IsSeq(log[p])
        /\ Len(log[p]) = table[p].version
        /\ Exists(table[p]) => log[p][table[p].version].row = table[p]

ClientsTyped ==
    /\ pc \in [Clients -> Labels]
    /\ DOMAIN op = Clients /\ DOMAIN seen = Clients /\ DOMAIN loaded = Clients
    /\ \A c \in Clients : IsRow(seen[c]) /\ IsRow(loaded[c])
    /\ requests \in 0 .. MaxRequests

TablesInv == NameUnique /\ StoredConfigValid /\ StatusAndContentAreSeparate

\* A job that agrees with the history.
JobOk(j) ==
    /\ j.id # NoProfile => /\ j.id \in Profiles
                           /\ j.version \in 1 .. Len(log[j.id])
                           /\ log[j.id][j.version].row.active
    /\ ResolveError(ProfileConfig(j), j.overrides) = "none"
    /\ j.snapshot = Effective(ProfileConfig(j), j.overrides)

\* What has been established for a request when it gets to its next step.
StageOk(c) ==
    /\ pc[c] \in Creating =>
        /\ op[c].kind = "create"
        /\ op[c].id \in Profiles
        /\ ~Exists(table[op[c].id])
        /\ op[c].name \in RawNames
        /\ op[c].description \in Descriptions \cup {None}
    /\ pc[c] = "insert" => validateComplete(op[c].config)
    /\ pc[c] \in Changing =>
        /\ op[c].kind \in {"update", "activate", "deactivate"}
        /\ op[c].id \in Profiles
        /\ op[c].name \in RawNames \cup {None}
        /\ op[c].description \in Descriptions \cup {None}
    /\ pc[c] \in Informed =>
        Exists(table[op[c].id]) /\ validateComplete(seen[c].config)
    /\ pc[c] \in Checked => PatchOk(seen[c], op[c].config)
    /\ pc[c] = "job" => op[c].id \in Profiles \cup {NoProfile}
    /\ pc[c] = "insertJob" => JobOk(JobOf(c))

\* Two requests never create the same row.
CreatorsApart ==
    \A b, c \in Clients :
        pc[b] \in Creating /\ pc[c] \in Creating /\ op[b].id = op[c].id => b = c

RequestsInv == CreatorsApart /\ \A c \in Clients : StageOk(c)

JobsInv == \A j \in jobs : JobOk(j)

ProfileInv == TablesTyped /\ ClientsTyped /\ TablesInv /\ RequestsInv /\ JobsInv

-----------------------------------------------------------------------------
(* What a step does, in four parts.                                        *)

\* Only client c's request moves.
Frame(c) ==
    \A b \in Clients \ {c} :
        /\ pc'[b] = pc[b] /\ op'[b] = op[b]
        /\ seen'[b] = seen[b] /\ loaded'[b] = loaded[b]

\* Client c writes the next version of its profile.
Write(c, row) ==
    LET p == op[c].id IN
    /\ p \in Profiles
    /\ IsRow(row)
    /\ row.version = table[p].version + 1
    /\ validateComplete(row.config)
    /\ \A q \in Profiles \ {p} : Exists(table[q]) => table[q].name # row.name
    /\ IF Exists(table[p])
       THEN IF op[c].kind = "update" THEN row.active = table[p].active
            ELSE \A f \in {"name", "description", "config"} :
                     row[f] = table[p][f]
       ELSE pc[c] = "insert"
    /\ table' = [table EXCEPT ![p] = row]
    /\ log' = [log EXCEPT ![p] = Append(@, Entry(row, op[c]))]

TablesStep(c) == UNCHANGED <<table, log>> \/ \E row : Write(c, row)

JobsStep(c) ==
    \/ jobs' = jobs
    \/ jobs' = jobs \cup {JobOf(c)} /\ JobOk(JobOf(c))

\* A request that is creating a row goes on, or chooses one no other creates.
CreatorStep(c) ==
    pc'[c] \in Creating =>
        \/ pc[c] \in Creating /\ op'[c].id = op[c].id
        \/ \A b \in Clients \ {c} : pc[b] \in Creating => op[b].id # op'[c].id

Step(c) ==
    /\ ClientsTyped'
    /\ Frame(c)
    /\ StageOk(c)'
    /\ CreatorStep(c)
    /\ TablesStep(c)
    /\ JobsStep(c)

-----------------------------------------------------------------------------
(* Facts about the operators of the model.                                 *)

(* The row that stands for no row.                                         *)
LEMMA NoRowFacts == IsRow(NoRow) /\ ~Exists(NoRow) /\ NoRow.config = Empty
<1>1. DOMAIN NoRow = Columns \cup {"version"}
  BY DEF NoRow, Columns
<1> QED
  BY <1>1, NamesAssumption DEF IsRow, NoRow, Exists

(* The stages of a request, in terms of its labels.                        *)
LEMMA StageFacts ==
    /\ Creating \subseteq Labels /\ Changing \subseteq Labels
    /\ Checked \subseteq Informed /\ Informed \subseteq Changing
    /\ {"idle", "refresh", "job", "insertJob"} \subseteq Labels
    /\ \A l \in {"idle", "refresh", "job", "insertJob"} :
        l \notin Creating \cup Changing
    /\ Creating \cap Changing = {}
  BY DEF Creating, Changing, Checked, Informed, Labels

(* Appending to a history keeps what it held.                              *)
LEMMA HistoryGrows ==
    ASSUME NEW s, NEW e, IsSeq(s)
    PROVE  /\ IsSeq(Append(s, e))
           /\ Len(Append(s, e)) = Len(s) + 1
           /\ Len(s) \in Nat
           /\ \A i \in 1 .. Len(s) : Append(s, e)[i] = s[i]
           /\ Append(s, e)[Len(s) + 1] = e
<1> DEFINE t == Append(s, e)
           S == {s[i] : i \in 1 .. Len(s)} \cup {e}
           T == {t[i] : i \in 1 .. Len(t)}
<1>1. s \in Seq(S)
  BY DEF IsSeq
<1>2. /\ t \in Seq(S)
      /\ Len(t) = Len(s) + 1
      /\ \A i \in 1 .. Len(s) : t[i] = s[i]
      /\ t[Len(s) + 1] = e
      /\ Len(s) \in Nat
  BY <1>1, e \in S, AppendProperties, LenProperties
<1>3. t \in Seq(T)
  <2> HIDE DEF t
  <2>1. \A i \in 1 .. Len(t) : t[i] \in T
    OBVIOUS
  <2>2. t \in [1 .. Len(t) -> T] /\ Len(t) \in Nat
    BY <1>2, <2>1, LenProperties
  <2> QED
    BY <2>2, SeqDef
<1> QED
  BY <1>2, <1>3 DEF IsSeq

-----------------------------------------------------------------------------
(* What a request's own state becomes.                                     *)

(* A request ends, or has written, and forgets its local state.            *)
LEMMA Ended ==
    ASSUME ClientsTyped, NEW c \in Clients, NEW label \in {"idle", "refresh"},
           pc' = [pc EXCEPT ![c] = label], Forget(c), requests' = requests
    PROVE  ClientsTyped' /\ Frame(c) /\ StageOk(c)' /\ CreatorStep(c)
<1>1. pc'[c] = label
  BY DEF ClientsTyped
<1>2. ClientsTyped'
  BY NoRowFacts, StageFacts DEF ClientsTyped, Forget
<1>3. Frame(c)
  BY DEF ClientsTyped, Forget, Frame
<1>4. StageOk(c)'
  BY <1>1, StageFacts DEF StageOk
<1>5. CreatorStep(c)
  BY <1>1, StageFacts DEF CreatorStep
<1> QED
  BY <1>2, <1>3, <1>4, <1>5

(* An answer ends the request.                                             *)
LEMMA Answered ==
    ASSUME ClientsTyped, NEW c \in Clients, NEW a, Answer(c, a),
           requests' = requests
    PROVE  ClientsTyped' /\ Frame(c) /\ StageOk(c)' /\ CreatorStep(c)
  BY Ended DEF Answer

(* A request goes on with a profile in its hands.                          *)
LEMMA HasRead ==
    ASSUME ClientsTyped, NEW c \in Clients, NEW label \in Labels,
           NEW profile, IsRow(profile), Read(c, label, profile),
           requests' = requests
    PROVE  /\ ClientsTyped' /\ Frame(c)
           /\ pc'[c] = label /\ op'[c] = op[c] /\ seen'[c] = profile
  BY DEF ClientsTyped, Frame, Read, Goto

(* It goes on with the one it had.                                         *)
LEMMA Proceeded ==
    ASSUME ClientsTyped, NEW c \in Clients, NEW label \in Labels,
           Proceed(c, label), requests' = requests
    PROVE  /\ ClientsTyped' /\ Frame(c)
           /\ pc'[c] = label /\ op'[c] = op[c] /\ seen'[c] = seen[c]
<1>1. IsRow(seen[c])
  BY DEF ClientsTyped
<1> QED
  BY <1>1, HasRead DEF Proceed

(* A request arrives.                                                      *)
LEMMA Arrived ==
    ASSUME ClientsTyped, NEW c \in Clients, NEW label \in Labels, NEW request,
           Arrive(c, label, request)
    PROVE  /\ ClientsTyped' /\ Frame(c)
           /\ pc'[c] = label /\ op'[c] = request
           /\ TablesStep(c) /\ JobsStep(c)
<1>1. requests' \in 0 .. MaxRequests
  BY BoundAssumption DEF ClientsTyped, Arrive
<1> QED
  BY <1>1 DEF ClientsTyped, Frame, Arrive, TablesStep, JobsStep

-----------------------------------------------------------------------------
(* Every action is a Step: requests arrive.                                *)

LEMMA RequestCreateStep ==
    ASSUME ProfileInv, NEW c \in Clients, RequestCreate(c)
    PROVE  Step(c)
<1>1. PICK p \in Profiles, name \in RawNames, d \in Descriptions \cup {None},
           config \in Configs :
        /\ ~Exists(table[p])
        /\ \A b \in Clients : op[b].kind = "create" => op[b].id # p
        /\ Arrive(c, "company", Request("create", p, name, d, config, 0))
  BY DEF RequestCreate
<1> DEFINE r == Request("create", p, name, d, config, 0)
<1>2. /\ r.kind = "create" /\ r.id = p /\ r.name = name /\ r.description = d
      /\ r.config = config
  BY DEF Request
<1> HIDE DEF r
<1>3. /\ ClientsTyped' /\ Frame(c) /\ TablesStep(c) /\ JobsStep(c)
      /\ pc'[c] = "company" /\ op'[c] = r
  BY <1>1, Arrived DEF ProfileInv, Labels, r
<1>4. StageOk(c)'
  <2>1. table' = table
    BY <1>1 DEF Arrive
  <2>2. "company" \in Creating /\ "company" \notin Changing /\ "company" \notin Informed
        /\ "company" \notin Checked
    BY DEF Creating, Changing, Informed, Checked
  <2> QED
    BY <1>1, <1>2, <1>3, <2>1, <2>2 DEF StageOk, Exists
<1>5. CreatorStep(c)
  BY <1>1, <1>2, <1>3 DEF CreatorStep, ProfileInv, RequestsInv, StageOk
<1> QED
  BY <1>3, <1>4, <1>5 DEF Step

(* Requests that change a profile, or create a job, create no row.         *)
LEMMA NoCreator ==
    ASSUME NEW c \in Clients, pc'[c] \notin Creating
    PROVE  CreatorStep(c)
  BY DEF CreatorStep

LEMMA RequestUpdateStep ==
    ASSUME ProfileInv, NEW c \in Clients, RequestUpdate(c)
    PROVE  Step(c)
<1>1. PICK p \in Profiles, name \in RawNames \cup {None},
           d \in Descriptions \cup {None}, patch \in Patches \cup {None} :
        \E token \in 0 .. table[p].version :
            Arrive(c, "read", Request("update", p, name, d, patch, token))
  BY DEF RequestUpdate
<1>2. PICK token \in 0 .. table[p].version :
        Arrive(c, "read", Request("update", p, name, d, patch, token))
  BY <1>1
<1> DEFINE r == Request("update", p, name, d, patch, token)
<1>3. r.kind = "update" /\ r.id = p /\ r.name = name /\ r.description = d
  BY DEF Request
<1> HIDE DEF r
<1>4. /\ ClientsTyped' /\ Frame(c) /\ TablesStep(c) /\ JobsStep(c)
      /\ pc'[c] = "read" /\ op'[c] = r
  BY <1>2, Arrived DEF ProfileInv, Labels, r
<1>5. StageOk(c)' /\ CreatorStep(c)
  BY <1>3, <1>4, NoCreator DEF StageOk, Creating, Changing, Informed, Checked
<1> QED
  BY <1>4, <1>5 DEF Step

LEMMA RequestToggleStep ==
    ASSUME ProfileInv, NEW c \in Clients, RequestToggle(c)
    PROVE  Step(c)
<1>1. PICK p \in Profiles, kind \in {"activate", "deactivate"} :
        Arrive(c, "read", Request(kind, p, None, None, None, 0))
  BY DEF RequestToggle
<1> DEFINE r == Request(kind, p, None, None, None, 0)
<1>2. r.kind = kind /\ r.id = p /\ r.name = None /\ r.description = None
  BY DEF Request
<1> HIDE DEF r
<1>3. /\ ClientsTyped' /\ Frame(c) /\ TablesStep(c) /\ JobsStep(c)
      /\ pc'[c] = "read" /\ op'[c] = r
  BY <1>1, Arrived DEF ProfileInv, Labels, r
<1>4. StageOk(c)' /\ CreatorStep(c)
  BY <1>2, <1>3, NoCreator DEF StageOk, Creating, Changing, Informed, Checked
<1> QED
  BY <1>3, <1>4 DEF Step

LEMMA RequestJobStep ==
    ASSUME ProfileInv, NEW c \in Clients, RequestJob(c)
    PROVE  Step(c)
<1>1. PICK p \in Profiles \cup {NoProfile}, overrides \in Patches \cup {None} :
        Arrive(c, "job", Request("job", p, None, None, overrides, 0))
  BY DEF RequestJob
<1> DEFINE r == Request("job", p, None, None, overrides, 0)
<1>2. r.id = p
  BY DEF Request
<1> HIDE DEF r
<1>3. /\ ClientsTyped' /\ Frame(c) /\ TablesStep(c) /\ JobsStep(c)
      /\ pc'[c] = "job" /\ op'[c] = r
  BY <1>1, Arrived DEF ProfileInv, Labels, r
<1>4. StageOk(c)' /\ CreatorStep(c)
  BY <1>2, <1>3, NoCreator DEF StageOk, Creating, Changing, Informed, Checked
<1> QED
  BY <1>3, <1>4 DEF Step

-----------------------------------------------------------------------------
(* Every action is a Step: create().                                       *)

(* A step that leaves the tables alone.                                    *)
LEMMA Quiet ==
    ASSUME UNCHANGED <<table, log, jobs, requests>>, NEW c \in Clients
    PROVE  TablesStep(c) /\ JobsStep(c)
  BY DEF TablesStep, JobsStep

LEMMA ValidateCompanyStep ==
    ASSUME ProfileInv, NEW c \in Clients, ValidateCompany(c)
    PROVE  Step(c)
<1>1. TablesStep(c) /\ JobsStep(c)
  BY Quiet DEF ValidateCompany
<1>2. CASE Proceed(c, "createName")
  <2>1. /\ ClientsTyped' /\ Frame(c) /\ pc'[c] = "createName"
        /\ op'[c] = op[c] /\ seen'[c] = seen[c] /\ table' = table
        /\ pc[c] = "company"
    BY <1>2, Proceeded DEF ProfileInv, Labels, ValidateCompany
  <2>2. StageOk(c)' /\ CreatorStep(c)
    BY <2>1 DEF ProfileInv, RequestsInv, StageOk, Exists, CreatorStep,
                Creating, Changing, Informed, Checked
  <2> QED
    BY <1>1, <2>1, <2>2 DEF Step
<1>3. CASE Answer(c, "COMPANY_INACTIVE")
  BY <1>1, <1>3, Answered DEF ValidateCompany, ProfileInv, Step
<1> QED
  BY <1>2, <1>3 DEF ValidateCompany

LEMMA CheckNewNameStep ==
    ASSUME ProfileInv, NEW c \in Clients, CheckNewName(c)
    PROVE  Step(c)
<1>1. TablesStep(c) /\ JobsStep(c)
  BY Quiet DEF CheckNewName
<1>2. CASE validateComplete(op[c].config) /\ Proceed(c, "insert")
  <2>1. /\ ClientsTyped' /\ Frame(c) /\ pc'[c] = "insert"
        /\ op'[c] = op[c] /\ seen'[c] = seen[c] /\ table' = table
        /\ pc[c] = "createName"
    BY <1>2, Proceeded DEF ProfileInv, Labels, CheckNewName
  <2>2. StageOk(c)' /\ CreatorStep(c)
    BY <1>2, <2>1 DEF ProfileInv, RequestsInv, StageOk, Exists, CreatorStep,
                Creating, Changing, Informed, Checked
  <2> QED
    BY <1>1, <2>1, <2>2 DEF Step
<1>3. CASE \E a : Answer(c, a)
  BY <1>1, <1>3, Answered DEF CheckNewName, ProfileInv, Step
<1> QED
  BY <1>2, <1>3 DEF CheckNewName

(* A given name that was trimmed is a name.                                *)
LEMMA TrimTyped ==
    ASSUME NEW name \in RawNames
    PROVE  trim(name) \in Names
  BY NamesAssumption DEF trim

LEMMA InsertStep ==
    ASSUME ProfileInv, NEW c \in Clients, Insert(c)
    PROVE  Step(c)
<1> DEFINE p == op[c].id
           row == NewRow(op[c])
<1>1. PICK a : Answer(c, a)
  BY DEF Insert
<1>2. ClientsTyped' /\ Frame(c) /\ StageOk(c)' /\ CreatorStep(c)
  BY <1>1, Answered DEF Insert, ProfileInv
<1>3. JobsStep(c)
  BY DEF Insert, JobsStep
<1>4. TablesStep(c)
  <2>1. CASE UNCHANGED <<table, log>>
    BY <2>1 DEF TablesStep
  <2>2. CASE /\ ~NameTaken(p, row.name)
             /\ table' = [table EXCEPT ![p] = row]
             /\ log' = [log EXCEPT ![p] = <<Entry(row, op[c])>>]
    <3>1. /\ pc[c] = "insert" /\ p \in Profiles /\ ~Exists(table[p])
          /\ op[c].name \in RawNames
          /\ op[c].description \in Descriptions \cup {None}
          /\ validateComplete(op[c].config)
      BY DEF Insert, ProfileInv, RequestsInv, StageOk, Creating
    <3>2. /\ DOMAIN row = Columns \cup {"version"}
          /\ row.name = trim(op[c].name)
          /\ row.config = op[c].config /\ row.version = 1
      BY DEF NewRow, Columns
    <3>3. IsRow(row)
      <4>1. row.name \in Names
        BY <3>1, <3>2, TrimTyped
      <4>2. row.description \in Descriptions \cup {Null}
        BY <3>1 DEF NewRow
      <4>3. row.active \in BOOLEAN
        BY DEF NewRow
      <4> QED
        BY <3>2, <4>1, <4>2, <4>3 DEF IsRow
    <3> HIDE DEF row
    <3>4. table[p].version = 0 /\ log[p] = << >>
      <4>1. table[p].version \in Nat /\ ~(table[p].version > 0)
            /\ Len(log[p]) = table[p].version /\ IsSeq(log[p])
        BY <3>1 DEF ProfileInv, TablesTyped, IsRow, Exists
      <4> QED
        BY <4>1, EmptySeq DEF IsSeq
    <3>5. log' = [log EXCEPT ![p] = Append(@, Entry(row, op[c]))]
      <4>1. <<Entry(row, op[c])>> = Append(<< >>, Entry(row, op[c]))
        OBVIOUS
      <4> QED
        BY <2>2, <3>4, <4>1
    <3>6. \A q \in Profiles \ {p} : Exists(table[q]) => table[q].name # row.name
      BY <2>2 DEF NameTaken
    <3>7. Write(c, row)
      BY <2>2, <3>1, <3>2, <3>3, <3>4, <3>5, <3>6 DEF Write
    <3> QED
      BY <3>7 DEF TablesStep
  <2> QED
    BY <2>1, <2>2 DEF Insert
<1> QED
  BY <1>2, <1>3, <1>4 DEF Step

-----------------------------------------------------------------------------
(* Every action is a Step: update(), activate() and deactivate().          *)

(* An answer, with the tables left alone, is a Step.                       *)
LEMMA AnswerStep ==
    ASSUME ClientsTyped, NEW c \in Clients, NEW a, Answer(c, a),
           UNCHANGED <<table, log, jobs, requests>>
    PROVE  Step(c)
  BY Answered, Quiet DEF Step

(* Going on with a profile that exists and is valid is a Step.             *)
LEMMA InformedStep ==
    ASSUME ProfileInv, NEW c \in Clients, NEW label \in Informed, NEW profile,
           pc[c] \in Changing, Exists(table[op[c].id]),
           IsRow(profile), validateComplete(profile.config),
           label \in Checked => PatchOk(profile, op[c].config),
           Read(c, label, profile), UNCHANGED <<table, log, jobs, requests>>
    PROVE  Step(c)
<1>1. TablesStep(c) /\ JobsStep(c)
  BY Quiet
<1>2. /\ ClientsTyped' /\ Frame(c)
      /\ pc'[c] = label /\ op'[c] = op[c] /\ seen'[c] = profile
  BY HasRead, StageFacts DEF ProfileInv
<1>3. /\ label \in Changing /\ label \notin Creating /\ label # "insert"
      /\ label # "job" /\ label # "insertJob"
  BY DEF Informed, Changing, Creating
<1>4. PatchOk(profile, op[c].config) => PatchOk(seen[c], op[c].config)'
  BY <1>2 DEF PatchOk, EffectiveConfig
<1>5. StageOk(c)'
  BY <1>2, <1>3, <1>4 DEF ProfileInv, RequestsInv, StageOk, Exists
<1> QED
  BY <1>1, <1>2, <1>3, <1>5, NoCreator DEF Step

LEMMA ReadProfileStep ==
    ASSUME ProfileInv, NEW c \in Clients, ReadProfile(c)
    PROVE  Step(c)
<1> DEFINE row == table[op[c].id]
<1>1. UNCHANGED <<table, log, jobs, requests>> /\ pc[c] = "read"
  BY DEF ReadProfile
<1>2. CASE \E a : Answer(c, a)
  BY <1>1, <1>2, AnswerStep DEF ProfileInv
<1>3. ASSUME NEW label \in {"name", "verify"}, Exists(row), Read(c, label, row),
             label = "verify" => PatchOk(row, op[c].config)
      PROVE  Step(c)
  <2>1. op[c].id \in Profiles /\ pc[c] \in Changing
    BY <1>1 DEF ProfileInv, RequestsInv, StageOk, Changing
  <2>2. IsRow(row) /\ validateComplete(row.config)
    BY <1>3, <2>1 DEF ProfileInv, TablesTyped, TablesInv, StoredConfigValid
  <2>3. label \in Informed /\ (label \in Checked => label = "verify")
    BY DEF Informed, Checked
  <2> HIDE DEF row
  <2>4. Exists(table[op[c].id])
    BY <1>3 DEF row
  <2> QED
    BY <1>1, <1>3, <2>1, <2>2, <2>3, <2>4, InformedStep
<1> QED
  BY <1>2, <1>3 DEF ReadProfile

LEMMA CheckNameStep ==
    ASSUME ProfileInv, NEW c \in Clients, CheckName(c)
    PROVE  Step(c)
<1>1. UNCHANGED <<table, log, jobs, requests>> /\ pc[c] = "name"
  BY DEF CheckName
<1>2. CASE \E a : Answer(c, a)
  BY <1>1, <1>2, AnswerStep DEF ProfileInv
<1>3. CASE PatchOk(seen[c], op[c].config) /\ Proceed(c, "verify")
  <2>1. /\ pc[c] \in Changing /\ Exists(table[op[c].id])
        /\ IsRow(seen[c]) /\ validateComplete(seen[c].config)
    BY <1>1 DEF ProfileInv, RequestsInv, ClientsTyped, StageOk, Changing, Informed
  <2>2. "verify" \in Informed
    BY DEF Informed
  <2> QED
    BY <1>1, <1>3, <2>1, <2>2, InformedStep DEF Proceed
<1> QED
  BY <1>2, <1>3 DEF CheckName

LEMMA VerifyVersionStep ==
    ASSUME ProfileInv, NEW c \in Clients, VerifyVersion(c)
    PROVE  Step(c)
<1>1. UNCHANGED <<table, log, jobs, requests>> /\ pc[c] = "verify"
  BY DEF VerifyVersion
<1>2. CASE \E a : Answer(c, a)
  BY <1>1, <1>2, AnswerStep DEF ProfileInv
<1>3. CASE Proceed(c, "load")
  <2>1. /\ pc[c] \in Changing /\ Exists(table[op[c].id])
        /\ IsRow(seen[c]) /\ validateComplete(seen[c].config)
        /\ PatchOk(seen[c], op[c].config)
    BY <1>1 DEF ProfileInv, RequestsInv, ClientsTyped, StageOk,
                Changing, Informed, Checked
  <2>2. "load" \in Informed
    BY DEF Informed
  <2> QED
    BY <1>1, <1>3, <2>1, <2>2, InformedStep DEF Proceed
<1> QED
  BY <1>2, <1>3 DEF VerifyVersion

LEMMA SaveLoadsStep ==
    ASSUME ProfileInv, NEW c \in Clients, SaveLoads(c)
    PROVE  Step(c)
<1>1. /\ pc[c] = "load" /\ pc' = [pc EXCEPT ![c] = "write"]
      /\ loaded' = [loaded EXCEPT ![c] = table[op[c].id]]
      /\ UNCHANGED <<table, log, jobs, op, seen, requests>>
  BY DEF SaveLoads
<1>2. TablesStep(c) /\ JobsStep(c)
  BY <1>1 DEF TablesStep, JobsStep
<1>3. /\ op[c].id \in Profiles /\ Exists(table[op[c].id])
      /\ IsRow(table[op[c].id])
  BY <1>1 DEF ProfileInv, RequestsInv, StageOk, TablesTyped, Changing, Informed
<1>4. ClientsTyped' /\ pc'[c] = "write"
  BY <1>1, <1>3 DEF ProfileInv, ClientsTyped, Labels
<1>5. Frame(c)
  BY <1>1 DEF ProfileInv, ClientsTyped, Frame
<1>6. PatchOk(seen[c], op[c].config) => PatchOk(seen[c], op[c].config)'
  BY <1>1 DEF PatchOk, EffectiveConfig
<1>7. StageOk(c)'
  BY <1>1, <1>3, <1>4, <1>6
  DEF ProfileInv, RequestsInv, StageOk, Exists, Creating, Changing, Informed,
      Checked
<1>8. CreatorStep(c)
  BY <1>4 DEF CreatorStep, Creating
<1> QED
  BY <1>2, <1>4, <1>5, <1>7, <1>8 DEF Step

(* What save() is given: the status alone, or the content without it.      *)
LEMMA DataFacts ==
    ASSUME ProfileInv, NEW c \in Clients, pc[c] \in Checked
    PROVE  /\ DOMAIN Data(c) \subseteq Columns
           /\ op[c].kind = "update" => "active" \notin DOMAIN Data(c)
           /\ op[c].kind # "update" => DOMAIN Data(c) = {"active"}
           /\ "active" \in DOMAIN Data(c) => Data(c)["active"] \in BOOLEAN
           /\ "name" \in DOMAIN Data(c) => Data(c)["name"] \in Names
           /\ "description" \in DOMAIN Data(c) =>
                  Data(c)["description"] \in Descriptions \cup {Null}
           /\ "config" \in DOMAIN Data(c) =>
                  validateComplete(Data(c)["config"])
<1>1. /\ op[c].kind \in {"update", "activate", "deactivate"}
      /\ op[c].name \in RawNames \cup {None}
      /\ op[c].description \in Descriptions \cup {None}
      /\ validateComplete(seen[c].config)
      /\ PatchOk(seen[c], op[c].config)
  BY DEF ProfileInv, RequestsInv, StageOk, Checked, Changing, Informed
<1>2. CASE op[c].kind = "update"
  <2> DEFINE d == IF op[c].description = None THEN Null ELSE op[c].description
             e == EffectiveConfig(seen[c], op[c].config)
             n == IF op[c].name = None THEN Empty
                  ELSE [name |-> trim(op[c].name)]
             base == [description |-> d, config |-> e]
  <2>1. d \in Descriptions \cup {Null}
    BY <1>1
  <2>2. validateComplete(e)
    BY <1>1 DEF PatchOk, EffectiveConfig
  <2>3. /\ DOMAIN n \subseteq {"name"}
        /\ "name" \in DOMAIN n => n["name"] \in Names
    BY <1>1, TrimTyped DEF Empty
  <2>4. Data(c) = spread(base, n)
    BY <1>2 DEF Data
  <2> HIDE DEF d, e, n
  <2>5. /\ DOMAIN base = {"description", "config"}
        /\ base["description"] = d /\ base["config"] = e
    OBVIOUS
  <2> HIDE DEF base
  <2>6. /\ DOMAIN Data(c) = DOMAIN base \cup DOMAIN n
        /\ \A f \in DOMAIN Data(c) :
               Data(c)[f] = IF f \in DOMAIN n THEN n[f] ELSE base[f]
    BY <2>4 DEF spread
  <2> QED
    BY <1>2, <2>1, <2>2, <2>3, <2>5, <2>6 DEF Columns
<1>3. CASE op[c].kind # "update"
  <2>1. Data(c) = [active |-> op[c].kind = "activate"]
    BY <1>1, <1>3 DEF Data
  <2> QED
    BY <1>3, <2>1 DEF Columns
<1> QED
  BY <1>2, <1>3

LEMMA SaveWritesStep ==
    ASSUME ProfileInv, NEW c \in Clients, SaveWrites(c)
    PROVE  Step(c)
<1> DEFINE p == op[c].id
           row == Saved(c, table[p])
<1>1. /\ pc[c] = "write" /\ UNCHANGED <<jobs, requests>>
      /\ Written(c) \/ \E a : Answer(c, a)
  BY DEF SaveWrites
<1>2. ClientsTyped' /\ Frame(c) /\ StageOk(c)' /\ CreatorStep(c)
  BY <1>1, Ended, Answered DEF ProfileInv, Written
<1>3. JobsStep(c)
  BY <1>1 DEF JobsStep
<1>4. TablesStep(c)
  <2>1. CASE UNCHANGED <<table, log>>
    BY <2>1 DEF TablesStep
  <2>2. CASE /\ ~("name" \in ChangedColumns(c) /\ NameTaken(p, row.name))
             /\ table' = [table EXCEPT ![p] = row]
             /\ log' = [log EXCEPT ![p] = Append(@, Entry(row, op[c]))]
    <3>1. /\ pc[c] \in Checked /\ p \in Profiles /\ Exists(table[p])
          /\ IsRow(table[p]) /\ validateComplete(table[p].config)
      BY <1>1 DEF ProfileInv, RequestsInv, StageOk, TablesTyped, TablesInv,
                  StoredConfigValid, Changing, Informed, Checked
    <3>2. ChangedColumns(c) \subseteq DOMAIN Data(c)
      BY DEF ChangedColumns
    <3>3. /\ DOMAIN table[p] = {"name", "description", "config", "active",
                                "version"}
          /\ table[p].version \in Nat
      BY <3>1 DEF IsRow, Columns
    <3>4. "version" \notin ChangedColumns(c)
      BY <3>1, <3>2, DataFacts DEF Columns
    <3>5. /\ DOMAIN row = DOMAIN table[p]
          /\ row.version = table[p].version + 1
          /\ \A f \in {"name", "description", "config", "active"} :
                 row[f] = IF f \in ChangedColumns(c) THEN Data(c)[f]
                          ELSE table[p][f]
      BY <3>3, <3>4 DEF Saved
    <3> HIDE DEF row
    <3>6. IsRow(row)
      <4>1. row.name \in Names
        BY <3>1, <3>2, <3>5, DataFacts DEF IsRow
      <4>2. row.description \in Descriptions \cup {Null}
        BY <3>1, <3>2, <3>5, DataFacts DEF IsRow
      <4>3. row.active \in BOOLEAN
        BY <3>1, <3>2, <3>5, DataFacts DEF IsRow
      <4> QED
        BY <3>1, <3>3, <3>5, <4>1, <4>2, <4>3 DEF IsRow
    <3>7. validateComplete(row.config)
      BY <3>1, <3>2, <3>5, DataFacts
    <3>8. \A q \in Profiles \ {p} : Exists(table[q]) => table[q].name # row.name
      <4>1. CASE "name" \in ChangedColumns(c)
        BY <2>2, <4>1 DEF NameTaken
      <4>2. CASE "name" \notin ChangedColumns(c)
        BY <3>1, <3>5, <4>2 DEF ProfileInv, TablesInv, NameUnique
      <4> QED
        BY <4>1, <4>2
    <3>9. IF op[c].kind = "update" THEN row.active = table[p].active
          ELSE \A f \in {"name", "description", "config"} : row[f] = table[p][f]
      BY <3>1, <3>2, <3>5, DataFacts
    <3>10. Write(c, row)
      BY <2>2, <3>1, <3>5, <3>6, <3>7, <3>8, <3>9 DEF Write
    <3> QED
      BY <3>10 DEF TablesStep
  <2> QED
    BY <2>1, <2>2 DEF SaveWrites
<1> QED
  BY <1>2, <1>3, <1>4 DEF Step

LEMMA RefreshStep ==
    ASSUME ProfileInv, NEW c \in Clients, Refresh(c)
    PROVE  Step(c)
  BY AnswerStep DEF Refresh, ProfileInv

-----------------------------------------------------------------------------
(* Every action is a Step: createJob().                                    *)

LEMMA ReadForJobStep ==
    ASSUME ProfileInv, NEW c \in Clients, ReadForJob(c)
    PROVE  Step(c)
<1> DEFINE profile == IF op[c].id = NoProfile THEN NoRow ELSE table[op[c].id]
<1>1. UNCHANGED <<table, log, jobs, requests>> /\ pc[c] = "job"
  BY DEF ReadForJob
<1>2. CASE \E a : Answer(c, a)
  BY <1>1, <1>2, AnswerStep DEF ProfileInv
<1>3. CASE /\ op[c].id # NoProfile => Exists(profile) /\ profile.active
           /\ ResolveError(profile.config, Overrides(c)) = "none"
           /\ Read(c, "insertJob", profile)
  <2>1. op[c].id \in Profiles \cup {NoProfile}
    BY <1>1 DEF ProfileInv, RequestsInv, StageOk
  <2>2. IsRow(profile)
    BY <2>1, NoRowFacts DEF ProfileInv, TablesTyped
  <2>3. /\ ClientsTyped' /\ Frame(c)
        /\ pc'[c] = "insertJob" /\ op'[c] = op[c] /\ seen'[c] = profile
    BY <1>1, <1>3, <2>2, HasRead DEF ProfileInv, Labels
  <2>4. op[c].id # NoProfile =>
            /\ profile.version \in 1 .. Len(log[op[c].id])
            /\ log[op[c].id][profile.version].row = profile
    BY <1>3, <2>1 DEF ProfileInv, TablesTyped, Exists, IsRow
  <2>5. JobOk(JobOf(c))'
    <3> DEFINE j == [id |-> op[c].id, version |-> profile.version,
                     overrides |-> Overrides(c),
                     snapshot |-> Effective(profile.config, Overrides(c))]
    <3>1. JobOf(c)' = j /\ log' = log
      BY <1>1, <2>3 DEF JobOf, Overrides
    <3>2. /\ j.id = op[c].id /\ j.version = profile.version
          /\ j.overrides = Overrides(c)
          /\ j.snapshot = Effective(profile.config, Overrides(c))
      OBVIOUS
    <3> HIDE DEF j
    <3>3. ProfileConfig(j) = profile.config
      <4>1. CASE op[c].id = NoProfile
        BY <3>2, <4>1, NoRowFacts DEF ProfileConfig
      <4>2. CASE op[c].id # NoProfile
        BY <2>4, <3>2, <4>2 DEF ProfileConfig
      <4> QED
        BY <4>1, <4>2
    <3>4. JobOk(j)
      BY <1>3, <2>1, <2>4, <3>2, <3>3 DEF JobOk
    <3> QED
      BY <3>1, <3>4 DEF JobOk, ProfileConfig
  <2>6. StageOk(c)'
    BY <2>3, <2>5 DEF StageOk, Creating, Changing, Informed, Checked
  <2>7. CreatorStep(c)
    BY <2>3 DEF CreatorStep, Creating
  <2> QED
    BY <1>1, <2>3, <2>6, <2>7, Quiet DEF Step
<1> QED
  BY <1>2, <1>3 DEF ReadForJob

LEMMA InsertJobStep ==
    ASSUME ProfileInv, NEW c \in Clients, InsertJob(c)
    PROVE  Step(c)
<1>1. ClientsTyped' /\ Frame(c) /\ StageOk(c)' /\ CreatorStep(c)
  BY Answered DEF InsertJob, ProfileInv
<1>2. TablesStep(c)
  BY DEF InsertJob, TablesStep
<1>3. JobsStep(c)
  BY DEF InsertJob, JobsStep, ProfileInv, RequestsInv, StageOk
<1> QED
  BY <1>1, <1>2, <1>3 DEF Step

(* No action does anything else.                                           *)
LEMMA NextIsStep ==
    ASSUME ProfileInv, Next
    PROVE  \E c \in Clients : Step(c)
<1>1. PICK c \in Clients : Arrival(c) \/ Serve(c)
  BY DEF Next
<1>2. CASE Arrival(c)
  BY <1>2, RequestCreateStep, RequestUpdateStep, RequestToggleStep,
     RequestJobStep DEF Arrival
<1>3. CASE Serve(c)
  BY <1>3, ValidateCompanyStep, CheckNewNameStep, InsertStep, ReadProfileStep,
     CheckNameStep, VerifyVersionStep, SaveLoadsStep, SaveWritesStep,
     RefreshStep, ReadForJobStep, InsertJobStep DEF Serve
<1> QED
  BY <1>1, <1>2, <1>3

-----------------------------------------------------------------------------
(* A Step keeps the invariant.                                             *)

(* A write adds one version to one profile, and rewrites no other.         *)
LEMMA WriteFacts ==
    ASSUME ProfileInv, NEW c \in Clients, NEW row, Write(c, row)
    PROVE  LET p == op[c].id
               e == Entry(row, op[c]) IN
           /\ p \in Profiles
           /\ DOMAIN table' = Profiles /\ DOMAIN log' = Profiles
           /\ table'[p] = row /\ log'[p] = Append(log[p], e)
           /\ \A q \in Profiles \ {p} : table'[q] = table[q] /\ log'[q] = log[q]
           /\ IsSeq(log'[p]) /\ Len(log'[p]) = row.version
           /\ Len(log[p]) \in Nat /\ row.version = Len(log[p]) + 1
           /\ \A v \in 1 .. Len(log[p]) : log'[p][v] = log[p][v]
           /\ log'[p][row.version] = e
           /\ e.row = row /\ e.kind = op[c].kind
<1> DEFINE p == op[c].id
           e == Entry(row, op[c])
<1>1. /\ p \in Profiles /\ row.version = table[p].version + 1
      /\ table' = [table EXCEPT ![p] = row]
      /\ log' = [log EXCEPT ![p] = Append(@, e)]
  BY DEF Write
<1>2. /\ DOMAIN table = Profiles /\ DOMAIN log = Profiles
      /\ IsSeq(log[p]) /\ Len(log[p]) = table[p].version
  BY <1>1 DEF ProfileInv, TablesTyped
<1>3. e.row = row /\ e.kind = op[c].kind
  BY DEF Entry
<1> HIDE DEF e
<1>4. /\ IsSeq(Append(log[p], e))
      /\ Len(Append(log[p], e)) = Len(log[p]) + 1
      /\ Len(log[p]) \in Nat
      /\ \A i \in 1 .. Len(log[p]) : Append(log[p], e)[i] = log[p][i]
      /\ Append(log[p], e)[Len(log[p]) + 1] = e
  BY <1>2, HistoryGrows
<1>5. /\ DOMAIN table' = Profiles /\ DOMAIN log' = Profiles
      /\ table'[p] = row /\ log'[p] = Append(log[p], e)
      /\ \A q \in Profiles \ {p} : table'[q] = table[q] /\ log'[q] = log[q]
  BY <1>1, <1>2
<1> QED
  BY <1>1, <1>2, <1>3, <1>4, <1>5 DEF e

(* Histories only grow, profiles are never removed, and one appears only   *)
(* by the request that creates it.                                         *)
LEMMA HistoriesGrow ==
    ASSUME ProfileInv, NEW c \in Clients, TablesStep(c)
    PROVE  \A p \in Profiles :
            /\ Len(log[p]) \in Nat /\ Len(log'[p]) \in Nat
            /\ Len(log[p]) =< Len(log'[p])
            /\ \A v \in 1 .. Len(log[p]) : log'[p][v] = log[p][v]
            /\ Exists(table[p]) => Exists(table[p])'
            /\ Exists(table[p])' =>
                   Exists(table[p]) \/ (pc[c] = "insert" /\ p = op[c].id)
<1>1. SUFFICES ASSUME NEW p \in Profiles
               PROVE  /\ Len(log[p]) \in Nat /\ Len(log'[p]) \in Nat
                      /\ Len(log[p]) =< Len(log'[p])
                      /\ \A v \in 1 .. Len(log[p]) : log'[p][v] = log[p][v]
                      /\ Exists(table[p]) => Exists(table[p])'
                      /\ Exists(table[p])' =>
                         Exists(table[p]) \/ (pc[c] = "insert" /\ p = op[c].id)
  OBVIOUS
<1>2. /\ table[p].version \in Nat /\ Len(log[p]) = table[p].version
      /\ Exists(table[p]) <=> table[p].version > 0
  BY DEF ProfileInv, TablesTyped, IsRow, Exists
<1>3. CASE UNCHANGED <<table, log>>
  BY <1>2, <1>3 DEF Exists
<1>4. ASSUME NEW row, Write(c, row)
      PROVE  /\ Len(log'[p]) \in Nat
             /\ Len(log[p]) =< Len(log'[p])
             /\ \A v \in 1 .. Len(log[p]) : log'[p][v] = log[p][v]
             /\ Exists(table[p]) => Exists(table[p])'
             /\ Exists(table[p])' =>
                    Exists(table[p]) \/ (pc[c] = "insert" /\ p = op[c].id)
  <2>1. CASE p = op[c].id
    <3>1. /\ table'[p] = row /\ Len(log'[p]) = row.version
          /\ row.version = Len(log[p]) + 1
          /\ \A v \in 1 .. Len(log[p]) : log'[p][v] = log[p][v]
      BY <1>4, <2>1, WriteFacts
    <3>2. Exists(table[p])' <=> row.version > 0
      BY <3>1 DEF Exists
    <3>3. Exists(table[p]) \/ pc[c] = "insert"
      BY <1>4, <2>1 DEF Write
    <3> QED
      BY <1>2, <2>1, <3>1, <3>2, <3>3
  <2>2. CASE p # op[c].id
    <3>1. table'[p] = table[p] /\ log'[p] = log[p]
      BY <1>4, <2>2, WriteFacts
    <3> QED
      BY <1>2, <3>1 DEF Exists
  <2> QED
    BY <2>1, <2>2
<1> QED
  BY <1>2, <1>3, <1>4 DEF TablesStep

LEMMA TablesStayTyped ==
    ASSUME ProfileInv, NEW c \in Clients, TablesStep(c)
    PROVE  TablesTyped'
<1>1. CASE UNCHANGED <<table, log>>
  BY <1>1 DEF ProfileInv, TablesTyped, Exists
<1>2. ASSUME NEW row, Write(c, row)
      PROVE  TablesTyped'
  <2> DEFINE p == op[c].id
  <2>1. /\ DOMAIN table' = Profiles /\ DOMAIN log' = Profiles
        /\ table'[p] = row /\ IsSeq(log'[p]) /\ Len(log'[p]) = row.version
        /\ log'[p][row.version].row = row
        /\ \A q \in Profiles \ {p} : table'[q] = table[q] /\ log'[q] = log[q]
    BY <1>2, WriteFacts
  <2>2. IsRow(row)
    BY <1>2 DEF Write
  <2>3. ASSUME NEW q \in Profiles
        PROVE  /\ IsRow(table'[q])
               /\ IsSeq(log'[q])
               /\ Len(log'[q]) = table'[q].version
               /\ Exists(table'[q]) => log'[q][table'[q].version].row = table'[q]
    <3>1. CASE q = p
      BY <2>1, <2>2, <3>1
    <3>2. CASE q # p
      BY <2>1, <3>2 DEF ProfileInv, TablesTyped
    <3> QED
      BY <3>1, <3>2
  <2> QED
    BY <2>1, <2>3 DEF TablesTyped, Exists
<1> QED
  BY <1>1, <1>2 DEF TablesStep

LEMMA TablesKeepInv ==
    ASSUME ProfileInv, NEW c \in Clients, TablesStep(c)
    PROVE  TablesInv'
<1>1. CASE UNCHANGED <<table, log>>
  BY <1>1 DEF ProfileInv, TablesInv, NameUnique, StoredConfigValid,
              StatusAndContentAreSeparate, Exists
<1>2. ASSUME NEW row, Write(c, row)
      PROVE  TablesInv'
  <2> DEFINE p == op[c].id
  <2>1. /\ p \in Profiles /\ table'[p] = row
        /\ Len(log'[p]) = row.version /\ row.version = Len(log[p]) + 1
        /\ Len(log[p]) \in Nat
        /\ \A v \in 1 .. Len(log[p]) : log'[p][v] = log[p][v]
        /\ log'[p][row.version].row = row
        /\ log'[p][row.version].kind = op[c].kind
        /\ \A q \in Profiles \ {p} : table'[q] = table[q] /\ log'[q] = log[q]
    BY <1>2, WriteFacts
  <2>2. NameUnique'
    BY <1>2, <2>1 DEF Write, ProfileInv, TablesInv, NameUnique, Exists
  <2>3. StoredConfigValid'
    BY <1>2, <2>1 DEF Write, ProfileInv, TablesInv, StoredConfigValid, Exists
  <2>4. ASSUME NEW q \in Profiles, NEW v \in 2 .. Len(log'[q])
        PROVE  IF log'[q][v].kind = "update"
               THEN log'[q][v].row.active = log'[q][v - 1].row.active
               ELSE \A f \in {"name", "description", "config"} :
                        log'[q][v].row[f] = log'[q][v - 1].row[f]
    <3> DEFINE Separate(s, i) ==
            IF s[i].kind = "update" THEN s[i].row.active = s[i - 1].row.active
            ELSE \A f \in {"name", "description", "config"} :
                     s[i].row[f] = s[i - 1].row[f]
    <3>1. \A i \in 2 .. Len(log[q]) : Separate(log[q], i)
      BY DEF ProfileInv, TablesInv, StatusAndContentAreSeparate
    <3>2. CASE q # p \/ v \in 2 .. Len(log[p])
      <4>1. /\ v \in 2 .. Len(log[q])
            /\ log'[q][v] = log[q][v] /\ log'[q][v - 1] = log[q][v - 1]
        <5>1. CASE q # p
          BY <2>1, <5>1
        <5>2. CASE q = p
          <6>1. v \in 2 .. Len(log[p]) /\ v - 1 \in 1 .. Len(log[p])
            BY <2>1, <3>2, <5>2
          <6> QED
            BY <2>1, <5>2, <6>1
        <5> QED
          BY <5>1, <5>2
      <4> QED
        BY <3>1, <4>1
    <3>3. CASE q = p /\ v = row.version
      <4>1. /\ v - 1 \in 1 .. Len(log[p]) /\ v - 1 = Len(log[p])
            /\ log'[p][v - 1] = log[p][v - 1]
        BY <2>1, <3>3
      <4>2. /\ Len(log[p]) = table[p].version /\ Exists(table[p])
            /\ log[p][table[p].version].row = table[p]
        BY <2>1, <4>1 DEF ProfileInv, TablesTyped, Exists
      <4>3. IF op[c].kind = "update" THEN row.active = table[p].active
            ELSE \A f \in {"name", "description", "config"} :
                     row[f] = table[p][f]
        BY <1>2, <4>2 DEF Write
      <4>4. /\ log'[q][v].row = row /\ log'[q][v].kind = op[c].kind
            /\ log'[q][v - 1].row = table[p]
        BY <2>1, <3>3, <4>1, <4>2
      <4> QED
        BY <4>3, <4>4
    <3> QED
      BY <2>1, <3>2, <3>3
  <2>5. StatusAndContentAreSeparate'
    BY <2>4 DEF StatusAndContentAreSeparate
  <2> QED
    BY <2>2, <2>3, <2>5 DEF TablesInv
<1> QED
  BY <1>1, <1>2 DEF TablesStep

(* A job that agrees with the history agrees with every longer one.        *)
LEMMA JobsStayOk ==
    ASSUME ProfileInv, NEW c \in Clients, TablesStep(c),
           NEW j, JobOk(j)
    PROVE  JobOk(j)'
<1>1. CASE j.id = NoProfile
  BY <1>1 DEF JobOk, ProfileConfig
<1>2. CASE j.id # NoProfile
  <2>1. j.id \in Profiles /\ j.version \in 1 .. Len(log[j.id])
    BY <1>2 DEF JobOk
  <2>2. /\ j.version \in 1 .. Len(log'[j.id])
        /\ log'[j.id][j.version] = log[j.id][j.version]
    BY <2>1, HistoriesGrow
  <2>3. ProfileConfig(j)' = ProfileConfig(j)
    BY <1>2, <2>2 DEF ProfileConfig
  <2> QED
    BY <1>2, <2>1, <2>2, <2>3 DEF JobOk
<1> QED
  BY <1>1, <1>2

LEMMA JobsKeepInv ==
    ASSUME ProfileInv, NEW c \in Clients, TablesStep(c), JobsStep(c)
    PROVE  JobsInv'
<1>1. ASSUME NEW j \in jobs'
      PROVE  JobOk(j)
  BY DEF ProfileInv, JobsInv, JobsStep
<1> QED
  BY <1>1, JobsStayOk DEF JobsInv

(* What a request has established is not taken away by another's step.     *)
LEMMA StagesKept ==
    ASSUME ProfileInv, NEW c \in Clients, TablesStep(c), Frame(c),
           NEW b \in Clients \ {c}
    PROVE  StageOk(b)'
<1>1. pc'[b] = pc[b] /\ op'[b] = op[b] /\ seen'[b] = seen[b]
  BY DEF Frame
<1>2. StageOk(b)
  BY DEF ProfileInv, RequestsInv
<1>3. pc[b] \in Creating => ~Exists(table[op[b].id])'
  <2>1. ASSUME pc[b] \in Creating, pc[c] = "insert"
        PROVE  op[b].id # op[c].id
    BY <2>1 DEF ProfileInv, RequestsInv, CreatorsApart, Creating
  <2> QED
    BY <1>1, <1>2, <2>1, HistoriesGrow DEF StageOk, Exists
<1>4. pc[b] \in Informed => Exists(table[op[b].id])'
  <2>1. pc[b] \in Informed => op[b].id \in Profiles
    BY <1>2 DEF StageOk, Informed, Changing
  <2> QED
    BY <1>1, <1>2, <2>1, HistoriesGrow DEF StageOk, Exists
<1>5. PatchOk(seen[b], op[b].config) => PatchOk(seen[b], op[b].config)'
  BY <1>1 DEF PatchOk, EffectiveConfig
<1>6. pc[b] = "insertJob" => JobOk(JobOf(b))'
  <2> DEFINE j == JobOf(b)
  <2>1. JobOf(b)' = JobOf(b)
    BY <1>1 DEF JobOf, Overrides
  <2>2. PICK k : k = JobOf(b)
    OBVIOUS
  <2>3. JobOk(k) => JobOk(k)'
    BY JobsStayOk
  <2>4. pc[b] = "insertJob" => JobOk(k)
    BY <1>2, <2>2 DEF StageOk
  <2> QED
    BY <2>1, <2>2, <2>3, <2>4 DEF JobOk, ProfileConfig
<1> QED
  BY <1>1, <1>2, <1>3, <1>4, <1>5, <1>6 DEF StageOk, Exists

LEMMA RequestsKeepInv ==
    ASSUME ProfileInv, NEW c \in Clients, Step(c)
    PROVE  RequestsInv'
<1>1. \A b \in Clients : StageOk(b)'
  BY StagesKept DEF Step
<1>2. CreatorsApart'
  BY DEF Step, Frame, CreatorStep, ProfileInv, RequestsInv, CreatorsApart
<1> QED
  BY <1>1, <1>2 DEF RequestsInv

LEMMA StepKeepsInv ==
    ASSUME ProfileInv, NEW c \in Clients, Step(c)
    PROVE  ProfileInv'
  BY TablesStayTyped, TablesKeepInv, RequestsKeepInv, JobsKeepInv
  DEF Step, ProfileInv

-----------------------------------------------------------------------------
(* The invariant holds.                                                    *)

LEMMA InitialRowFacts ==
    ASSUME NEW p \in DOMAIN Initial
    PROVE  /\ IsRow(InitialRow(p)) /\ Exists(InitialRow(p))
           /\ InitialRow(p).version = 1 /\ InitialRow(p).name = Initial[p]
           /\ validateComplete(InitialRow(p).config)
<1>1. DOMAIN InitialRow(p) = Columns \cup {"version"}
  BY DEF InitialRow, Columns
<1>2. IsRow(InitialRow(p))
  BY <1>1, InitialAssumption DEF IsRow, InitialRow
<1> QED
  BY <1>2, BaselineValid DEF InitialRow, Exists

LEMMA InitHolds == Init => ProfileInv
<1> SUFFICES ASSUME Init PROVE ProfileInv
  OBVIOUS
<1> DEFINE E(p) == Entry(InitialRow(p), NoRequest)
<1>1. ASSUME NEW p \in Profiles
      PROVE  \/ /\ p \in DOMAIN Initial /\ table[p] = InitialRow(p)
                /\ log[p] = <<E(p)>>
             \/ /\ p \notin DOMAIN Initial /\ table[p] = NoRow /\ log[p] = << >>
  BY DEF Init
<1>2. ASSUME NEW p \in Profiles
      PROVE  /\ IsRow(table[p]) /\ IsSeq(log[p])
             /\ Len(log[p]) = table[p].version
             /\ Len(log[p]) \in {0, 1}
             /\ Exists(table[p]) => log[p][table[p].version].row = table[p]
             /\ Exists(table[p]) => /\ p \in DOMAIN Initial
                                    /\ table[p] = InitialRow(p)
  <2>1. CASE p \in DOMAIN Initial
    <3>1. table[p] = InitialRow(p) /\ log[p] = <<E(p)>>
      BY <1>1, <2>1
    <3>2. E(p).row = InitialRow(p)
      BY DEF Entry
    <3> HIDE DEF E
    <3>3. /\ Len(<<E(p)>>) = 1 /\ <<E(p)>>[1] = E(p) /\ IsSeq(<<E(p)>>)
      BY DEF IsSeq
    <3> QED
      BY <2>1, <3>1, <3>2, <3>3, InitialRowFacts
  <2>2. CASE p \notin DOMAIN Initial
    <3>1. table[p] = NoRow /\ log[p] = << >>
      BY <1>1, <2>2
    <3>2. NoRow.version = 0
      BY DEF NoRow
    <3>3. IsSeq(<< >>) /\ Len(<< >>) = 0
      BY EmptySeq DEF IsSeq
    <3> QED
      BY <3>1, <3>2, <3>3, NoRowFacts
  <2> QED
    BY <2>1, <2>2
<1>3. TablesTyped
  BY <1>2 DEF Init, TablesTyped
<1>4. ClientsTyped
  BY NoRowFacts, BoundAssumption DEF Init, ClientsTyped, Labels
<1>5. TablesInv
  <2>1. NameUnique
    BY <1>2, InitialRowFacts, InitialAssumption DEF NameUnique
  <2>2. StoredConfigValid
    BY <1>2, InitialRowFacts DEF StoredConfigValid
  <2>3. StatusAndContentAreSeparate
    <3>1. ASSUME NEW p \in Profiles, NEW v \in 2 .. Len(log[p])
          PROVE  FALSE
      <4>1. PICK n \in {0, 1} : Len(log[p]) = n
        BY <1>2
      <4>2. v \in 2 .. n
        BY <4>1
      <4> QED
        BY <4>2
    <3> QED
      BY <3>1 DEF StatusAndContentAreSeparate
  <2> QED
    BY <2>1, <2>2, <2>3 DEF TablesInv
<1>6. RequestsInv
  <2>1. \A c \in Clients : pc[c] = "idle"
    BY DEF Init
  <2> QED
    BY <2>1 DEF RequestsInv, CreatorsApart, StageOk, Creating, Changing,
                Informed, Checked
<1>7. JobsInv
  BY DEF Init, JobsInv
<1> QED
  BY <1>3, <1>4, <1>5, <1>6, <1>7 DEF ProfileInv

(* A step that changes nothing.                                            *)
LEMMA StutterKeepsInv ==
    ASSUME ProfileInv, UNCHANGED vars
    PROVE  ProfileInv'
<1> USE DEF vars, clientVars
<1>1. TablesTyped' /\ ClientsTyped'
  BY DEF ProfileInv, TablesTyped, ClientsTyped
<1>2. TablesInv'
  BY DEF ProfileInv, TablesInv, NameUnique, StoredConfigValid,
         StatusAndContentAreSeparate
<1>3. JobsInv'
  BY DEF ProfileInv, JobsInv, JobOk, ProfileConfig
<1>4. ASSUME NEW c \in Clients
      PROVE  StageOk(c)'
  <2>1. StageOk(c)
    BY DEF ProfileInv, RequestsInv
  <2> QED
    BY <2>1 DEF StageOk, JobOk, JobOf, ProfileConfig, Overrides, PatchOk,
                EffectiveConfig
<1>5. CreatorsApart'
  BY DEF ProfileInv, RequestsInv, CreatorsApart
<1> QED
  BY <1>1, <1>2, <1>3, <1>4, <1>5 DEF ProfileInv, RequestsInv

(* The inductive invariant, for every step of every request.               *)
THEOREM ProfileInvHolds == Spec => []ProfileInv
<1>1. ASSUME ProfileInv, [Next]_vars
      PROVE  ProfileInv'
  BY <1>1, NextIsStep, StepKeepsInv, StutterKeepsInv
<1> QED
  BY InitHolds, <1>1, PTL DEF Spec

-----------------------------------------------------------------------------
(* The properties of the profiles.                                         *)

(* Every variable stays in its type, and the last version of a history is  *)
(* the stored row.                                                         *)
THEOREM ProfileTypeCorrect == Spec => []TypeOK
<1>1. ProfileInv => TypeOK
  BY DEF ProfileInv, TablesTyped, ClientsTyped, TypeOK
<1> QED
  BY <1>1, ProfileInvHolds, PTL

(* No two profiles of the company share a name: the index decides, however *)
(* the look-ups and the writes of create() and update() interleave.        *)
THEOREM NamesStayUnique == Spec => []NameUnique
<1>1. ProfileInv => NameUnique
  BY DEF ProfileInv, TablesInv
<1> QED
  BY <1>1, ProfileInvHolds, PTL

(* An activation touches nothing but the status, and no update undoes one, *)
(* although it writes awaits after it read.                                *)
THEOREM StatusStaysSeparate == Spec => []StatusAndContentAreSeparate
<1>1. ProfileInv => StatusAndContentAreSeparate
  BY DEF ProfileInv, TablesInv
<1> QED
  BY <1>1, ProfileInvHolds, PTL

(* What is stored passes validateComplete(), whatever patches are merged   *)
(* into whatever old reads.                                                *)
THEOREM ConfigsStayValid == Spec => []StoredConfigValid
<1>1. ProfileInv => StoredConfigValid
  BY DEF ProfileInv, TablesInv
<1> QED
  BY <1>1, ProfileInvHolds, PTL

(* Every change of a row, of whichever request, adds one to its version:   *)
(* save() lets SQL count, and writes nothing when no column differs.       *)
THEOREM ChangesAreCounted == Spec => VersionCountsChanges
<1> DEFINE Counted == \A p \in Profiles :
                table'[p] # table[p] => table'[p].version = table[p].version + 1
<1>1. ASSUME ProfileInv, [Next]_vars
      PROVE  [Counted]_table
  <2>1. CASE UNCHANGED vars
    BY <2>1 DEF vars
  <2>2. CASE Next
    <3>1. PICK c \in Clients : TablesStep(c)
      BY <1>1, <2>2, NextIsStep DEF Step
    <3>2. CASE UNCHANGED <<table, log>>
      BY <3>2
    <3>3. ASSUME NEW row, Write(c, row)
          PROVE  Counted
      <4>1. /\ table'[op[c].id] = row
            /\ \A q \in Profiles \ {op[c].id} : table'[q] = table[q]
        BY <1>1, <3>3, WriteFacts
      <4>2. row.version = table[op[c].id].version + 1
        BY <3>3 DEF Write
      <4> QED
        BY <4>1, <4>2
    <3> QED
      BY <3>1, <3>2, <3>3 DEF TablesStep
  <2> QED
    BY <1>1, <2>1, <2>2
<1> QED
  BY <1>1, ProfileInvHolds, PTL DEF Spec, VersionCountsChanges

-----------------------------------------------------------------------------
(* The properties of the jobs.                                             *)

(* A job agrees with the version it names: it was active, and it resolves  *)
(* with the job's overrides to the job's snapshot.                         *)
THEOREM JobsStayReproducible == Spec => []JobReproducible
<1>1. ProfileInv => JobReproducible
  BY DEF ProfileInv, JobsInv, JobOk, JobReproducible, ProfileConfig
<1> QED
  BY <1>1, ProfileInvHolds, PTL

(* Every field of a snapshot comes from the first tier that gives it.      *)
THEOREM TiersKeepPrecedence == Spec => []Precedence
<1>1. ProfileInv => Precedence
  <2> SUFFICES ASSUME ProfileInv, NEW j \in jobs,
                      NEW p \in Policies, NEW f \in Fields[p]
               PROVE  /\ Defined(j.snapshot, p, f)
                      /\ j.snapshot[p][f] =
                             IF Defined(j.overrides, p, f) THEN j.overrides[p][f]
                             ELSE IF Defined(ProfileConfig(j), p, f)
                                  THEN ProfileConfig(j)[p][f]
                             ELSE SYSTEM_BASELINE_CONFIG[p][f]
    BY DEF Precedence
  <2>1. j.snapshot = Effective(ProfileConfig(j), j.overrides)
    BY DEF ProfileInv, JobsInv, JobOk
  <2> QED
    BY <2>1, ThreeTiers
<1> QED
  BY <1>1, ProfileInvHolds, PTL

(* Each limited field belongs to one policy.                               *)
LEMMA PolicyOfLimited ==
    /\ PolicyOf("batchSize") = "executionPolicy"
    /\ PolicyOf("maxConcurrentBatches") = "executionPolicy"
    /\ PolicyOf("maxAttempts") = "retryPolicy"
    /\ PolicyOf("jobTimeoutSeconds") = "timeoutPolicy"
    /\ PolicyOf("batchTimeoutSeconds") = "timeoutPolicy"
  BY FourPolicies DEF PolicyOf

(* No accepted job exceeds a ceiling that the code compares with, or falls *)
(* below its one floor, from whichever tier the value came.                *)
THEOREM CeilingsAreKept == Spec => []CeilingsHold
<1>1. ProfileInv => CeilingsHold
  <2> SUFFICES ASSUME ProfileInv, NEW j \in jobs
               PROVE  /\ j.snapshot.retryPolicy.initialDelayMs >=
                             SYSTEM_SAFETY_LIMITS.initialDelayMs.min
                      /\ \A f \in LimitedFields \ {"initialDelayMs", "maxDelayMs"} :
                             j.snapshot[PolicyOf(f)][f] <=
                                 SYSTEM_SAFETY_LIMITS[f].max
    BY DEF CeilingsHold
  <2>1. enforceSystemSafetyLimits(j.snapshot)
    BY Resolved DEF ProfileInv, JobsInv, JobOk
  <2>2. LimitedFields \ {"initialDelayMs", "maxDelayMs"} =
            {"batchSize", "maxConcurrentBatches", "maxAttempts",
             "jobTimeoutSeconds", "batchTimeoutSeconds"}
    BY DEF LimitedFields, SYSTEM_SAFETY_LIMITS
  <2> QED
    BY <2>1, <2>2, PolicyOfLimited DEF enforceSystemSafetyLimits, AtMost
<1> QED
  BY <1>1, ProfileInvHolds, PTL
=============================================================================
