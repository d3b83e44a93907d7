----------------------------- MODULE AccountsProofs -----------------------------
(***************************************************************************)
(* Proofs about accounts, for any rows, quotas and numbers of requests     *)
(* served at once: rate limits, quotas and deletions (module Tenancy), and *)
(* links, invites and sessions (module SignIn).                            *)
(***************************************************************************)
EXTENDS Services, FiniteSetTheorems, SequenceTheorems, TLAPS

\* The type of the keys, counters, rows and requests of Tenancy.
Statuses == {"absent", "active", "paused", "deleted", "revoked"}
Windows  == [start : Nat, count : Nat]

Calls   == [does : {"call"}, key : ApiKeys, was : Windows, now : Windows]
Creates == [does : {"create"}, kind : Kinds, had : Nat]
Edits   == [does : {"change"}, row : Row, was : Statuses, to : Changes]

TenancyType ==
  /\ status \in [Row -> Statuses] /\ window \in [ApiKeys -> Windows] /\ minute \in Nat
  /\ work \in [Workers -> {Idle} \cup Calls \cup Creates \cup Edits]
  /\ served \in [ApiKeys \X (1..MaxMinutes) -> Nat]

\* A call has counted itself once, in the window it found or in a new one of a later
\* minute, and is within the limit. What a request is to change has come to be.
WorkIsSound ==
  \A w \in Workers :
    /\ work[w].does = "call" =>
         LET was == work[w].was
             now == work[w].now
         IN  /\ \/ now.start = was.start /\ now.count = was.count + 1
                \/ now.start > was.start /\ now.count = 1
             /\ now.count <= PerMinute /\ now.start <= minute
    /\ work[w].does = "create" =>
         Quota[work[w].kind] = 0 \/ work[w].had < Quota[work[w].kind]
    /\ work[w].does = "change" => status[work[w].row] # "absent"

\* The window of a key whose calls never overlapped knows of every call of its minute, of
\* which there are no more than the limit, as there were in the minutes before it.
WindowCounts ==
  \A k \in ApiKeys :
    /\ window[k].start <= minute
    /\ k \notin stale =>
         /\ window[k].count <= PerMinute
         /\ \A m \in 1..MaxMinutes :
              /\ served[<<k, m>>] <= PerMinute
              /\ m = window[k].start => served[<<k, m>>] <= window[k].count
              /\ m > window[k].start => served[<<k, m>>] = 0

\* The inductive invariant of Tenancy.
TenancyInv == TenancyType /\ WorkIsSound /\ WindowCounts /\ QuotaHolds
-------------------------------------------------------------------------------
\* What is not later and not the same is earlier.
LEMMA LessIfOther == \A n, m \in Nat : n <= m /\ n # m => m > n
OBVIOUS

\* At least one call is admitted in a minute.
LEMMA PerMinuteBounds == PerMinute \in Nat /\ 1 <= PerMinute /\ Limit \in Nat /\ Limit <= PerMinute
BY TenancyAssumption DEF PerMinute

\* The counters start at nothing.
LEMMA TenancyStarts == TenancyInit => TenancyType /\ WorkIsSound /\ WindowCounts
<1> SUFFICES ASSUME TenancyInit PROVE TenancyType /\ WorkIsSound /\ WindowCounts
  OBVIOUS
<1>1. TenancyType
  BY DEF TenancyInit, TenancyType, Statuses, Windows, Idle
<1>2. WorkIsSound
  BY DEF TenancyInit, WorkIsSound, Idle
<1>3. WindowCounts
  BY PerMinuteBounds DEF TenancyInit, WindowCounts
<1> QED
  BY <1>1, <1>2, <1>3

\* The steps that are about the quota: nothing else changes a row.
LEMMA RowSteps ==
  ASSUME [TenancyNext]_tenancyVars
  PROVE  UNCHANGED <<status, stale>> \/ UNCHANGED status
         \/ \E w \in Workers : CreateRow(w) \/ ChangeRow(w)
BY DEF TenancyNext, tenancyVars, CallApi, AskForRow, AskToChange, AnswerCall, WorkFails,
  MinutePasses

\* What is stale stays stale.
LEMMA StaleStays ==
  ASSUME [TenancyNext]_tenancyVars PROVE stale \subseteq stale'
BY DEF TenancyNext, tenancyVars, CallApi, AskForRow, AskToChange, AnswerCall, WorkFails,
  MinutePasses, CreateRow, ChangeRow

\* Counters, rows and requests keep their types.
LEMMA TenancyTypeStep ==
  ASSUME TenancyType, WorkIsSound, [TenancyNext]_tenancyVars PROVE TenancyType'
<1> USE DEF TenancyType, Statuses, Windows
<1>1. CASE UNCHANGED tenancyVars
  BY <1>1 DEF tenancyVars
<1>2. ASSUME NEW w \in Workers, NEW k \in ApiKeys, CallApi(w, k) PROVE TenancyType'
  <2>1. NextWindow(window[k]) \in Windows
    BY DEF NextWindow
  <2>2. [does |-> "call", key |-> k, was |-> window[k], now |-> NextWindow(window[k])] \in Calls
    BY <2>1 DEF Calls
  <2> QED
    BY <1>2, <2>2 DEF CallApi, Receives
<1>3. ASSUME NEW w \in Workers, NEW kind \in Kinds, AskForRow(w, kind)
      PROVE TenancyType'
  <2>1. IsFiniteSet({row \in RowsOf(kind) : status[row] \in {"active", "paused"}})
    BY TenancyAssumption, FS_Subset DEF RowsOf
  <2>2. Counted(kind) \in Nat
    BY <2>1, FS_CardinalityType DEF Counted
  <2>3. [does |-> "create", kind |-> kind, had |-> Counted(kind)] \in Creates
    BY <2>2 DEF Creates, Kinds
  <2> QED
    BY <1>3, <2>3 DEF AskForRow, Receives
<1>4. ASSUME NEW w \in Workers, NEW row \in Row, NEW to \in Changes, AskToChange(w, row, to)
      PROVE TenancyType'
  <2>1. [does |-> "change", row |-> row, was |-> status[row], to |-> to] \in Edits
    BY DEF Edits
  <2> QED
    BY <1>4, <2>1 DEF AskToChange, Receives
<1>5. ASSUME NEW w \in Workers, AnswerCall(w) PROVE TenancyType'
  <2>1. work[w] \in Calls
    BY <1>5 DEF AnswerCall, Answers, Calls, Creates, Edits, Idle
  <2>2. work[w].key \in ApiKeys /\ work[w].was \in Windows /\ work[w].now \in Windows
    BY <2>1 DEF Calls
  <2>3. window' \in [ApiKeys -> Windows]
    BY <1>5, <2>2 DEF AnswerCall
  <2>4. served' \in [ApiKeys \X (1..MaxMinutes) -> Nat]
    <3> DEFINE at == <<work[w].key, work[w].now.start>>
    <3>1. served' = [served EXCEPT ![at] = served[at] + 1]
      BY <1>5 DEF AnswerCall
    <3>2. \A p \in ApiKeys \X (1..MaxMinutes) : served[p] + 1 \in Nat
      OBVIOUS
    <3> HIDE DEF at
    <3> QED
      BY <3>1, <3>2
  <2> QED
    BY <1>5, <2>3, <2>4 DEF AnswerCall, Answers
<1>6. ASSUME NEW w \in Workers, CreateRow(w) PROVE TenancyType'
  BY <1>6 DEF CreateRow, Answers
<1>7. ASSUME NEW w \in Workers, ChangeRow(w) PROVE TenancyType'
  <2>1. work[w] \in Edits
    BY <1>7 DEF ChangeRow, Answers, Calls, Creates, Edits, Idle
  <2>2. work[w].to \in Statuses
    BY <2>1 DEF Edits, Changes
  <2> QED
    BY <1>7, <2>2 DEF ChangeRow, Answers
<1>8. ASSUME NEW w \in Workers, WorkFails(w) PROVE TenancyType'
  BY <1>8 DEF WorkFails
<1>9. CASE MinutePasses
  BY <1>9 DEF MinutePasses
<1> QED
  BY <1>1, <1>2, <1>3, <1>4, <1>5, <1>6, <1>7, <1>8, <1>9 DEF TenancyNext

\* A request takes up what it was given, and keeps it.
LEMMA WorkStep ==
  ASSUME TenancyType, WorkIsSound, WindowCounts, [TenancyNext]_tenancyVars
  PROVE WorkIsSound'
<1> USE DEF TenancyType, WorkIsSound, Statuses, Windows
<1>1. CASE UNCHANGED tenancyVars
  BY <1>1 DEF tenancyVars
<1>2. ASSUME NEW w \in Workers, NEW k \in ApiKeys, CallApi(w, k) PROVE WorkIsSound'
  <2>1. window[k] \in [start : Nat, count : Nat] /\ window[k].start <= minute /\ minute \in Nat
    BY DEF WindowCounts
  <2>2. LET now == NextWindow(window[k])
        IN  /\ \/ now.start = window[k].start /\ now.count = window[k].count + 1
               \/ now.start > window[k].start /\ now.count = 1
            /\ now.count <= PerMinute /\ now.start <= minute
    <3>1. window[k].start \in Nat /\ window[k].count \in Nat
      BY <2>1
    <3>2. CASE window[k].start = minute
      <4>1. window[k].count + 1 <= Limit
        BY <1>2, <3>2 DEF CallApi, WithinLimit
      <4>2. NextWindow(window[k]) = [window[k] EXCEPT !.count = @ + 1]
        BY <3>2 DEF NextWindow
      <4>3. NextWindow(window[k]).start = window[k].start
            /\ NextWindow(window[k]).count = window[k].count + 1
        BY <2>1, <4>2
      <4> QED
        BY <2>1, <3>1, <4>1, <4>3, PerMinuteBounds
    <3>3. CASE window[k].start # minute
      <4>1. NextWindow(window[k]) = [start |-> minute, count |-> 1]
        BY <3>3 DEF NextWindow
      <4>2. minute > window[k].start
        BY <2>1, <3>1, <3>3, LessIfOther
      <4> QED
        BY <2>1, <4>1, <4>2, PerMinuteBounds
    <3> QED
      BY <3>2, <3>3
  <2> QED
    BY <1>2, <2>2 DEF CallApi, Receives
<1>3. ASSUME NEW w \in Workers, NEW kind \in Kinds, AskForRow(w, kind)
      PROVE WorkIsSound'
  BY <1>3 DEF AskForRow, Receives
<1>4. ASSUME NEW w \in Workers, NEW row \in Row, NEW to \in Changes, AskToChange(w, row, to)
      PROVE WorkIsSound'
  BY <1>4 DEF AskToChange, Receives
<1>5. ASSUME NEW w \in Workers, AnswerCall(w) \/ WorkFails(w) PROVE WorkIsSound'
  BY <1>5 DEF AnswerCall, WorkFails, Answers, Idle
<1>6. ASSUME NEW w \in Workers, CreateRow(w) PROVE WorkIsSound'
  BY <1>6 DEF CreateRow, Answers, Idle
<1>7. ASSUME NEW w \in Workers, ChangeRow(w) PROVE WorkIsSound'
  <2>1. work[w] \in Edits
    BY <1>7 DEF ChangeRow, Answers, Calls, Creates, Edits, Idle
  <2>2. \A row \in Row : status[row] # "absent" => status'[row] # "absent"
    BY <1>7, <2>1 DEF ChangeRow, Edits, Changes
  <2>3. \A v \in Workers : work[v].does = "change" => work[v].row \in Row
    BY DEF Calls, Creates, Edits, Idle
  <2> QED
    BY <1>7, <2>2, <2>3 DEF ChangeRow, Answers, Idle
<1>8. CASE MinutePasses
  <2>1. \A v \in Workers : work[v].does = "call" => work[v].now.start \in Nat
    BY DEF Calls, Creates, Edits, Idle
  <2> QED
    BY <1>8, <2>1 DEF MinutePasses
<1> QED
  BY <1>1, <1>2, <1>3, <1>4, <1>5, <1>6, <1>7, <1>8 DEF TenancyNext

\* A call that nobody overlapped is counted where it is answered.
LEMMA WindowStep ==
  ASSUME TenancyType, WorkIsSound, WindowCounts, [TenancyNext]_tenancyVars
  PROVE WindowCounts'
<1>1. CASE UNCHANGED <<window, minute, served, stale>>
  BY <1>1 DEF WindowCounts
<1>2. ASSUME NEW w \in Workers, AnswerCall(w) PROVE WindowCounts'
  <2> DEFINE key == work[w].key
             was == work[w].was
             now == work[w].now
  <2>1. work[w] \in Calls
    BY <1>2 DEF TenancyType, AnswerCall, Answers, Calls, Creates, Edits, Idle
  <2>2. key \in ApiKeys /\ was \in Windows /\ now \in Windows
    BY <2>1 DEF Calls
  <2>3. /\ \/ now.start = was.start /\ now.count = was.count + 1
           \/ now.start > was.start /\ now.count = 1
        /\ now.count <= PerMinute /\ now.start <= minute
    BY <1>2 DEF WorkIsSound, AnswerCall, Answers
  <2>4. \A k \in ApiKeys \ {key} : window'[k] = window[k]
    BY <1>2 DEF AnswerCall, TenancyType
  <2>5. \A k \in ApiKeys \ {key}, m \in 1..MaxMinutes : served'[<<k, m>>] = served[<<k, m>>]
    BY <1>2 DEF AnswerCall, TenancyType
  <2>6. window'[key].start = IF now.start = was.start THEN window[key].start ELSE now.start
    BY <1>2, <2>2 DEF AnswerCall, TenancyType
  <2>7. CASE window[key] # was
    <3>1. key \in stale' /\ minute' = minute /\ stale \subseteq stale'
      BY <1>2, <2>7 DEF AnswerCall
    <3>2. window'[key].start <= minute
      BY <2>2, <2>3, <2>6 DEF WindowCounts
    <3> QED
      BY <2>4, <2>5, <3>1, <3>2 DEF WindowCounts
  <2>8. CASE window[key] = was
    <3>1. window'[key] = now
      BY <1>2, <2>2, <2>8 DEF AnswerCall, TenancyType, Windows
    <3>2. \A m \in 1..MaxMinutes :
            served'[<<key, m>>] =
              IF m = now.start THEN served[<<key, m>>] + 1 ELSE served[<<key, m>>]
      BY <1>2, <2>2 DEF AnswerCall, TenancyType
    <3>3. \A m \in 1..MaxMinutes : served[<<key, m>>] \in Nat /\ m \in Nat
      BY <2>2 DEF TenancyType
    <3>4. now.start \in Nat /\ now.count \in Nat /\ was.start \in Nat /\ was.count \in Nat
      BY <2>2 DEF Windows
    <3>5. PerMinute \in Nat
      BY PerMinuteBounds
    <3>6. minute' = minute /\ stale \subseteq stale'
      BY <1>2 DEF AnswerCall
    <3>7. key \notin stale => \A m \in 1..MaxMinutes :
            /\ served'[<<key, m>>] <= PerMinute
            /\ m = now.start => served'[<<key, m>>] <= now.count
            /\ m > now.start => served'[<<key, m>>] = 0
      BY <2>2, <2>3, <2>8, <3>2, <3>3, <3>4, <3>5 DEF WindowCounts
    <3> QED
      BY <2>3, <2>4, <2>5, <3>1, <3>6, <3>7 DEF WindowCounts
  <2> QED
    BY <2>7, <2>8
<1>3. ASSUME NEW w \in Workers, CreateRow(w) PROVE WindowCounts'
  BY <1>3 DEF CreateRow, WindowCounts
<1>4. CASE MinutePasses
  BY <1>4 DEF MinutePasses, WindowCounts, TenancyType, Windows
<1> QED
  BY <1>1, <1>2, <1>3, <1>4 DEF TenancyNext, tenancyVars, CallApi, AskForRow, AskToChange,
    ChangeRow, WorkFails

\* Who is not told that others were faster finds as many as it was told, and less than
\* the quota.
LEMMA QuotaStep ==
  ASSUME TenancyType, WorkIsSound, QuotaHolds, [TenancyNext]_tenancyVars
  PROVE QuotaHolds'
<1> DEFINE Counting(kind, of) == {row \in RowsOf(kind) : of[row] \in {"active", "paused"}}
<1> SUFFICES ASSUME NEW kind \in Kinds, Quota[kind] # 0, kind \notin stale'
             PROVE Cardinality(Counting(kind, status')) <= Quota[kind]
  <2>1. \A kind \in Kinds : Quota[kind] \in Nat /\ Cardinality(Counting(kind, status')) \in Nat
    BY TenancyAssumption, FS_Subset, FS_CardinalityType DEF RowsOf
  <2> QED
    BY <2>1, TenancyAssumption DEF QuotaHolds
<1>1. kind \notin stale
  BY StaleStays
<1>2. Quota[kind] \in Nat /\ IsFiniteSet(RowsOf(kind)) /\ RowsOf(kind) \subseteq Row
  BY TenancyAssumption DEF RowsOf, Row
<1>3. IsFiniteSet(Counting(kind, status)) /\ Cardinality(Counting(kind, status)) \in Nat
  BY <1>2, FS_Subset, FS_CardinalityType
<1>4. Cardinality(Counting(kind, status)) <= Quota[kind]
  BY <1>1, <1>2, <1>3 DEF QuotaHolds
<1>5. CASE Counting(kind, status') \subseteq Counting(kind, status)
  <2>1. Cardinality(Counting(kind, status')) <= Cardinality(Counting(kind, status))
    BY <1>3, <1>5, FS_Subset
  <2>2. Cardinality(Counting(kind, status')) \in Nat
    BY <1>3, <1>5, FS_Subset, FS_CardinalityType
  <2> QED
    BY <1>2, <1>3, <1>4, <2>1, <2>2
<1>6. CASE UNCHANGED status
  BY <1>5, <1>6
<1>7. ASSUME NEW w \in Workers, ChangeRow(w)
      PROVE  Counting(kind, status') \subseteq Counting(kind, status)
  <2>1. work[w] \in Edits
    BY <1>7 DEF TenancyType, ChangeRow, Answers, Calls, Creates, Edits, Idle
  <2>2. status[work[w].row] # "absent"
    BY <1>7 DEF WorkIsSound, ChangeRow, Answers
  <2>3. \A row \in Row : status[row] \in Statuses
    BY DEF TenancyType
  <2>4. \A row \in Row : status'[row] = status[row] \/ status[row] \in {"active", "paused"}
    BY <1>7, <2>1, <2>2, <2>3 DEF TenancyType, ChangeRow, Statuses
  <2> QED
    BY <1>2, <2>4
<1>8. ASSUME NEW w \in Workers, CreateRow(w) PROVE Cardinality(Counting(kind, status')) <= Quota[kind]
  <2>1. PICK row \in RowsOf(work[w].kind) :
          status[row] = "absent" /\ status' = [status EXCEPT ![row] = "active"]
    BY <1>8 DEF CreateRow
  <2>2. work[w] \in Creates
    BY <1>8 DEF TenancyType, CreateRow, Answers, Calls, Creates, Edits, Idle
  <2>3. CASE work[w].kind # kind
    <3>1. row \notin RowsOf(kind)
      BY <2>2, <2>3, TenancyAssumption DEF Creates, Kinds, RowsOf
    <3>2. Counting(kind, status') \subseteq Counting(kind, status)
      BY <1>2, <2>1, <3>1 DEF TenancyType
    <3> QED
      BY <1>5, <3>2
  <2>4. CASE work[w].kind = kind
    <3>1. ~ (Counted(kind) > work[w].had) /\ work[w].had < Quota[kind]
      BY <1>8, <2>4 DEF CreateRow, Answers, WorkIsSound
    <3>2. work[w].had \in Nat
      BY <2>2 DEF Creates
    <3>3. Counted(kind) = Cardinality(Counting(kind, status))
      BY DEF Counted
    <3>4. Counting(kind, status') = Counting(kind, status) \cup {row}
      BY <1>2, <2>1, <2>4 DEF TenancyType
    <3> HIDE DEF Counting
    <3>5. Cardinality(Counting(kind, status) \cup {row}) = Cardinality(Counting(kind, status)) + 1
      BY <1>3, <2>1, FS_AddElement DEF Counting
    <3>6. Cardinality(Counting(kind, status) \cup {row}) \in Nat
      BY <1>3, FS_AddElement, FS_CardinalityType
    <3> QED
      BY <1>2, <1>3, <3>1, <3>2, <3>3, <3>4, <3>5, <3>6
  <2> QED
    BY <2>3, <2>4
<1> HIDE DEF Counting
<1> QED
  BY <1>5, <1>6, <1>7, <1>8, RowSteps

\* Nothing brings back what is deleted or revoked: a new row takes the place of none.
LEMMA GoneStep ==
  ASSUME TenancyType, [TenancyNext]_tenancyVars,
         NEW row \in Row, status[row] \in {"deleted", "revoked"}
  PROVE status'[row] = status[row]
<1>1. ASSUME NEW w \in Workers, CreateRow(w) PROVE status'[row] = status[row]
  BY <1>1 DEF CreateRow, TenancyType
<1>2. ASSUME NEW w \in Workers, ChangeRow(w) PROVE status'[row] = status[row]
  BY <1>2 DEF ChangeRow, TenancyType
<1> QED
  BY <1>1, <1>2, RowSteps

\* A step of the services is one of the accounts, or leaves them as they are.
LEMMA TenancyRuns ==
  [ServicesNext]_allVars => [TenancyNext]_tenancyVars
BY DEF ServicesNext, RunBoot, RunSignIn, RunTenancy, RunSnapshots, allVars, tenancyVars

\* The invariant of Tenancy holds whatever the other services do.
LEMMA TenancyInvariant == ServicesSpec => []TenancyInv
<1>1. ServicesInit => TenancyInv
  <2> SUFFICES ASSUME ServicesInit PROVE TenancyInv
    OBVIOUS
  <2>1. TenancyInit
    BY DEF ServicesInit
  <2>2. ASSUME NEW kind \in Kinds
        PROVE  Cardinality({row \in RowsOf(kind) : status[row] \in {"active", "paused"}}) = 0
    <3>1. {row \in RowsOf(kind) : status[row] \in {"active", "paused"}} = {}
      BY <2>1 DEF TenancyInit, RowsOf, Row
    <3> QED
      BY <3>1, FS_EmptySet
  <2>3. QuotaHolds
    BY <2>2, TenancyAssumption DEF QuotaHolds
  <2> QED
    BY <2>1, <2>3, TenancyStarts DEF TenancyInv
<1>2. TenancyInv /\ [ServicesNext]_allVars => TenancyInv'
  BY TenancyRuns, TenancyTypeStep, WorkStep, WindowStep, QuotaStep DEF TenancyInv
<1> QED
  BY <1>1, <1>2, PTL DEF ServicesSpec

\* No key is answered more often in a minute than the limit, unless calls with it overlap:
\* the window that a call finds knows of every call before it. This holds for every limit,
\* 0 included, with which the first call of a minute is answered.
THEOREM LimitIsKept == ServicesSpec => []LimitHolds
<1>1. TenancyInv => LimitHolds
  <2> SUFFICES ASSUME TenancyInv, NEW k \in ApiKeys, NEW m \in 1..MaxMinutes,
                      served[<<k, m>>] > PerMinute, k \notin stale
               PROVE FALSE
    BY DEF LimitHolds
  <2>1. served[<<k, m>>] \in Nat /\ served[<<k, m>>] <= PerMinute /\ PerMinute \in Nat
    BY PerMinuteBounds DEF TenancyInv, TenancyType, WindowCounts
  <2> QED
    BY <2>1
<1> QED
  BY <1>1, TenancyInvariant, PTL

\* No org has more keys or watchlists than its quota, if there is one, whatever it pauses,
\* deletes or revokes, unless two are created at once: the look and the insertion are apart.
THEOREM QuotaIsKept == ServicesSpec => []QuotaHolds
<1>1. TenancyInv => QuotaHolds
  BY DEF TenancyInv
<1> QED
  BY <1>1, TenancyInvariant, PTL

\* What is deleted or revoked stays so, also for a request that found it before.
THEOREM GoneStaysGone == ServicesSpec => GoneForGood
<1>1. TenancyInv /\ [ServicesNext]_allVars =>
        [\A row \in Row :
           status[row] \in {"deleted", "revoked"} => status'[row] = status[row]]_tenancyVars
  BY TenancyRuns, GoneStep DEF TenancyInv
<1> QED
  BY <1>1, TenancyInvariant, PTL DEF ServicesSpec, GoneForGood
-------------------------------------------------------------------------------
LinkRow   == [email : Emails, age : 0..2, spent : BOOLEAN, issued : Nat]
InviteRow ==
  {row \in [role : Roles \cup {"none"}, state : {"none", "pending", "accepted"}] :
     row.state # "none" => row.role \in Roles}
Session   == [link : Nat \ {0}, nth : Nat, org : 0..MaxOrgs]
Places    == OrgIds \X Emails

Asks     == [does : {"ask"}, email : Emails, seen : Nat]
Verifies == [does : {"verify"}, link : Nat \ {0}, seen : BOOLEAN]
Founds   == [does : {"found"}, session : Session]
Invites  == [does : {"invite"}, for : Places, role : RolesSent, seen : InviteRow]

\* The type of the links, sessions, invites and requests of SignIn.
SignInType ==
  /\ links \in Seq(LinkRow) /\ users \subseteq Emails /\ orgs \in 1..MaxOrgs
  /\ members \in [Places -> Roles \cup {"none"}] /\ founders \subseteq Places /\ invites \in [Places -> InviteRow]
  /\ sessions \subseteq Session
  /\ serving \in [Handlers -> {Free} \cup Asks \cup Verifies \cup Founds \cup Invites]

\* Sessions and requests name links that have been sent. A request has looked at a link
\* that was not spent, and an address that may ask for one more.
RequestsAreSound ==
  /\ \A s \in sessions : s.link \in DOMAIN links
  /\ \A h \in Handlers :
       /\ serving[h].does = "ask" => serving[h].seen < LinksPerHour
       /\ serving[h].does = "verify" => serving[h].link \in DOMAIN links /\ ~ serving[h].seen
       /\ serving[h].does = "found" => serving[h].session.link \in DOMAIN links

\* What is not spent has opened no session.
UnspentOpensNothing == \A l \in DOMAIN links : ~ links[l].spent => links[l].issued = 0

\* The inductive invariant of SignIn.
SignInInv ==
  /\ SignInType /\ RequestsAreSound /\ UnspentOpensNothing
  /\ LinksWorkOnce /\ LinksAreFew /\ InviteesAreMembers /\ SessionsBelong
-------------------------------------------------------------------------------
\* The steps that touch the links.
LEMMA LinkSteps ==
  ASSUME [SignInNext]_signInVars
  PROVE  \/ UNCHANGED links
         \/ \E h \in Handlers : SendLink(h) \/ SignUserIn(h)
         \/ HalfHourPasses
BY DEF SignInNext, signInVars, AskForLink, OpenLink, FoundOrg, Invite, OrgFounded, InviteSent,
  RequestFails, LogOut, SwitchOrg

\* What has been overtaken is remembered.
LEMMA OvertakenStays ==
  ASSUME [SignInNext]_signInVars PROVE overtaken \subseteq overtaken'
BY DEF SignInNext, signInVars, AskForLink, OpenLink, FoundOrg, Invite, OrgFounded, InviteSent,
  RequestFails, LogOut, SwitchOrg, SendLink, SignUserIn, HalfHourPasses

\* A request that was served is one of its kind.
LEMMA ServedRequests ==
  ASSUME SignInType, NEW h \in Handlers
  PROVE  /\ serving[h].does = "ask" => serving[h] \in Asks
         /\ serving[h].does = "verify" => serving[h] \in Verifies
         /\ serving[h].does = "found" => serving[h] \in Founds
         /\ serving[h].does = "invite" => serving[h] \in Invites
BY DEF SignInType, Free, Asks, Verifies, Founds, Invites

\* The links are a table, the n-th row of which is the n-th link.
LEMMA LinkTable ==
  ASSUME SignInType
  PROVE  /\ links \in Seq(LinkRow) /\ Len(links) \in Nat /\ DOMAIN links = 1..Len(links)
         /\ \A l \in DOMAIN links : links[l] \in LinkRow
BY ElementOfSeq, LenProperties DEF SignInType

\* A link that is sent is a new row, and touches no other.
LEMMA LinkSent ==
  ASSUME SignInType, NEW h \in Handlers, SendLink(h)
  PROVE  /\ links' \in Seq(LinkRow) /\ DOMAIN links' = 1..(Len(links) + 1)
         /\ \A l \in DOMAIN links : links'[l] = links[l]
         /\ links'[Len(links) + 1].email = serving[h].email
         /\ links'[Len(links) + 1].age = 0 /\ links'[Len(links) + 1].issued = 0
<1> DEFINE new == [email |-> serving[h].email, age |-> 0, spent |-> FALSE, issued |-> 0]
<1>1. new \in LinkRow
  BY ServedRequests DEF SendLink, Serves, Asks, LinkRow
<1>2. links' = Append(links, new)
  BY DEF SendLink
<1> HIDE DEF new
<1>3. /\ links' \in Seq(LinkRow) /\ DOMAIN links' = 1..(Len(links) + 1)
      /\ \A l \in DOMAIN links : links'[l] = links[l]
      /\ links'[Len(links) + 1] = new
  BY LinkTable, <1>1, <1>2, AppendProperties
<1>4. new.email = serving[h].email /\ new.age = 0 /\ new.issued = 0
  BY DEF new
<1> QED
  BY <1>3, <1>4

\* A link that is opened is marked, and touches no other.
LEMMA LinkMarked ==
  ASSUME SignInType, RequestsAreSound, NEW h \in Handlers, SignUserIn(h)
  PROVE  LET l == serving[h].link
         IN  /\ l \in DOMAIN links
             /\ links' \in Seq(LinkRow) /\ DOMAIN links' = DOMAIN links
             /\ \A k \in DOMAIN links \ {l} : links'[k] = links[k]
             /\ links'[l].email = links[l].email /\ links'[l].age = links[l].age
             /\ links'[l].spent = TRUE /\ links'[l].issued = links[l].issued + 1
<1> DEFINE l == serving[h].link
           new == [links[l] EXCEPT !.spent = TRUE, !.issued = @ + 1]
<1>1. l \in DOMAIN links
  BY DEF RequestsAreSound, SignUserIn, Serves
<1>2. /\ new \in LinkRow /\ new.email = links[l].email /\ new.age = links[l].age
      /\ new.spent = TRUE /\ new.issued = links[l].issued + 1
  <2>1. links[l] \in LinkRow /\ links[l].issued \in Nat
    BY LinkTable, <1>1 DEF LinkRow
  <2>2. ASSUME NEW r \in LinkRow, NEW n \in Nat
        PROVE  LET to == [r EXCEPT !.spent = TRUE, !.issued = n]
               IN  /\ to \in LinkRow /\ to.email = r.email /\ to.age = r.age
                   /\ to.spent = TRUE /\ to.issued = n
    BY DEF LinkRow
  <2>3. links[l].issued + 1 \in Nat
    BY <2>1
  <2> QED
    BY <2>1, <2>2, <2>3
<1>3. links' = [links EXCEPT ![l] = new]
  BY DEF SignUserIn
<1> HIDE DEF new, l
<1>4. /\ links' \in Seq(LinkRow) /\ DOMAIN links' = DOMAIN links /\ links'[l] = new
      /\ \A k \in DOMAIN links \ {l} : links'[k] = links[k]
  BY LinkTable, <1>1, <1>2, <1>3, ExceptSeq
<1>5. /\ links'[l].email = links[l].email /\ links'[l].age = links[l].age
      /\ links'[l].spent = TRUE /\ links'[l].issued = links[l].issued + 1
  BY <1>2, <1>4
<1> QED
  BY <1>1, <1>4, <1>5 DEF l

\* Time makes links older, and changes nothing else of them.
LEMMA LinksAge ==
  ASSUME SignInType, HalfHourPasses
  PROVE  /\ links' \in Seq(LinkRow) /\ DOMAIN links' = DOMAIN links
         /\ \A l \in DOMAIN links :
              /\ links'[l].email = links[l].email /\ (links'[l].age < 2 => links[l].age < 2)
              /\ links'[l].spent = links[l].spent /\ links'[l].issued = links[l].issued
<1> DEFINE older(l) == [links[l] EXCEPT !.age = IF @ = 2 THEN 2 ELSE @ + 1]
<1>1. links' = [l \in 1..Len(links) |-> older(l)]
  BY LinkTable DEF HalfHourPasses
<1>2. ASSUME NEW l \in 1..Len(links)
      PROVE  /\ older(l) \in LinkRow /\ older(l).email = links[l].email
             /\ older(l).age < 2 => links[l].age < 2
             /\ older(l).spent = links[l].spent /\ older(l).issued = links[l].issued
  <2>1. links[l] \in LinkRow /\ links[l].age \in {0, 1, 2}
    BY LinkTable DEF LinkRow
  <2>2. (IF links[l].age = 2 THEN 2 ELSE links[l].age + 1) \in 0..2
    BY <2>1
  <2> QED
    BY <2>1, <2>2 DEF LinkRow
<1> HIDE DEF older
<1>3. links' \in [1..Len(links) -> LinkRow]
  BY <1>1, <1>2
<1>4. links' \in Seq(LinkRow)
  BY LinkTable, <1>3, SeqDef
<1> QED
  BY LinkTable, <1>1, <1>2, <1>4

\* Links are added and get old; what they are for stays.
LEMMA LinksGrow ==
  ASSUME SignInType, RequestsAreSound, [SignInNext]_signInVars
  PROVE  /\ links' \in Seq(LinkRow) /\ DOMAIN links \subseteq DOMAIN links'
         /\ \A l \in DOMAIN links : links'[l].email = links[l].email
<1>1. ASSUME NEW h \in Handlers, SignUserIn(h)
      PROVE  /\ links' \in Seq(LinkRow) /\ DOMAIN links \subseteq DOMAIN links'
             /\ \A l \in DOMAIN links : links'[l].email = links[l].email
  BY <1>1, LinkMarked
<1>2. ASSUME NEW h \in Handlers, SendLink(h)
      PROVE  /\ links' \in Seq(LinkRow) /\ DOMAIN links \subseteq DOMAIN links'
             /\ \A l \in DOMAIN links : links'[l].email = links[l].email
  BY <1>2, LinkSent, LinkTable
<1> QED
  BY <1>1, <1>2, LinksAge, LinkTable, LinkSteps

\* What is not spent has opened no session, and what has opened two was overtaken.
LEMMA OnceStep ==
  ASSUME SignInType, RequestsAreSound, UnspentOpensNothing, LinksWorkOnce,
         [SignInNext]_signInVars
  PROVE  UnspentOpensNothing' /\ LinksWorkOnce'
<1>0. \A l \in DOMAIN links : links[l].issued \in Nat /\ links[l].spent \in BOOLEAN
  BY LinkTable DEF LinkRow
<1>1. ASSUME NEW h \in Handlers, SignUserIn(h) PROVE UnspentOpensNothing' /\ LinksWorkOnce'
  <2> DEFINE l == serving[h].link
  <2>1. /\ l \in DOMAIN links /\ DOMAIN links' = DOMAIN links
        /\ \A k \in DOMAIN links \ {l} : links'[k] = links[k]
        /\ links'[l].spent = TRUE /\ links'[l].issued = links[l].issued + 1
    BY <1>1, LinkMarked
  <2>2. links[l].spent => <<"verify", l>> \in overtaken'
    BY <1>1 DEF SignUserIn, Serves, RequestsAreSound
  <2>3. ~ links[l].spent => links'[l].issued = 1
    BY <1>0, <2>1 DEF UnspentOpensNothing
  <2> HIDE DEF l
  <2> QED
    BY <2>1, <2>2, <2>3, OvertakenStays DEF UnspentOpensNothing, LinksWorkOnce
<1>2. ASSUME NEW h \in Handlers, SendLink(h) PROVE UnspentOpensNothing' /\ LinksWorkOnce'
  <2>1. \A l \in DOMAIN links' : l \in DOMAIN links \/ l = Len(links) + 1
    BY <1>2, LinkSent, LinkTable
  <2>2. links'[Len(links) + 1].issued = 0
    BY <1>2, LinkSent
  <2> QED
    BY <1>2, <2>1, <2>2, LinkSent, OvertakenStays DEF UnspentOpensNothing, LinksWorkOnce
<1>3. CASE HalfHourPasses
  BY <1>3, LinksAge, OvertakenStays DEF UnspentOpensNothing, LinksWorkOnce
<1>4. CASE UNCHANGED links
  BY <1>4, OvertakenStays DEF UnspentOpensNothing, LinksWorkOnce
<1> QED
  BY <1>1, <1>2, <1>3, <1>4, LinkSteps

\* Who finds as many links as it counted, when it was below the limit, may add one.
LEMMA FewStep ==
  ASSUME SignInType, RequestsAreSound, LinksAreFew, [SignInNext]_signInVars
  PROVE  LinksAreFew'
<1> DEFINE Mine(e, of) == {l \in DOMAIN of : of[l].email = e /\ of[l].age < 2}
<1>1. \A e \in Emails : IsFiniteSet(Mine(e, links)) /\ Cardinality(Mine(e, links)) \in Nat
  <2>1. \A e \in Emails : Mine(e, links) \subseteq 1..Len(links)
    BY LinkTable
  <2>2. IsFiniteSet(1..Len(links))
    BY LinkTable, FS_Interval
  <2> HIDE DEF Mine
  <2> QED
    BY <2>1, <2>2, FS_Subset, FS_CardinalityType
<1>2. LinksPerHour \in Nat
  BY SignInAssumption
<1> SUFFICES ASSUME NEW e \in Emails, <<"ask", e>> \notin overtaken'
             PROVE  /\ Cardinality(Mine(e, links')) \in Nat
                    /\ Cardinality(Mine(e, links')) <= LinksPerHour
  BY <1>2 DEF LinksAreFew
<1>3. <<"ask", e>> \notin overtaken
  BY OvertakenStays
<1>4. Cardinality(Mine(e, links)) <= LinksPerHour
  BY <1>1, <1>2, <1>3 DEF LinksAreFew
<1>5. CASE Mine(e, links') \subseteq Mine(e, links)
  <2>1. /\ IsFiniteSet(Mine(e, links'))
        /\ Cardinality(Mine(e, links')) <= Cardinality(Mine(e, links))
    BY <1>1, <1>5, FS_Subset
  <2>2. Cardinality(Mine(e, links')) \in Nat
    BY <2>1, FS_CardinalityType
  <2> HIDE DEF Mine
  <2> QED
    BY <1>1, <1>2, <1>4, <2>1, <2>2
<1>6. CASE UNCHANGED links
  BY <1>5, <1>6
<1>7. ASSUME NEW h \in Handlers, SignUserIn(h) PROVE Mine(e, links') \subseteq Mine(e, links)
  BY <1>7, LinkMarked
<1>8. CASE HalfHourPasses
  BY <1>5, <1>8, LinksAge
<1>9. ASSUME NEW h \in Handlers, SendLink(h)
      PROVE  /\ Cardinality(Mine(e, links')) \in Nat
             /\ Cardinality(Mine(e, links')) <= LinksPerHour
  <2>1. Mine(e, links') = Mine(e, links) \cup
          (IF serving[h].email = e THEN {Len(links) + 1} ELSE {})
    BY <1>9, LinkSent, LinkTable
  <2>2. CASE serving[h].email # e
    <3>1. Mine(e, links') \subseteq Mine(e, links)
      BY <2>1, <2>2
    <3> QED
      BY <1>5, <3>1
  <2>3. CASE serving[h].email = e
    <3>1. ~ (Recent(e) > serving[h].seen) /\ serving[h].seen < LinksPerHour
      BY <1>9, <2>3 DEF SendLink, Serves, RequestsAreSound
    <3>2. serving[h].seen \in Nat
      BY <1>9, ServedRequests DEF SendLink, Serves, Asks
    <3>3. Recent(e) = Cardinality(Mine(e, links))
      BY DEF Recent
    <3>4. /\ Mine(e, links') = Mine(e, links) \cup {Len(links) + 1}
          /\ Len(links) + 1 \notin Mine(e, links)
      BY <2>1, <2>3, LinkTable
    <3> HIDE DEF Mine
    <3>5. Cardinality(Mine(e, links')) = Cardinality(Mine(e, links)) + 1
      BY <1>1, <3>4, FS_AddElement
    <3> QED
      BY <1>1, <1>2, <3>1, <3>2, <3>3, <3>5
  <2> QED
    BY <2>2, <2>3
<1> HIDE DEF Mine
<1> QED
  BY <1>5, <1>6, <1>7, <1>8, <1>9, LinkSteps

\* The steps that touch invites, memberships, accounts and orgs.
LEMMA MemberSteps ==
  ASSUME [SignInNext]_signInVars
  PROVE  \/ UNCHANGED <<users, orgs, members, founders, invites>>
         \/ \E h \in Handlers : SignUserIn(h) \/ OrgFounded(h) \/ InviteSent(h)
BY DEF SignInNext, signInVars, AskForLink, OpenLink, FoundOrg, Invite, SendLink, RequestFails,
  LogOut, SwitchOrg, HalfHourPasses

\* Who founds an org has a session of a link that was sent, and becomes its owner.
LEMMA Founding ==
  ASSUME SignInType, RequestsAreSound, NEW h \in Handlers, OrgFounded(h)
  PROVE  LET s == serving[h].session
             p == <<orgs + 1, Email(s)>>
         IN  /\ s \in Session /\ s.link \in DOMAIN links /\ Email(s) \in Emails
             /\ orgs + 1 \in OrgIds /\ p \in Places
             /\ members' = [members EXCEPT ![p] = "owner"] /\ founders' = founders \cup {p}
<1>1. serving[h].session \in Session /\ serving[h].session.link \in DOMAIN links
  BY ServedRequests DEF OrgFounded, Serves, Founds, RequestsAreSound
<1>2. Email(serving[h].session) \in Emails
  BY <1>1, LinkTable DEF Email, LinkRow
<1>3. orgs + 1 \in OrgIds
  BY SignInAssumption DEF SignInType, OrgFounded, OrgIds
<1>4. /\ members' = [members EXCEPT ![<<orgs + 1, Email(serving[h].session)>>] = "owner"]
      /\ founders' = founders \cup {<<orgs + 1, Email(serving[h].session)>>}
  BY DEF OrgFounded
<1> QED
  BY <1>1, <1>2, <1>3, <1>4 DEF Places

\* The row that an invite leaves where it finds the row `row`.
Written(request, row) ==
  LET role == Named(request.role, request.seen.role)
  IN  CASE request.seen.state = "none" ->
             [role |-> Named(request.role, "member"), state |-> "pending"]
        [] request.seen.state = "pending" /\ request.seen.role # role -> [row EXCEPT !.role = role]
        [] OTHER -> row

\* It names a role, whatever the form named. Only an overtaken invite changes one that has
\* been accepted.
LEMMA WrittenRow ==
  ASSUME NEW request, NEW row \in InviteRow, request.seen \in InviteRow
  PROVE  /\ Written(request, row) \in InviteRow
         /\ request.seen.state = "none" => Written(request, row).state = "pending"
         /\ request.seen.state # "none" => Written(request, row).state = row.state
         /\ row = request.seen /\ row.state = "accepted" => Written(request, row) = row
<1> DEFINE role == Named(request.role, request.seen.role)
<1>1. CASE request.seen.state = "none"
  <2>1. Written(request, row) = [role |-> Named(request.role, "member"), state |-> "pending"]
    BY <1>1 DEF Written
  <2>2. Named(request.role, "member") \in Roles
    BY DEF Named, Roles
  <2> QED
    BY <1>1, <2>1, <2>2 DEF InviteRow
<1>2. CASE request.seen.state = "pending" /\ request.seen.role # role
  <2>1. Written(request, row) = [row EXCEPT !.role = role]
    BY <1>2 DEF Written
  <2>2. role \in Roles
    BY <1>2 DEF Named, InviteRow
  <2> HIDE DEF role
  <2>3. Written(request, row) \in InviteRow /\ Written(request, row).state = row.state
    BY <2>1, <2>2 DEF InviteRow
  <2> QED
    BY <1>2, <2>3
<1>3. CASE ~ (request.seen.state = "none")
             /\ ~ (request.seen.state = "pending" /\ request.seen.role # role)
  <2>1. Written(request, row) = row
    BY <1>3 DEF Written
  <2> QED
    BY <1>3, <2>1
<1> QED
  BY <1>1, <1>2, <1>3

\* Roles and invites keep their types.
LEMMA MemberTypes ==
  ASSUME SignInType, RequestsAreSound, [SignInNext]_signInVars
  PROVE  /\ users' \subseteq Emails /\ orgs' \in 1..MaxOrgs
         /\ members' \in [Places -> Roles \cup {"none"}] /\ founders' \subseteq Places
         /\ invites' \in [Places -> InviteRow]
<1> DEFINE Goal == /\ users' \subseteq Emails /\ orgs' \in 1..MaxOrgs
                   /\ members' \in [Places -> Roles \cup {"none"}] /\ founders' \subseteq Places
                   /\ invites' \in [Places -> InviteRow]
<1> USE DEF SignInType
<1>1. CASE UNCHANGED <<users, orgs, members, founders, invites>>
  BY <1>1
<1>2. ASSUME NEW h \in Handlers, SignUserIn(h) PROVE Goal
  <2> DEFINE e == links[serving[h].link].email
  <2>1. e \in Emails
    BY <1>2, LinkMarked, LinkTable DEF LinkRow
  <2>2. \A p \in Places : members[p] \in Roles \cup {"none"} /\ invites[p] \in InviteRow
    OBVIOUS
  <2>3. /\ members' = Joined(e) /\ invites' = Accepted(e) /\ users' = users \cup {e} /\ orgs' = orgs
        /\ founders' = founders
    BY <1>2 DEF SignUserIn
  <2> HIDE DEF e
  <2>4. \A p \in Places : invites[p].role \in Roles \cup {"none"}
    BY <2>2 DEF InviteRow
  <2>5. Joined(e) \in [Places -> Roles \cup {"none"}]
    BY <2>2, <2>4 DEF Joined
  <2>6. \A row \in InviteRow :
          row.state = "pending" => [row EXCEPT !.state = "accepted"] \in InviteRow
    BY DEF InviteRow
  <2>7. Accepted(e) \in [Places -> InviteRow]
    <3>1. \A p \in Places : p = <<p[1], p[2]>>
      BY DEF Places
    <3> QED
      BY <2>2, <2>6, <3>1 DEF Accepted, Invited
  <2> QED
    BY <2>1, <2>3, <2>5, <2>7
<1>3. ASSUME NEW h \in Handlers, OrgFounded(h) PROVE Goal
  <2>1. orgs' = orgs + 1 /\ UNCHANGED <<users, invites>>
    BY <1>3 DEF OrgFounded
  <2>2. orgs + 1 \in OrgIds
    BY <1>3, Founding
  <2>3. members' \in [Places -> Roles \cup {"none"}] /\ founders' \subseteq Places
    BY <1>3, Founding DEF Roles
  <2> QED
    BY <2>1, <2>2, <2>3 DEF OrgIds
<1>4. ASSUME NEW h \in Handlers, InviteSent(h) PROVE Goal
  <2> DEFINE request == serving[h]
             row == invites[request.for]
  <2>1. request \in Invites
    BY <1>4, ServedRequests DEF InviteSent, Serves
  <2>2. request.for \in Places /\ request.seen \in InviteRow
    BY <2>1 DEF Invites
  <2>3. row \in InviteRow
    BY <2>2
  <2>4. PICK new : invites' = [invites EXCEPT ![request.for] = new] /\ new = Written(request, row)
    BY <1>4 DEF InviteSent, Written
  <2>5. new \in InviteRow
    BY <2>2, <2>3, <2>4, WrittenRow
  <2>6. UNCHANGED <<users, orgs, members, founders>>
    BY <1>4 DEF InviteSent
  <2> HIDE DEF request, row
  <2> QED
    BY <2>4, <2>5, <2>6
<1> QED
  BY <1>1, <1>2, <1>3, <1>4, MemberSteps

\* Who accepts becomes a member, and who is one accepted.
LEMMA InviteeStep ==
  ASSUME SignInType, RequestsAreSound, InviteesAreMembers, [SignInNext]_signInVars
  PROVE  InviteesAreMembers'
<1>0. DOMAIN invites = Places /\ DOMAIN members = Places
  BY DEF SignInType
<1>1. CASE UNCHANGED <<users, orgs, members, founders, invites>>
  BY <1>1, OvertakenStays DEF InviteesAreMembers
<1>2. ASSUME NEW h \in Handlers, SignUserIn(h) PROVE InviteesAreMembers'
  <2> DEFINE e == links[serving[h].link].email
  <2>1. members' = Joined(e) /\ invites' = Accepted(e)
    BY <1>2 DEF SignUserIn
  <2> HIDE DEF e
  <2>0. founders' = founders
    BY <1>2 DEF SignUserIn
  <2> SUFFICES ASSUME NEW p \in Places
               PROVE  /\ Accepted(e)[p].state = "accepted" =>
                           /\ Joined(e)[p] # "none"
                           /\ \/ Joined(e)[p] = Accepted(e)[p].role
                              \/ p \in founders \/ <<"invite", p>> \in overtaken
                      /\ Joined(e)[p] # "none" /\ p \notin founders =>
                           Accepted(e)[p].state = "accepted"
                      /\ p \in founders => Joined(e)[p] = "owner"
    BY <1>0, <2>0, <2>1, OvertakenStays DEF InviteesAreMembers, Accepted
  <2>2. invites[p] \in InviteRow
    BY DEF SignInType
  <2>3. /\ invites[p].state = "accepted" =>
             /\ members[p] # "none"
             /\ \/ members[p] = invites[p].role
                \/ p \in founders \/ <<"invite", p>> \in overtaken
        /\ members[p] # "none" /\ p \notin founders => invites[p].state = "accepted"
        /\ p \in founders => members[p] = "owner"
    BY <1>0 DEF InviteesAreMembers
  <2>4. CASE p[2] = e /\ Invited(p[1], e)
    <3>1. p = <<p[1], p[2]>>
      BY DEF Places
    <3>2. invites[p].state = "pending"
      BY <2>4, <3>1 DEF Invited
    <3>3. Accepted(e)[p] = [invites[p] EXCEPT !.state = "accepted"]
      BY <1>0, <2>4 DEF Accepted
    <3>4. Accepted(e)[p].state = "accepted" /\ Accepted(e)[p].role = invites[p].role
      BY <2>2, <3>3 DEF InviteRow
    <3>5. Joined(e)[p] = IF members[p] = "none" THEN invites[p].role ELSE members[p]
      BY <1>0, <2>4 DEF Joined
    <3>6. invites[p].role # "none"
      BY <2>2, <3>2 DEF InviteRow, Roles
    <3> QED
      BY <2>3, <3>2, <3>4, <3>5, <3>6
  <2>5. CASE ~ (p[2] = e /\ Invited(p[1], e))
    <3>1. Accepted(e)[p] = invites[p] /\ Joined(e)[p] = members[p]
      BY <1>0, <2>5 DEF Accepted, Joined
    <3> QED
      BY <2>3, <3>1
  <2> QED
    BY <2>4, <2>5
<1>3. ASSUME NEW h \in Handlers, OrgFounded(h) PROVE InviteesAreMembers'
  <2> DEFINE new == <<orgs + 1, Email(serving[h].session)>>
  <2>1. /\ new \in Places /\ members' = [members EXCEPT ![new] = "owner"]
        /\ founders' = founders \cup {new}
    BY <1>3, Founding
  <2>2. invites' = invites
    BY <1>3 DEF OrgFounded
  <2> HIDE DEF new
  <2>3. members'[new] = "owner" /\ \A p \in Places \ {new} : members'[p] = members[p]
    BY <1>0, <2>1
  <2> QED
    BY <1>0, <2>1, <2>2, <2>3, OvertakenStays DEF InviteesAreMembers
<1>4. ASSUME NEW h \in Handlers, InviteSent(h) PROVE InviteesAreMembers'
  <2> DEFINE request == serving[h]
             row == invites[request.for]
             new == Written(request, row)
  <2>1. request \in Invites
    BY <1>4, ServedRequests DEF InviteSent, Serves
  <2>2. request.for \in Places /\ row \in InviteRow /\ request.seen \in InviteRow
    BY <2>1 DEF Invites, SignInType
  <2>3. /\ invites' = [invites EXCEPT ![request.for] = new]
        /\ members' = members /\ founders' = founders
    BY <1>4 DEF InviteSent, Written
  <2>4. row # request.seen => <<"invite", request.for>> \in overtaken'
    BY <1>4 DEF InviteSent
  <2>5. request.seen.state = "none" => row.state = "none"
    BY <1>4 DEF InviteSent
  <2>6. /\ new.state = row.state \/ (row.state = "none" /\ new.state = "pending")
        /\ new.state = "accepted" /\ row = request.seen => new.role = row.role
    BY <2>2, <2>5, WrittenRow
  <2> HIDE DEF new
  <2>7. /\ invites'[request.for] = new /\ DOMAIN invites' = Places
        /\ \A p \in Places \ {request.for} : invites'[p] = invites[p]
    BY <1>0, <2>2, <2>3
  <2> QED
    <3>1. /\ DOMAIN invites = Places /\ members' = members /\ founders' = founders
          /\ overtaken \subseteq overtaken'
      BY <1>0, <2>3, OvertakenStays
    <3>2. ASSUME NEW p \in Places \ {request.for}
          PROVE  /\ invites'[p].state = "accepted" =>
                      /\ members'[p] # "none"
                      /\ \/ members'[p] = invites'[p].role
                         \/ p \in founders' \/ <<"invite", p>> \in overtaken'
                 /\ members'[p] # "none" /\ p \notin founders' => invites'[p].state = "accepted"
                 /\ p \in founders' => members'[p] = "owner"
      BY <2>7, <3>1 DEF InviteesAreMembers
    <3>3. /\ invites'[request.for].state = "accepted" =>
               /\ members'[request.for] # "none"
               /\ \/ members'[request.for] = invites'[request.for].role
                  \/ request.for \in founders' \/ <<"invite", request.for>> \in overtaken'
          /\ members'[request.for] # "none" /\ request.for \notin founders' =>
               invites'[request.for].state = "accepted"
          /\ request.for \in founders' => members'[request.for] = "owner"
      BY <2>2, <2>4, <2>6, <2>7, <3>1 DEF InviteesAreMembers
    <3>4. ASSUME NEW p \in Places
          PROVE  /\ invites'[p].state = "accepted" =>
                      /\ members'[p] # "none"
                      /\ \/ members'[p] = invites'[p].role
                         \/ p \in founders' \/ <<"invite", p>> \in overtaken'
                 /\ members'[p] # "none" /\ p \notin founders' => invites'[p].state = "accepted"
                 /\ p \in founders' => members'[p] = "owner"
      <4>1. CASE p = request.for
        BY <3>3, <4>1
      <4>2. CASE p # request.for
        BY <3>2, <4>2
      <4> QED
        BY <4>1, <4>2
    <3> QED
      BY <2>7, <3>4 DEF InviteesAreMembers
<1> QED
  BY <1>1, <1>2, <1>3, <1>4, MemberSteps

\* Accounts and memberships are not taken back.
LEMMA MembersStay ==
  ASSUME SignInType, RequestsAreSound, [SignInNext]_signInVars
  PROVE  /\ users \subseteq users'
         /\ \A o \in OrgIds, e \in Emails :
              members[<<o, e>>] # "none" => members'[<<o, e>>] # "none"
<1>1. ASSUME NEW h \in Handlers, SignUserIn(h)
      PROVE  \A p \in Places : members[p] # "none" => members'[p] = members[p]
  BY <1>1 DEF SignUserIn, Joined, SignInType
<1>2. ASSUME NEW h \in Handlers, OrgFounded(h)
      PROVE  \A p \in Places : members'[p] \in {members[p], "owner"}
  BY <1>2, Founding DEF SignInType
<1>3. users \subseteq users'
  BY MemberSteps DEF SignUserIn, OrgFounded, InviteSent
<1>4. ASSUME NEW h \in Handlers, InviteSent(h) PROVE members' = members
  BY <1>4 DEF InviteSent
<1> QED
  BY <1>1, <1>2, <1>3, <1>4, MemberSteps DEF Places

\* Sessions are opened by links, follow their org, and else stay as they are.
LEMMA SessionSteps ==
  ASSUME SignInType, RequestsAreSound, [SignInNext]_signInVars, NEW t \in sessions'
  PROVE  \/ t \in sessions
         \/ \E h \in Handlers : SignUserIn(h) /\ t.link = serving[h].link
              /\ t \in [link : {serving[h].link}, nth : Nat, org : 0..MaxOrgs]
              /\ (t.org = 0 \/ members'[<<t.org, links[serving[h].link].email>>] # "none")
         \/ \E s \in sessions : t \in Session /\ t.link = s.link /\
              \/ t.org \in OrgsOf(Email(s))
              \/ \E h \in Handlers :
                   OrgFounded(h) /\ t.org = orgs + 1 /\ s.link = serving[h].session.link
<1> DEFINE Opened(h) == /\ SignUserIn(h) /\ t.link = serving[h].link
                        /\ t \in [link : {serving[h].link}, nth : Nat, org : 0..MaxOrgs]
                        /\ (t.org = 0 \/ members'[<<t.org, links[serving[h].link].email>>] # "none")
           Founded(h, s) == OrgFounded(h) /\ t.org = orgs + 1 /\ s.link = serving[h].session.link
<1>0. \A s \in sessions : s \in Session
  BY DEF SignInType
<1>1. ASSUME NEW h \in Handlers, SignUserIn(h) PROVE t \in sessions \/ Opened(h)
  <2> DEFINE l == serving[h].link
             e == links[l].email
             mine == {i \in OrgIds : members'[<<i, e>>] # "none"}
  <2>1. PICK o \in IF mine = {} THEN {0} ELSE mine :
          sessions' = sessions \cup {[link |-> l, nth |-> links[l].issued + 1, org |-> o]}
    BY <1>1 DEF SignUserIn
  <2>2. links[l].issued + 1 \in Nat
    <3>1. links[l] \in LinkRow
      BY <1>1, LinkMarked, LinkTable
    <3>2. links[l].issued \in Nat
      BY <3>1 DEF LinkRow
    <3> QED
      BY <3>2
  <2>3. o \in 0..MaxOrgs /\ (o = 0 \/ members'[<<o, e>>] # "none")
    BY SignInAssumption DEF OrgIds
  <2>4. CASE t = [link |-> l, nth |-> links[l].issued + 1, org |-> o]
    <3>1. t.link = l /\ t.org = o
      BY <2>4
    <3>2. t \in [link : {l}, nth : Nat, org : 0..MaxOrgs]
      BY <2>2, <2>3, <2>4
    <3> QED
      BY <1>1, <2>3, <3>1, <3>2
  <2> QED
    BY <2>1, <2>4
<1>2. ASSUME NEW h \in Handlers, OrgFounded(h)
      PROVE  t \in sessions \/ \E s \in sessions : t \in Session /\ t.link = s.link /\ Founded(h, s)
  <2> DEFINE f == serving[h].session
  <2>1. orgs' = orgs + 1 /\ orgs + 1 \in 0..MaxOrgs
    <3>1. orgs' = orgs + 1 /\ orgs + 1 \in OrgIds
      BY <1>2, Founding DEF OrgFounded
    <3> QED
      BY <3>1, SignInAssumption DEF OrgIds
  <2>2. PICK s \in sessions :
          t = IF s.link = f.link /\ s.nth = f.nth THEN [s EXCEPT !.org = orgs'] ELSE s
    BY <1>2 DEF OrgFounded
  <2>3. CASE s.link = f.link /\ s.nth = f.nth
    <3>1. t = [s EXCEPT !.org = orgs + 1]
      BY <2>1, <2>2, <2>3
    <3>2. t \in Session /\ t.link = s.link /\ t.org = orgs + 1
      BY <1>0, <2>1, <3>1 DEF Session
    <3> QED
      BY <1>2, <2>3, <3>2
  <2> QED
    BY <2>2, <2>3
<1>3. ASSUME NEW r \in sessions, NEW o \in OrgIds, SwitchOrg(r, o)
      PROVE  t \in sessions \/
             \E s \in sessions : t \in Session /\ t.link = s.link /\ t.org \in OrgsOf(Email(s))
  <2>1. t \in sessions \/ t = [r EXCEPT !.org = o]
    BY <1>3 DEF SwitchOrg
  <2>2. o \in 0..MaxOrgs
    BY SignInAssumption DEF OrgIds
  <2>3. CASE t = [r EXCEPT !.org = o]
    <3>1. t \in Session /\ t.link = r.link /\ t.org = o
      BY <1>0, <2>2, <2>3 DEF Session
    <3> QED
      BY <1>3, <3>1 DEF SwitchOrg
  <2> QED
    BY <2>1, <2>3
<1>4. ASSUME NEW r \in sessions, LogOut(r) PROVE t \in sessions
  BY <1>4 DEF LogOut
<1>5. CASE sessions' = sessions
  BY <1>5
<1>6. \/ sessions' = sessions
      \/ \E h \in Handlers : SignUserIn(h) \/ OrgFounded(h)
      \/ \E r \in sessions : LogOut(r) \/ \E o \in OrgIds : SwitchOrg(r, o)
  BY DEF SignInNext, signInVars, AskForLink, OpenLink, FoundOrg, Invite, SendLink, RequestFails,
    InviteSent, HalfHourPasses
<1> QED
  BY <1>1, <1>2, <1>3, <1>4, <1>5, <1>6

\* A session acts for an org of its user's, founded or joined.
LEMMA BelongStep ==
  ASSUME SignInType, RequestsAreSound, SessionsBelong, [SignInNext]_signInVars
  PROVE  SessionsBelong' /\ sessions' \subseteq Session /\
         \A t \in sessions' : t.link \in DOMAIN links
<1> SUFFICES ASSUME NEW t \in sessions'
             PROVE  /\ t \in Session /\ t.link \in DOMAIN links /\ links[t.link].email \in users'
                    /\ t.org # 0 =>
                         t.org \in OrgIds /\ members'[<<t.org, links[t.link].email>>] # "none"
  BY LinksGrow DEF SessionsBelong, Email, OrgsOf
<1>0. /\ \A s \in sessions : s \in Session /\ s.link \in DOMAIN links /\ s.org \in 0..MaxOrgs
      /\ \A l \in DOMAIN links : links[l].email \in Emails
  BY LinkTable DEF SignInType, RequestsAreSound, LinkRow, Session
<1>1. ASSUME t \in sessions
      PROVE  /\ t \in Session /\ t.link \in DOMAIN links /\ links[t.link].email \in users'
             /\ t.org # 0 =>
                  t.org \in OrgIds /\ members'[<<t.org, links[t.link].email>>] # "none"
  <2>1. /\ links[t.link].email \in users
        /\ t.org = 0 \/ (t.org \in OrgIds /\ members[<<t.org, links[t.link].email>>] # "none")
    BY <1>1 DEF SessionsBelong, Email, OrgsOf
  <2> QED
    BY <1>0, <1>1, <2>1, MembersStay
<1>2. ASSUME NEW h \in Handlers, SignUserIn(h), t.link = serving[h].link,
             t \in [link : {serving[h].link}, nth : Nat, org : 0..MaxOrgs],
             t.org = 0 \/ members'[<<t.org, links[serving[h].link].email>>] # "none"
      PROVE  /\ t \in Session /\ t.link \in DOMAIN links /\ links[t.link].email \in users'
             /\ t.org # 0 =>
                  t.org \in OrgIds /\ members'[<<t.org, links[t.link].email>>] # "none"
  <2>1. serving[h].link \in DOMAIN links
    BY <1>2, LinkMarked
  <2>2. serving[h].link \in Nat \ {0}
    BY <2>1, LinkTable
  <2>3. t \in Session /\ t.org \in 0..MaxOrgs
    BY <1>2, <2>2 DEF Session
  <2>4. links[serving[h].link].email \in users'
    BY <1>2 DEF SignUserIn
  <2> QED
    <3>1. t.org = 0 \/ t.org \in OrgIds
      BY <2>3, SignInAssumption DEF OrgIds
    <3> QED
      BY <1>2, <2>1, <2>3, <2>4, <3>1
<1>3. ASSUME NEW s \in sessions, t \in Session, t.link = s.link, t.org \in OrgsOf(Email(s))
      PROVE  /\ t.link \in DOMAIN links /\ links[t.link].email \in users'
             /\ t.org \in OrgIds /\ members'[<<t.org, links[t.link].email>>] # "none"
  BY <1>0, <1>3, MembersStay DEF SessionsBelong, Email, OrgsOf
<1>4. ASSUME NEW s \in sessions, t \in Session, t.link = s.link,
             NEW h \in Handlers, OrgFounded(h), t.org = orgs + 1, s.link = serving[h].session.link
      PROVE  /\ t.link \in DOMAIN links /\ links[t.link].email \in users'
             /\ t.org \in OrgIds /\ members'[<<t.org, links[t.link].email>>] # "none"
  <2>1. links[t.link].email \in users' /\ t.link \in DOMAIN links
    BY <1>0, <1>4, MembersStay DEF SessionsBelong, Email
  <2>2. Email(serving[h].session) = links[t.link].email
    BY <1>4 DEF Email
  <2>3. members'[<<t.org, links[t.link].email>>] = "owner" /\ t.org \in OrgIds
    BY <1>4, <2>2, Founding DEF SignInType
  <2>4. members'[<<t.org, links[t.link].email>>] # "none"
    BY <2>3
  <2> QED
    BY <2>1, <2>3, <2>4, Zenon
<1> QED
  BY <1>1, <1>2, <1>3, <1>4, SessionSteps

\* A request that is taken up is a question, a link, a session or an invite there is.
LEMMA RequestSteps ==
  ASSUME SignInType, RequestsAreSound, [SignInNext]_signInVars, NEW h \in Handlers
  PROVE  \/ serving'[h] \in {serving[h], Free}
         \/ serving'[h] \in Asks /\ serving'[h].seen < LinksPerHour
         \/ serving'[h] \in Verifies /\ serving'[h].link \in DOMAIN links /\ ~ serving'[h].seen
         \/ serving'[h] \in Founds /\ serving'[h].session \in sessions
         \/ serving'[h] \in Invites
<1> DEFINE New == \/ serving'[h] \in {serving[h], Free}
                  \/ serving'[h] \in Asks /\ serving'[h].seen < LinksPerHour
                  \/ /\ serving'[h] \in Verifies
                     /\ serving'[h].link \in DOMAIN links /\ ~ serving'[h].seen
                  \/ serving'[h] \in Founds /\ serving'[h].session \in sessions
                  \/ serving'[h] \in Invites
<1>0. /\ \A g \in Handlers : \A request : Takes(g, request) =>
             serving'[h] = IF g = h THEN request ELSE serving[h]
      /\ \A g \in Handlers : \A does : Serves(g, does) => serving'[h] \in {serving[h], Free}
  BY DEF SignInType, Takes, Serves
<1>1. ASSUME NEW g \in Handlers, NEW e \in Emails, AskForLink(g, e) PROVE New
  <2> DEFINE ask == [does |-> "ask", email |-> e, seen |-> Recent(e)]
  <2>1. Takes(g, ask) /\ Recent(e) < LinksPerHour
    BY <1>1 DEF AskForLink
  <2>2. {l \in DOMAIN links : links[l].email = e /\ links[l].age < 2} \subseteq 1..Len(links)
    BY LinkTable
  <2>3. IsFiniteSet(1..Len(links))
    BY LinkTable, FS_Interval
  <2>4. Recent(e) \in Nat
    BY <2>2, <2>3, FS_Subset, FS_CardinalityType DEF Recent
  <2>5. ask \in Asks /\ ask.seen = Recent(e)
    BY <2>4 DEF Asks
  <2> HIDE DEF ask
  <2> QED
    BY <1>0, <2>1, <2>5
<1>2. ASSUME NEW g \in Handlers, NEW l \in DOMAIN links, OpenLink(g, l) PROVE New
  <2> DEFINE verify == [does |-> "verify", link |-> l, seen |-> links[l].spent]
  <2>1. Takes(g, verify) /\ ~ links[l].spent
    BY <1>2 DEF OpenLink
  <2>2. l \in Nat \ {0} /\ links[l].spent \in BOOLEAN
    BY LinkTable DEF LinkRow
  <2>3. verify \in Verifies /\ verify.link = l /\ verify.seen = links[l].spent
    BY <2>2 DEF Verifies
  <2> HIDE DEF verify
  <2> QED
    BY <1>0, <2>1, <2>3
<1>3. ASSUME NEW g \in Handlers, NEW s \in sessions, FoundOrg(g, s) PROVE New
  <2> DEFINE found == [does |-> "found", session |-> s]
  <2>1. Takes(g, found)
    BY <1>3 DEF FoundOrg
  <2>2. found \in Founds /\ found.session = s
    BY DEF Founds, SignInType
  <2> HIDE DEF found
  <2> QED
    BY <1>0, <2>1, <2>2
<1>4. ASSUME NEW g \in Handlers, NEW s \in sessions, NEW e \in Emails, NEW role \in RolesSent,
             Invite(g, s, e, role)
      PROVE  New
  <2> DEFINE invite == [does |-> "invite", for |-> <<s.org, e>>, role |-> role,
                        seen |-> invites[<<s.org, e>>]]
  <2>1. Takes(g, invite) /\ s.org # 0
    BY <1>4 DEF Invite
  <2>2. s.org \in OrgIds
    BY <2>1, SignInAssumption DEF SignInType, Session, OrgIds
  <2>3. <<s.org, e>> \in Places
    BY <2>2 DEF Places
  <2>4. invites[<<s.org, e>>] \in InviteRow
    BY <2>3 DEF SignInType
  <2>5. invite \in Invites
    BY <2>3, <2>4 DEF Invites
  <2> HIDE DEF invite
  <2> QED
    BY <1>0, <2>1, <2>5
<1>5. ASSUME NEW g \in Handlers, SendLink(g) \/ SignUserIn(g) \/ OrgFounded(g) \/ InviteSent(g)
      PROVE  serving'[h] \in {serving[h], Free}
  BY <1>0, <1>5 DEF SendLink, SignUserIn, OrgFounded, InviteSent
<1>6. ASSUME NEW g \in Handlers, RequestFails(g) PROVE serving'[h] \in {serving[h], Free}
  BY <1>6 DEF RequestFails, SignInType
<1>7. \/ serving' = serving
      \/ \E g \in Handlers :
           \/ \E e \in Emails : AskForLink(g, e)
           \/ \E l \in DOMAIN links : OpenLink(g, l)
           \/ \E s \in sessions :
                FoundOrg(g, s) \/ \E e \in Emails, r \in RolesSent : Invite(g, s, e, r)
           \/ SendLink(g) \/ SignUserIn(g) \/ OrgFounded(g) \/ InviteSent(g) \/ RequestFails(g)
  BY DEF SignInNext, signInVars, LogOut, SwitchOrg, AtOnce, HalfHourPasses
<1> QED
  BY <1>1, <1>2, <1>3, <1>4, <1>5, <1>6, <1>7

\* Accounts, links and requests keep their types.
LEMMA SignInTypeStep ==
  ASSUME SignInType, RequestsAreSound, SessionsBelong, [SignInNext]_signInVars
  PROVE  SignInType'
<1>1. serving' \in [Handlers -> {Free} \cup Asks \cup Verifies \cup Founds \cup Invites]
  <2>1. \A h \in Handlers :
          serving'[h] \in {Free} \cup Asks \cup Verifies \cup Founds \cup Invites
    BY RequestSteps DEF SignInType
  <2>2. serving' \in [Handlers -> {serving'[h] : h \in Handlers}]
    <3>1. serving' = serving \/ \E h \in Handlers : \E row : serving' = [serving EXCEPT ![h] = row]
      <4>1. ASSUME NEW h \in Handlers,
                   \/ \E e \in Emails : AskForLink(h, e)
                   \/ \E l \in DOMAIN links : OpenLink(h, l)
                   \/ \E s \in sessions :
                        FoundOrg(h, s) \/ \E e \in Emails, r \in RolesSent : Invite(h, s, e, r)
            PROVE  \E row : serving' = [serving EXCEPT ![h] = row]
        BY <4>1, Zenon DEF AskForLink, OpenLink, FoundOrg, Invite, Takes
      <4>2. ASSUME NEW h \in Handlers,
                   \/ SendLink(h) \/ SignUserIn(h) \/ OrgFounded(h)
                   \/ InviteSent(h) \/ RequestFails(h)
            PROVE  \E row : serving' = [serving EXCEPT ![h] = row]
        BY <4>2, Zenon DEF SendLink, SignUserIn, OrgFounded, InviteSent, RequestFails, Serves
      <4>3. \/ serving' = serving
            \/ \E h \in Handlers :
                 \/ \E e \in Emails : AskForLink(h, e)
                 \/ \E l \in DOMAIN links : OpenLink(h, l)
                 \/ \E s \in sessions :
                      FoundOrg(h, s) \/ \E e \in Emails, r \in RolesSent : Invite(h, s, e, r)
                 \/ SendLink(h) \/ SignUserIn(h) \/ OrgFounded(h)
                 \/ InviteSent(h) \/ RequestFails(h)
        BY DEF SignInNext, signInVars, LogOut, SwitchOrg, AtOnce, HalfHourPasses
      <4> QED
        BY <4>1, <4>2, <4>3, Zenon
    <3>2. DOMAIN serving = Handlers /\ serving = [h \in Handlers |-> serving[h]]
      BY DEF SignInType
    <3>3. serving' = [h \in Handlers |-> serving'[h]]
      BY <3>1, <3>2
    <3> QED
      BY <3>3
  <2> QED
    BY <2>1, <2>2
<1> QED
  BY <1>1, LinksGrow, MemberTypes, BelongStep DEF SignInType

\* Requests and sessions go by links that were sent.
LEMMA RequestsStep ==
  ASSUME SignInType, RequestsAreSound, SessionsBelong, [SignInNext]_signInVars
  PROVE  RequestsAreSound'
<1>1. DOMAIN links \subseteq DOMAIN links' /\ \A t \in sessions' : t.link \in DOMAIN links
  BY LinksGrow, BelongStep
<1> SUFFICES ASSUME NEW h \in Handlers
             PROVE  /\ serving'[h].does = "ask" => serving'[h].seen < LinksPerHour
                    /\ serving'[h].does = "verify" =>
                         serving'[h].link \in DOMAIN links /\ ~ serving'[h].seen
                    /\ serving'[h].does = "found" => serving'[h].session.link \in DOMAIN links
  BY <1>1 DEF RequestsAreSound
<1>2. CASE serving'[h] = serving[h]
  BY <1>2 DEF RequestsAreSound
<1>3. CASE serving'[h] = Free
  BY <1>3 DEF Free
<1>4. CASE serving'[h] \in Asks /\ serving'[h].seen < LinksPerHour
  BY <1>4 DEF Asks
<1>5. CASE serving'[h] \in Verifies /\ serving'[h].link \in DOMAIN links /\ ~ serving'[h].seen
  BY <1>5 DEF Verifies
<1>6. CASE serving'[h] \in Founds /\ serving'[h].session \in sessions
  BY <1>6 DEF Founds, RequestsAreSound
<1>7. CASE serving'[h] \in Invites
  BY <1>7 DEF Invites
<1> QED
  BY <1>2, <1>3, <1>4, <1>5, <1>6, <1>7, RequestSteps
-------------------------------------------------------------------------------
\* The founder's account is as sound as any.
LEMMA SignInStarts == SignInInit => SignInInv
<1> SUFFICES ASSUME SignInInit PROVE SignInInv
  OBVIOUS
<1> DEFINE first == [email |-> Founder, age |-> 2, spent |-> TRUE, issued |-> 1]
           session == [link |-> 1, nth |-> 1, org |-> 1]
<1>1. links = <<first>> /\ DOMAIN links = {1} /\ links[1] = first /\ sessions = {session}
  BY DEF SignInInit
<1>2. /\ first \in LinkRow /\ first.email = Founder /\ first.age = 2 /\ first.spent = TRUE
      /\ first.issued = 1
  BY SignInAssumption DEF LinkRow
<1>3. session \in Session /\ session.link = 1 /\ session.org = 1 /\ 1 \in OrgIds
  BY SignInAssumption DEF Session, OrgIds
<1> HIDE DEF first, session
<1>4. links \in Seq(LinkRow)
  BY <1>1, <1>2
<1>5. /\ members = [p \in Places |-> IF p = <<1, Founder>> THEN "owner" ELSE "none"]
      /\ invites = [p \in Places |-> [role |-> "none", state |-> "none"]]
      /\ users = {Founder} /\ orgs = 1 /\ founders = {<<1, Founder>>} /\ serving = [h \in Handlers |-> Free]
  BY DEF SignInInit, Places
<1>6. [role |-> "none", state |-> "none"] \in InviteRow
  BY DEF InviteRow
<1>7. SignInType
  <2>1. <<1, Founder>> \in Places
    BY <1>3, SignInAssumption DEF Places
  <2> QED
    BY <1>1, <1>3, <1>4, <1>5, <1>6, <2>1, SignInAssumption DEF SignInType, Roles
<1>8. RequestsAreSound
  BY <1>1, <1>3, <1>5 DEF RequestsAreSound, Free
<1>9. UnspentOpensNothing /\ LinksWorkOnce
  BY <1>1, <1>2 DEF UnspentOpensNothing, LinksWorkOnce
<1>10. LinksAreFew
  <2> SUFFICES ASSUME NEW e \in Emails
               PROVE ~ (Cardinality({l \in DOMAIN links : links[l].email = e /\ links[l].age < 2})
                          > LinksPerHour)
    BY DEF LinksAreFew
  <2>1. {l \in DOMAIN links : links[l].email = e /\ links[l].age < 2} = {}
    BY <1>1, <1>2
  <2> QED
    BY <2>1, FS_EmptySet, SignInAssumption
<1>11. InviteesAreMembers
  BY <1>5 DEF InviteesAreMembers
<1>12. SessionsBelong
  <2>1. <<1, Founder>> \in Places
    BY <1>3, SignInAssumption DEF Places
  <2> QED
    BY <1>1, <1>2, <1>3, <1>5, <2>1 DEF SessionsBelong, Email, OrgsOf
<1> QED
  BY <1>7, <1>8, <1>9, <1>10, <1>11, <1>12 DEF SignInInv

\* A step of the services is one of signing in, or leaves accounts as they are.
LEMMA SignInRuns ==
  [ServicesNext]_allVars => [SignInNext]_signInVars
BY DEF ServicesNext, RunBoot, RunSignIn, RunTenancy, RunSnapshots, allVars, signInVars

\* The invariant of SignIn holds whatever the other services do.
LEMMA SignInInvariant == ServicesSpec => []SignInInv
<1>1. ServicesInit => SignInInv
  BY SignInStarts DEF ServicesInit
<1>2. SignInInv /\ [ServicesNext]_allVars => SignInInv'
  BY SignInRuns, SignInTypeStep, RequestsStep, OnceStep, FewStep, InviteeStep, BelongStep
    DEF SignInInv
<1> QED
  BY <1>1, <1>2, PTL DEF ServicesSpec

\* A link opens one session, unless two requests have it open at the same time: verify
\* looks at the token before it marks it.
THEOREM LinkWorksOnce == ServicesSpec => []LinksWorkOnce
BY SignInInvariant, PTL DEF SignInInv

\* No address is sent more links in an hour than the limit, used, expired or not, unless
\* two requests for it overlap.
THEOREM LimitOnLinks == ServicesSpec => []LinksAreFew
BY SignInInvariant, PTL DEF SignInInv

\* Who accepted an invite is a member in its role, and who is a member accepted one or
\* founded the org, whatever changes the invite meanwhile.
THEOREM InvitesMakeMembers == ServicesSpec => []InviteesAreMembers
BY SignInInvariant, PTL DEF SignInInv

\* A session never acts for an org its user does not belong to.
THEOREM SessionsKeepTheirOrg == ServicesSpec => []SessionsBelong
BY SignInInvariant, PTL DEF SignInInv
===============================================================================
