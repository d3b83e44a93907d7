-------------------------------- MODULE Tenancy --------------------------------
(***************************************************************************)
(* What an organization has and may have: API keys with their rate limit   *)
(* (auth.py, web/deps.py), watchlists (web/watchlists.py), and the quotas  *)
(* of both. A request is one transaction; what it read when it started may *)
(* be out of date when it commits, and then it overwrites the columns it   *)
(* has changed and no others.                                              *)
(***************************************************************************)
EXTENDS Naturals, FiniteSets

CONSTANTS
  ApiKeys, Watchlists,  \* rows that may come to be
  Quota,           \* kind -> how many of it an org may have, 0 for any number
  Limit,           \* api_rate_limit_per_min
  Workers,          \* threads and processes that serve requests
  MaxMinutes, MaxCalls  \* bounds: minutes, and requests

Kinds == {"keys", "watchlists"}

ASSUME TenancyAssumption ==
  /\ IsFiniteSet(ApiKeys) /\ IsFiniteSet(Watchlists) /\ ApiKeys \cap Watchlists = {}
  /\ Quota \in [Kinds -> Nat] /\ {Limit, MaxMinutes, MaxCalls} \subseteq Nat

VARIABLES
  status,   \* row -> "absent"; a key is then "active" or "revoked", a watchlist "active",
            \* "paused" or "deleted"
  window,   \* key -> [start, count], rl_window_start and rl_count; start 0 for none
  minute,   \* the time
  work,     \* worker -> the request it serves
  served,   \* <<key, minute>> -> calls answered that were counted in that minute
  stale,    \* keys and kinds of rows whose request wrote what others had changed meanwhile
  calls     \* number of requests so far

tenancyVars == <<status, window, minute, work, served, stale, calls>>

Row == ApiKeys \cup Watchlists
Changes == {"active", "paused", "deleted", "revoked"}
RowsOf(kind) == IF kind = "keys" THEN ApiKeys ELSE Watchlists
Unoccupied(w) == work[w].does = "nothing"
Idle == [does |-> "nothing"]

\* Mutant of Counted: pausing a watchlist makes room for another.
CountedActive(kind) == Cardinality({row \in RowsOf(kind) : status[row] = "active"})

\* enforce_quota: what an org has. Pausing is not a way to dodge the quota; deleting is.
Counted(kind) == Cardinality({row \in RowsOf(kind) : status[row] \in {"active", "paused"}})

\* within_rate_limit: the window of a call that finds the window `was`, and whether the
\* call is admitted. The first call of a minute is, whatever the limit.
NextWindow(was) ==
  IF was.start # minute THEN [start |-> minute, count |-> 1]
  ELSE [was EXCEPT !.count = @ + 1]

WithinLimit(was) == was.start # minute \/ was.count + 1 <= Limit

Receives(w, request) ==
  /\ Unoccupied(w) /\ calls < MaxCalls
  /\ work' = [work EXCEPT ![w] = request]
  /\ calls' = calls + 1

Answers(w, does) ==
  /\ work[w].does = does
  /\ work' = [work EXCEPT ![w] = Idle]
  /\ UNCHANGED calls
-------------------------------------------------------------------------------
TenancyInit ==
  /\ status = [row \in Row |-> "absent"]
  /\ window = [k \in ApiKeys |-> [start |-> 0, count |-> 0]]
  /\ minute = 1
  /\ work = [w \in Workers |-> Idle]
  /\ served = [p \in ApiKeys \X (1..MaxMinutes) |-> 0]
  /\ stale = {} /\ calls = 0

\* get_context of a call with an API key. A call over the limit is refused and leaves
\* nothing behind: its count is rolled back with it, as is that of any call that ends in an
\* error.
CallApi(w, k) ==
  /\ status[k] = "active" /\ WithinLimit(window[k])
  /\ Receives(w, [does |-> "call", key |-> k, was |-> window[k], now |-> NextWindow(window[k])])
  /\ UNCHANGED <<status, window, minute, served, stale>>

\* Mutant of AnswerCall: only a new window is written.
AnswerUncounted(w) ==
  LET call == work[w]
  IN  /\ Answers(w, "call")
      /\ window' = IF call.was.start = call.now.start THEN window
                   ELSE [window EXCEPT ![call.key] = call.now]
      /\ served' = [served EXCEPT ![<<call.key, call.now.start>>] = @ + 1]
      /\ stale' = IF window[call.key] # call.was THEN stale \cup {call.key} ELSE stale
      /\ UNCHANGED <<status, minute>>

AnswerCall(w) ==
  LET call == work[w]
      written(column) == IF call.now[column] = call.was[column] THEN window[call.key][column]
                         ELSE call.now[column]
  IN  /\ Answers(w, "call")
      /\ window' = [window EXCEPT ![call.key] =
                      [start |-> written("start"), count |-> written("count")]]
      /\ served' = [served EXCEPT ![<<call.key, call.now.start>>] = @ + 1]
      /\ stale' = IF window[call.key] # call.was THEN stale \cup {call.key} ELSE stale
      /\ UNCHANGED <<status, minute>>

\* create_api_key and create_watchlist: the quota is looked at first.
AskForRow(w, kind) ==
  /\ Quota[kind] = 0 \/ Counted(kind) < Quota[kind]
  /\ Receives(w, [does |-> "create", kind |-> kind, had |-> Counted(kind)])
  /\ UNCHANGED <<status, window, minute, served, stale>>

CreateRow(w) ==
  LET request == work[w]
  IN  /\ Answers(w, "create")
      /\ \E row \in RowsOf(request.kind) :
           /\ status[row] = "absent"
           /\ status' = [status EXCEPT ![row] = "active"]
      /\ stale' = IF Counted(request.kind) > request.had THEN stale \cup {request.kind} ELSE stale
      /\ UNCHANGED <<window, minute, served>>

\* revoke_api_key, and the routes of a watchlist: it is found, and its column written when
\* it has changed. A deleted one is not found.
AskToChange(w, row, to) ==
  /\ \/ row \in ApiKeys /\ status[row] = "active" /\ to = "revoked"
     \/ row \in Watchlists /\ status[row] \in {"active", "paused"}
        /\ to \in {"active", "paused", "deleted"}
  /\ Receives(w, [does |-> "change", row |-> row, was |-> status[row], to |-> to])
  /\ UNCHANGED <<status, window, minute, served, stale>>

\* Mutant of ChangeRow: deleting is a state like the others, that a resume ends.
ChangeRowBack(w) ==
  LET request == work[w]
  IN  /\ Answers(w, "change")
      /\ status' = [status EXCEPT ![request.row] = request.to]
      /\ UNCHANGED <<window, minute, served, stale>>

\* deleted_at is a column of its own, which pause and resume do not write.
ChangeRow(w) ==
  LET request == work[w]
  IN  /\ Answers(w, "change")
      /\ status' = [status EXCEPT ![request.row] =
           IF @ \in {"deleted", "revoked"} \/ request.to = request.was THEN @ ELSE request.to]
      /\ UNCHANGED <<window, minute, served, stale>>

\* A request that fails leaves nothing behind, and is not counted.
WorkFails(w) ==
  /\ ~ Unoccupied(w)
  /\ work' = [work EXCEPT ![w] = Idle]
  /\ UNCHANGED <<status, window, minute, served, stale, calls>>

MinutePasses ==
  /\ minute < MaxMinutes
  /\ minute' = minute + 1
  /\ UNCHANGED <<status, window, work, served, stale, calls>>

TenancyNext ==
  \/ \E w \in Workers :
       \/ \E k \in ApiKeys : CallApi(w, k)
       \/ \E kind \in Kinds : AskForRow(w, kind)
       \/ \E row \in Row, to \in Changes : AskToChange(w, row, to)
       \/ AnswerCall(w) \/ CreateRow(w) \/ ChangeRow(w) \/ WorkFails(w)
  \/ MinutePasses
-------------------------------------------------------------------------------
\* What a key may do in a minute: a limit of 0 lets the first call pass.
PerMinute == IF Limit = 0 THEN 1 ELSE Limit

\* No key is answered more often in a minute than the limit, unless calls with it overlap
\* and one overwrites the other's count. (Calls that end in an error are not counted.)
LimitHolds ==
  \A k \in ApiKeys, m \in 1..MaxMinutes : served[<<k, m>>] > PerMinute => k \in stale

\* An org never has more of a kind than its quota, if there is one, whatever it pauses,
\* resumes, revokes or deletes, unless two of the kind are created at once.
QuotaHolds ==
  \A kind \in Kinds :
    /\ Quota[kind] # 0
    /\ Cardinality({row \in RowsOf(kind) : status[row] \in {"active", "paused"}}) > Quota[kind]
    => kind \in stale

\* What is deleted or revoked stays so, also when a request that found it before commits
\* after.
GoneForGood ==
  [][\A row \in Row :
       status[row] \in {"deleted", "revoked"} => status'[row] = status[row]]_tenancyVars
===============================================================================
