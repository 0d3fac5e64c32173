------------------------------- MODULE Config -------------------------------
(***************************************************************************)
(* The configuration: rows of common_code, the cache of config/loader.ts,  *)
(* and PUT /common-code (api/routes/config.ts): updateConfig, then         *)
(* refreshConfig, which clears the cache, queries, and swaps.  Requests    *)
(* interleave at every await; readers are the processes of other modules.  *)
(***************************************************************************)
EXTENDS Integers, FiniteSets

CONSTANTS
  Requests,      \* PUT requests that may be in flight
  MaxPuts,       \* bound: PUTs in one behaviour
  Values,        \* what the group's rows can hold, all valid
  None           \* no cache

ASSUME ConfigAssumption == MaxPuts \in Nat /\ None \notin Values

VARIABLES
  db,            \* the active rows
  cache,         \* what getConfig reads, None after clearCache
  put,           \* where each request is, with the rows its query has read
  puts,          \* how many have begun
  mixed          \* two requests have met and none has been served alone since

configVars == <<db, cache, put, puts, mixed>>

Resting == [at |-> "rest"]
Alone(q) == \A o \in Requests \ {q} : put[o] = Resting
Puts(q, to) == put' = [put EXCEPT ![q] = to]

ConfigInit ==
  /\ db \in Values /\ cache = db
  /\ put = [q \in Requests |-> Resting] /\ puts = 0 /\ mixed = FALSE

\* updateConfig: ANCHOR_GROUPS and invalid values are refused before this, the UPDATE follows.
PutConfig(q) ==
  /\ put[q] = Resting /\ puts < MaxPuts /\ puts' = puts + 1
  /\ db' \in Values \ {db} /\ Puts(q, [at |-> "stored"])
  /\ mixed' = (mixed \/ ~Alone(q))
  /\ UNCHANGED cache

\* Back from the UPDATE: refreshConfig clears the cache before its query is awaited.
\* updateConfig has set the cached entry just before; that state, which lasts until the
\* caller's await resumes, is left out: no other request can act in it.
ClearForgotten(q) ==                         \* variant: loadConfig, which finds the cache loaded
  /\ put[q].at = "stored" /\ Puts(q, Resting)
  /\ UNCHANGED <<db, cache, puts, mixed>>

ClearCache(q) ==
  /\ put[q].at = "stored" /\ Puts(q, [at |-> "query"])
  /\ cache' = None /\ mixed' = (mixed /\ ~Alone(q))
  /\ UNCHANGED <<db, puts>>

QueryConfig(q) ==
  /\ put[q].at = "query" /\ Puts(q, [at |-> "swap", rows |-> db])
  /\ UNCHANGED <<db, cache, puts, mixed>>

SwapCache(q) ==
  /\ put[q].at = "swap" /\ cache' = put[q].rows /\ Puts(q, Resting)
  /\ UNCHANGED <<db, puts, mixed>>

\* The UPDATE or the query fails, or a row does not validate: no cache, if it was cleared.
PutFails(q) ==
  /\ put[q] # Resting /\ Puts(q, Resting)
  /\ mixed' = (mixed \/ put[q].at = "stored")
  /\ UNCHANGED <<db, cache, puts>>

ConfigNext ==
  \E q \in Requests :
    PutConfig(q) \/ ClearCache(q) \/ QueryConfig(q) \/ SwapCache(q) \/ PutFails(q)

\* Once requests have been served one at a time, what readers see is what is stored,
\* or nothing: a refresh that fails leaves no cache, but never an older one.
CacheAgrees ==
  (\A q \in Requests : put[q] = Resting) /\ ~mixed => cache \in {db, None}
=============================================================================
