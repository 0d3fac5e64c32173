--------------------------- MODULE TransferProofs ---------------------------
(***************************************************************************)
(* Proofs about the transfer scheduler and the configuration cache, for    *)
(* any number of runs, requests, restarts and configurations.              *)
(*                                                                         *)
(* The scheduler lives because a run in the chain keeps the configuration  *)
(* it has read: it can name the next instant whatever has become of the    *)
(* cache meanwhile (RunOK).  The buffer is kept because a run that is      *)
(* still calm knows the account as it is, and with it every other run that *)
(* is about to send (AccountKnown).                                        *)
(***************************************************************************)
EXTENDS Transfer, TLAPS

\* A run in the chain that is past ReadConfig holds the configuration it has read.
RunRecords ==
  [at : {"config", "params", "send", "after"}, chain : BOOLEAN, conf : Values \cup {None},
   try : Nat, amount : Nat, calm : BOOLEAN]

RunOK ==
  /\ run \in [Runs -> {NoRun} \cup RunRecords]
  /\ \A r \in Runs : Chained(r) /\ run[r].at # "config" => run[r].conf \in Values
  /\ \A r \in Runs : Active(r) /\ run[r].at = "config" => run[r].chain

AccountOK ==
  /\ now \in Nat /\ wallet \in Int /\ margin \in Int /\ profit \in Int
  /\ timer \in Nat \cup {None} /\ orphans \subseteq Nat

\* Requests: without mixing at most one is under way, and it has cleared the cache.
PutOK ==
  /\ db \in Values /\ cache \in Values \cup {None}
  /\ put \in [Requests -> {Resting, [at |-> "stored"], [at |-> "query"]}
                            \cup [at : {"swap"}, rows : Values]]
  /\ mixed \in BOOLEAN

Served ==
  ~mixed =>
    /\ \A q \in Requests : put[q] # Resting => Alone(q)
    /\ (\A q \in Requests : put[q] = Resting) => cache \in {db, None}
    /\ \A q \in Requests : put[q].at \in {"query", "swap"} => cache = None
    /\ \A q \in Requests : put[q].at = "swap" => put[q].rows = db

Alive == running => timer # None \/ orphans # {} \/ \E r \in Runs : Chained(r)

AccountKnown ==
  \A r, o \in Runs :
    /\ Active(r) /\ run[r].calm /\ run[r].at # "after"
    /\ Active(o) /\ run[o].at = "send"
    => Covers(wallet, margin, run[o].amount)

TransferInv == RunOK /\ AccountOK /\ PutOK

-----------------------------------------------------------------------------
\* The configuration.
LEMMA RestingKinds ==
  /\ Resting.at = "rest" /\ [at |-> "stored"].at = "stored" /\ [at |-> "query"].at = "query"
  /\ \A v : Resting # [at |-> "swap", rows |-> v]
  /\ Resting # [at |-> "stored"] /\ Resting # [at |-> "query"]
BY DEF Resting

LEMMA PutStep == PutOK /\ [ConfigNext]_configVars => PutOK'
<1> SUFFICES ASSUME PutOK, [ConfigNext]_configVars PROVE PutOK'
  OBVIOUS
<1> USE DEF PutOK
<1>1. ASSUME NEW q \in Requests, PutConfig(q) PROVE PutOK'
  BY <1>1 DEF PutConfig, Puts
<1>2. ASSUME NEW q \in Requests, ClearCache(q) PROVE PutOK'
  BY <1>2 DEF ClearCache, Puts
<1>3. ASSUME NEW q \in Requests, QueryConfig(q) PROVE PutOK'
  BY <1>3 DEF QueryConfig, Puts
<1>4. ASSUME NEW q \in Requests, SwapCache(q) PROVE PutOK'
  <2>1. put[q].rows \in Values
    BY <1>4, RestingKinds DEF SwapCache
  <2> QED BY <1>4, <2>1 DEF SwapCache, Puts
<1>5. ASSUME NEW q \in Requests, PutFails(q) PROVE PutOK'
  BY <1>5 DEF PutFails, Puts
<1>6. CASE UNCHANGED configVars
  BY <1>6 DEF configVars
<1> QED BY <1>1, <1>2, <1>3, <1>4, <1>5, <1>6 DEF ConfigNext

LEMMA ServedStep == PutOK /\ Served /\ [ConfigNext]_configVars => Served'
<1> SUFFICES ASSUME PutOK, Served, [ConfigNext]_configVars, ~mixed' PROVE Served'
  BY DEF Served
<1> USE RestingKinds DEF PutOK, Served, Alone
<1>1. ASSUME NEW q \in Requests, PutConfig(q) PROVE Served'
  BY <1>1 DEF PutConfig, Puts
<1>2. ASSUME NEW q \in Requests, ClearCache(q) PROVE Served'
  BY <1>2 DEF ClearCache, Puts
<1>3. ASSUME NEW q \in Requests, QueryConfig(q) PROVE Served'
  BY <1>3 DEF QueryConfig, Puts
<1>4. ASSUME NEW q \in Requests, SwapCache(q) PROVE Served'
  BY <1>4 DEF SwapCache, Puts
<1>5. ASSUME NEW q \in Requests, PutFails(q) PROVE Served'
  BY <1>5 DEF PutFails, Puts
<1>6. CASE UNCHANGED configVars
  BY <1>6 DEF configVars
<1> QED BY <1>1, <1>2, <1>3, <1>4, <1>5, <1>6 DEF ConfigNext

-----------------------------------------------------------------------------
\* The runs.
LEMMA NoRunKind == NoRun.at = "none" /\ NoRun \notin RunRecords
BY DEF NoRun, RunRecords

LEMMA ActiveRecord ==
  ASSUME RunOK, NEW r \in Runs, Active(r)
  PROVE  run[r] \in RunRecords
BY DEF RunOK, Active

LEMMA DisturbedRuns ==
  ASSUME RunOK, NEW S \in SUBSET Runs
  PROVE  /\ Disturbed(S) \in [Runs -> {NoRun} \cup RunRecords]
         /\ \A r \in Runs :
              IF Active(r)
              THEN /\ Disturbed(S)[r] \in RunRecords
                   /\ Disturbed(S)[r].at = run[r].at /\ Disturbed(S)[r].chain = run[r].chain
                   /\ Disturbed(S)[r].conf = run[r].conf /\ Disturbed(S)[r].try = run[r].try
                   /\ Disturbed(S)[r].amount = run[r].amount
                   /\ Disturbed(S)[r].calm = (run[r].calm /\ r \notin S)
              ELSE Disturbed(S)[r] = NoRun
<1> SUFFICES ASSUME NEW r \in Runs
             PROVE  /\ Disturbed(S)[r] \in {NoRun} \cup RunRecords
                    /\ IF Active(r)
                       THEN /\ Disturbed(S)[r] \in RunRecords
                            /\ Disturbed(S)[r].at = run[r].at /\ Disturbed(S)[r].chain = run[r].chain
                            /\ Disturbed(S)[r].conf = run[r].conf /\ Disturbed(S)[r].try = run[r].try
                            /\ Disturbed(S)[r].amount = run[r].amount
                            /\ Disturbed(S)[r].calm = (run[r].calm /\ r \notin S)
                       ELSE Disturbed(S)[r] = NoRun
  BY DEF Disturbed
<1>1. CASE ~Active(r)
  BY <1>1 DEF Disturbed, Active
<1>2. CASE Active(r) /\ r \notin S
  BY <1>2, ActiveRecord DEF Disturbed, RunRecords
<1>3. CASE Active(r) /\ r \in S
  <2>1. run[r] \in RunRecords /\ Disturbed(S)[r] = [run[r] EXCEPT !.calm = FALSE]
    BY <1>3, ActiveRecord DEF Disturbed
  <2> QED BY <1>3, <2>1 DEF RunRecords
<1> QED BY <1>1, <1>2, <1>3

\* What a step of run r leaves: r's own new record, the others as they were but
\* for their calm.
Others(r) ==
  \A o \in Runs \ {r} :
    IF Active(o)
    THEN /\ run'[o] \in RunRecords
         /\ run'[o].at = run[o].at /\ run'[o].chain = run[o].chain
         /\ run'[o].conf = run[o].conf /\ run'[o].amount = run[o].amount
         /\ run'[o].calm => run[o].calm
    ELSE run'[o] = NoRun

\* Where a run goes, as far as the scheduler is concerned.
Goes(r) ==
  /\ run' \in [Runs -> {NoRun} \cup RunRecords]
  /\ Others(r)
  /\ \/ run'[r] = NoRun
     \/ /\ run'[r] \in RunRecords
        /\ \/ ~Active(r) /\ run'[r].at \in {"config", "params"}
              /\ run'[r].chain = (run'[r].at = "config")
           \/ /\ Active(r) /\ run'[r].chain = run[r].chain /\ run'[r].at # "config"
              /\ run'[r].conf = run[r].conf \/ (run[r].at = "config" /\ run'[r].conf \in Values)
              /\ run[r].at = "config" => run'[r].conf \in Values

LEMMA StepGoes ==
  ASSUME TransferInv, NEW r \in Runs,
         \/ Fire(r) \/ TriggerTransfer(r) \/ ReadConfig(r) \/ GetTransferParams(r)
         \/ Transfer(r) \/ AnswerLost(r) \/ TransferRefused(r) \/ LogOutcome(r)
  PROVE  Goes(r)
<1>0. /\ run \in [Runs -> {NoRun} \cup RunRecords]
      /\ Active(r) => run[r] \in RunRecords
      /\ profit \in Int /\ cache \in Values \cup {None}
      /\ RunOK
  BY ActiveRecord DEF TransferInv, RunOK, AccountOK, PutOK
<1>1. ASSUME NEW to \in {NoRun} \cup RunRecords, run' = [run EXCEPT ![r] = to]
      PROVE  run' \in [Runs -> {NoRun} \cup RunRecords] /\ Others(r) /\ run'[r] = to
  BY <1>0, <1>1 DEF Others, Active
<1>2. ASSUME NEW at \in {"config", "params"}, NEW chain, chain = (at = "config"), Begins(r, at, chain)
      PROVE  Goes(r)
  <2> DEFINE new == [at |-> at, chain |-> chain, conf |-> None, try |-> 1, amount |-> 0,
                     calm |-> \A o \in Runs : ~Active(o)]
  <2>1. run' = [run EXCEPT ![r] = new] /\ ~Active(r)
    BY <1>2 DEF Begins
  <2>2. chain \in BOOLEAN
    BY <1>2
  <2>3. new \in RunRecords
    BY <2>2 DEF RunRecords
  <2>4. new.at = at /\ new.chain = chain
    OBVIOUS
  <2> HIDE DEF new
  <2> QED BY <1>1, <1>2, <2>1, <2>3, <2>4 DEF Goes
<1>3. ASSUME Step(r, NoRun) PROVE Goes(r)
  BY <1>1, <1>3 DEF Step, Goes
<1>4. CASE Fire(r) \/ TriggerTransfer(r)
  BY <1>2, <1>4 DEF Fire, TriggerTransfer
<1>5. CASE ReadConfig(r)
  <2>1. CASE Step(r, NoRun)
    BY <1>3, <2>1
  <2>2. CASE cache # None /\ Step(r, [run[r] EXCEPT !.at = "params", !.conf = cache])
    <3>1. run[r] \in RunRecords
      BY <1>0, <1>5, NoRunKind DEF ReadConfig, Active
    <3> DEFINE new == [run[r] EXCEPT !.at = "params", !.conf = cache]
    <3>2. /\ new \in RunRecords /\ new.at = "params" /\ new.conf = cache
          /\ new.chain = run[r].chain
      BY <1>0, <3>1 DEF RunRecords
    <3>3. Active(r) /\ cache \in Values
      BY <1>0, <2>2, <3>1, NoRunKind DEF Active
    <3> HIDE DEF new
    <3>4. run' = [run EXCEPT ![r] = new] /\ run[r].at = "config"
      BY <1>5, <2>2 DEF Step, new, ReadConfig
    <3> QED BY <1>1, <3>2, <3>3, <3>4 DEF Goes
  <2>3. Throws(r) => Step(r, NoRun)
    BY DEF Throws, Ends
  <2> QED BY <1>5, <2>1, <2>2, <2>3 DEF ReadConfig
<1>6. CASE GetTransferParams(r)
  <2>1. CASE Step(r, NoRun)
    BY <1>3, <2>1
  <2>2. CASE /\ Transferable(wallet, margin, profit)
             /\ Step(r, [run[r] EXCEPT !.at = "send", !.amount = TransferAmount(profit)])
    <3>0. TransferAmount(profit) \in Nat
      <4>1. TransferAmount(profit) \in Int /\ TransferAmount(profit) >= MinTransfer
        BY <1>0, <2>2, TransferAssumption DEF TransferAmount, Transferable
      <4> QED BY <4>1, TransferAssumption
    <3>1. run[r] \in RunRecords /\ run[r].at = "params"
      BY <1>0, <1>6, NoRunKind DEF GetTransferParams, Active
    <3> DEFINE new == [run[r] EXCEPT !.at = "send", !.amount = TransferAmount(profit)]
    <3>2. /\ new \in RunRecords /\ new.at = "send" /\ new.conf = run[r].conf
          /\ new.chain = run[r].chain
      BY <3>0, <3>1 DEF RunRecords
    <3>3. Active(r)
      BY <3>1, NoRunKind DEF Active
    <3> HIDE DEF new
    <3>4. run' = [run EXCEPT ![r] = new]
      BY <2>2 DEF Step, new
    <3> QED BY <1>1, <3>1, <3>2, <3>3, <3>4 DEF Goes
  <2>3. Throws(r) \/ Returns(r) => Step(r, NoRun)
    BY DEF Throws, Returns, Ends
  <2> QED BY <1>6, <2>1, <2>2, <2>3 DEF GetTransferParams
<1>7. CASE LogOutcome(r)
  <2>1. Step(r, NoRun)
    BY <1>7 DEF LogOutcome, Throws, Returns, Ends
  <2> QED BY <1>3, <2>1
<1>8. ASSUME NEW S \in SUBSET Runs, NEW w, w = Disturbed(S) \/ w = run, run[r].at = "send",
             run' = [w EXCEPT ![r].at = "after"] \/ run' = Retried(r, w)
      PROVE  Goes(r)
  <2>1. Active(r) /\ run[r] \in RunRecords
    BY <1>0, <1>8, NoRunKind DEF Active
  <2>2. /\ w \in [Runs -> {NoRun} \cup RunRecords]
        /\ \A o \in Runs :
             IF Active(o)
             THEN /\ w[o] \in RunRecords
                  /\ w[o].at = run[o].at /\ w[o].chain = run[o].chain
                  /\ w[o].conf = run[o].conf /\ w[o].amount = run[o].amount
                  /\ w[o].calm => run[o].calm
             ELSE w[o] = NoRun
    <3>1. CASE w = run
      BY <1>0, <3>1, ActiveRecord DEF Active
    <3>2. CASE w = Disturbed(S)
      BY <1>0, <3>2, DisturbedRuns
    <3> QED BY <1>8, <3>1, <3>2
  <2>3. \E to : /\ run' = [w EXCEPT ![r] = to] /\ to \in RunRecords
                /\ to.at \in {"send", "after"} /\ to.chain = run[r].chain /\ to.conf = run[r].conf
    <3>1. CASE run' = [w EXCEPT ![r].at = "after"]
      <4>1. run' = [w EXCEPT ![r] = [w[r] EXCEPT !.at = "after"]]
        BY <2>2, <3>1
      <4>2. /\ [w[r] EXCEPT !.at = "after"] \in RunRecords
            /\ [w[r] EXCEPT !.at = "after"].at = "after"
            /\ [w[r] EXCEPT !.at = "after"].chain = w[r].chain
            /\ [w[r] EXCEPT !.at = "after"].conf = w[r].conf
        BY <2>1, <2>2 DEF RunRecords
      <4> QED BY <2>1, <2>2, <4>1, <4>2
    <3>2. CASE run' = Retried(r, w)
      <4> DEFINE a == IF run[r].try = MaxRetries THEN "after" ELSE "send"
                 n == w[r].try + 1
                 new == [w[r] EXCEPT !.try = n, !.at = a]
      <4>1. run' = [w EXCEPT ![r] = new]
        BY <2>2, <3>2 DEF Retried
      <4>2. a \in {"send", "after"} /\ w[r] \in RunRecords
        BY <2>1, <2>2
      <4>4. n \in Nat
        BY <4>2 DEF RunRecords
      <4> HIDE DEF a, n
      <4>3. new \in RunRecords /\ new.at = a /\ new.chain = w[r].chain /\ new.conf = w[r].conf
        BY <4>2, <4>4 DEF RunRecords
      <4> HIDE DEF new
      <4> QED BY <2>1, <2>2, <4>1, <4>2, <4>3
    <3> QED BY <1>8, <3>1, <3>2
  <2>4. PICK to : /\ run' = [w EXCEPT ![r] = to] /\ to \in RunRecords
                  /\ to.at \in {"send", "after"} /\ to.chain = run[r].chain /\ to.conf = run[r].conf
    BY <2>3
  <2>5. run' \in [Runs -> {NoRun} \cup RunRecords] /\ Others(r) /\ run'[r] = to
    BY <2>2, <2>4 DEF Others
  <2> QED BY <1>8, <2>1, <2>4, <2>5 DEF Goes
<1>9. CASE Transfer(r) \/ AnswerLost(r) \/ TransferRefused(r)
  BY <1>8, <1>9 DEF Transfer, AnswerLost, TransferRefused
<1> QED BY <1>4, <1>5, <1>6, <1>7, <1>9

-----------------------------------------------------------------------------
\* getNextRunTime, for every instant: the first one after it that the schedule names.
LEMMA NextDaily ==
  ASSUME NEW t \in Nat, NEW time \in 0..1
  PROVE  LET next == GetNextRunTime("daily", time, t) IN
         /\ next \in Nat /\ next > t /\ Scheduled(next, "daily", time)
         /\ \A u \in (t + 1)..(next - 1) : ~Scheduled(u, "daily", time)
BY DEF GetNextRunTime, UntilDaily, Scheduled, Day

LEMMA NextWeekly ==
  ASSUME NEW t \in Nat, NEW time \in 0..1
  PROVE  LET next == GetNextRunTime("weekly", time, t) IN
         /\ next \in Nat /\ next > t /\ Scheduled(next, "weekly", time)
         /\ \A u \in (t + 1)..(next - 1) : ~Scheduled(u, "weekly", time)
BY DEF GetNextRunTime, UntilNextMonday, Scheduled, Day, Week

LEMMA NextRunNat ==
  ASSUME NEW t \in Nat, NEW conf \in Values
  PROVE  GetNextRunTime(conf.schedule, conf.time, t) \in Nat
<1>1. conf.schedule \in {"daily", "weekly"} /\ conf.time \in 0..1
  BY TransferAssumption
<1> QED BY <1>1, NextDaily, NextWeekly

\* A run that ends arms the timer if it is in the chain, and no other does.
LEMMA EndsArm ==
  ASSUME TransferInv, NEW r \in Runs, Active(r), Throws(r) \/ (run[r].at # "config" /\ Returns(r))
  PROVE  IF run[r].chain THEN \E at \in Nat : Armed(at) ELSE UNCHANGED <<timer, orphans>>
<1>1. now \in Nat /\ now + Day \in Nat
  BY DEF TransferInv, AccountOK, Day
<1>2. CASE Throws(r)
  BY <1>1, <1>2 DEF Throws, Ends
<1>3. CASE run[r].at # "config" /\ Returns(r) /\ run[r].chain
  <2>1. run[r].conf \in Values
    BY <1>3 DEF TransferInv, RunOK, Chained
  <2>2. GetNextRunTime(run[r].conf.schedule, run[r].conf.time, now) \in Nat
    BY <1>1, <2>1, NextRunNat
  <2> QED BY <1>3, <2>2 DEF Returns, Ends
<1>4. CASE Returns(r) /\ ~run[r].chain
  BY <1>4 DEF Returns, Ends
<1> QED BY <1>2, <1>3, <1>4

\* What a step does to the runs and the timers.
LEMMA StepTimers ==
  ASSUME TransferInv, NEW r \in Runs,
         \/ ReadConfig(r) \/ GetTransferParams(r) \/ Transfer(r) \/ AnswerLost(r)
         \/ TransferRefused(r) \/ LogOutcome(r)
  PROVE  \/ run[r].chain /\ Active(r) /\ \E at \in Nat : Armed(at)
         \/ UNCHANGED <<timer, orphans>> /\ (Chained(r) => run'[r] # NoRun)
<1>0. /\ run \in [Runs -> {NoRun} \cup RunRecords] /\ Active(r) /\ now \in Nat
      /\ run[r].at = "config" => run[r].chain
      /\ cache \in Values \cup {None}
  BY NoRunKind DEF TransferInv, RunOK, AccountOK, PutOK, Active, ReadConfig, GetTransferParams,
     Transfer, AnswerLost, TransferRefused, LogOutcome
<1>1. CASE ReadConfig(r)
  <2>1. CASE cache # None /\ cache.enabled /\ UNCHANGED <<timer, orphans>>
             /\ Step(r, [run[r] EXCEPT !.at = "params", !.conf = cache])
    <3>1. run[r] \in RunRecords
      BY <1>0 DEF Active
    <3>2. [run[r] EXCEPT !.at = "params", !.conf = cache].at = "params"
      BY <3>1 DEF RunRecords
    <3> QED BY <1>0, <2>1, <3>2, NoRunKind DEF Step
  <2>2. CASE cache # None /\ Armed(GetNextRunTime(cache.schedule, cache.time, now))
    BY <1>0, <1>1, <2>2, NextRunNat DEF ReadConfig
  <2>3. CASE Throws(r)
    BY <1>0, <1>1, <2>3, EndsArm DEF ReadConfig
  <2> QED BY <1>1, <2>1, <2>2, <2>3 DEF ReadConfig
<1>2. CASE GetTransferParams(r)
  <2>1. CASE UNCHANGED <<timer, orphans>> /\ Step(r, [run[r] EXCEPT !.at = "send", !.amount = TransferAmount(profit)])
    <3>1. run[r] \in RunRecords
      BY <1>0 DEF Active
    <3>2. [run[r] EXCEPT !.at = "send", !.amount = TransferAmount(profit)].at = "send"
      BY <3>1 DEF RunRecords
    <3> QED BY <1>0, <2>1, <3>2, NoRunKind DEF Step
  <2>2. CASE Returns(r) \/ Throws(r)
    BY <1>0, <1>2, <2>2, EndsArm DEF GetTransferParams, Chained
  <2> QED BY <1>2, <2>1, <2>2 DEF GetTransferParams
<1>3. CASE LogOutcome(r)
  BY <1>0, <1>3, EndsArm DEF LogOutcome, Chained
<1>4. CASE Transfer(r) \/ AnswerLost(r) \/ TransferRefused(r)
  <2>1. UNCHANGED <<timer, orphans>>
    BY <1>4 DEF Transfer, AnswerLost, TransferRefused
  <2>2. run[r] \in RunRecords /\ run[r].at = "send"
    BY <1>0, <1>4 DEF Active, Transfer, AnswerLost, TransferRefused
  <2>3. RunOK
    BY DEF TransferInv
  <2>4. ASSUME NEW S \in SUBSET Runs, NEW w, w = Disturbed(S) \/ w = run,
               run' = [w EXCEPT ![r].at = "after"] \/ run' = Retried(r, w)
        PROVE  run'[r] # NoRun
    <3>1. w[r] \in RunRecords /\ r \in DOMAIN w
      BY <1>0, <2>2, <2>3, <2>4, DisturbedRuns
    <3>2. CASE run' = [w EXCEPT ![r].at = "after"]
      <4>1. run'[r].at = "after"
        BY <3>1, <3>2 DEF RunRecords
      <4> QED BY <4>1, NoRunKind
    <3>3. CASE run' = Retried(r, w)
      <4> DEFINE a == IF run[r].try = MaxRetries THEN "after" ELSE "send"
                 n == w[r].try + 1
      <4>1. run'[r] = [w[r] EXCEPT !.try = n, !.at = a]
        BY <3>1, <3>3 DEF Retried
      <4>2. a # "none"
        OBVIOUS
      <4> HIDE DEF a, n
      <4>3. run'[r].at = a
        BY <3>1, <4>1 DEF RunRecords
      <4> QED BY <4>2, <4>3, NoRunKind
    <3> QED BY <2>4, <3>2, <3>3
  <2>5. run'[r] # NoRun
    BY <1>4, <2>4 DEF Transfer, AnswerLost, TransferRefused
  <2> QED BY <2>1, <2>5
<1> QED BY <1>1, <1>2, <1>3, <1>4

-----------------------------------------------------------------------------
\* The steps of a run, as one.
RunStep(r) ==
  \/ Fire(r) \/ TriggerTransfer(r) \/ ReadConfig(r) \/ GetTransferParams(r)
  \/ Transfer(r) \/ AnswerLost(r) \/ TransferRefused(r) \/ LogOutcome(r)

LEMMA ConfigAlone ==
  ASSUME [Next]_vars PROVE [ConfigNext]_configVars
BY DEF Next, Tick, Trade, Start, Stop, Fire, TriggerTransfer, ReadConfig, GetTransferParams, Transfer,
       AnswerLost, TransferRefused, LogOutcome, vars

LEMMA RunsMove ==
  ASSUME TransferInv, [Next]_vars
  PROVE  \/ \E r \in Runs : RunStep(r) /\ Goes(r)
         \/ run' = Disturbed(Runs) /\ Trade
         \/ UNCHANGED run /\ ~\E r \in Runs : RunStep(r)
         \/ UNCHANGED run /\ UNCHANGED vars
<1>1. ASSUME NEW r \in Runs, RunStep(r) PROVE Goes(r)
  BY <1>1, StepGoes DEF RunStep
<1>2. CASE \E r \in Runs : RunStep(r)
  BY <1>1, <1>2
<1>3. CASE ~\E r \in Runs : RunStep(r)
  BY <1>3 DEF Next, Tick, Trade, Start, Stop, RunStep, vars
<1> QED BY <1>2, <1>3

LEMMA RunOKStep == TransferInv /\ [Next]_vars => RunOK'
<1> SUFFICES ASSUME TransferInv, [Next]_vars PROVE RunOK'
  OBVIOUS
<1>0. RunOK
  BY DEF TransferInv
<1>1. ASSUME NEW r \in Runs, Goes(r) PROVE RunOK'
  <2>1. run' \in [Runs -> {NoRun} \cup RunRecords]
    BY <1>1 DEF Goes
  <2>2. ASSUME NEW o \in Runs, o # r, run'[o] # NoRun
        PROVE  /\ run'[o].chain /\ run'[o].at # "config" => run'[o].conf \in Values
               /\ run'[o].at = "config" => run'[o].chain
    BY <1>0, <1>1, <2>2 DEF Goes, Others, RunOK, Chained
  <2>3. ASSUME run'[r] # NoRun
        PROVE  /\ run'[r].chain /\ run'[r].at # "config" => run'[r].conf \in Values
               /\ run'[r].at = "config" => run'[r].chain
    BY <1>0, <1>1, <2>3 DEF Goes, RunOK, Chained
  <2> QED BY <2>1, <2>2, <2>3 DEF RunOK, Chained, Active
<1>2. CASE run' = Disturbed(Runs)
  <2>1. \A o \in Runs :
          IF Active(o)
          THEN run'[o].at = run[o].at /\ run'[o].chain = run[o].chain /\ run'[o].conf = run[o].conf
          ELSE run'[o] = NoRun
    BY <1>0, <1>2, DisturbedRuns
  <2>2. run' \in [Runs -> {NoRun} \cup RunRecords]
    BY <1>0, <1>2, DisturbedRuns
  <2> QED BY <1>0, <2>1, <2>2 DEF RunOK, Chained, Active
<1>3. CASE UNCHANGED run
  BY <1>0, <1>3 DEF RunOK, Chained, Active
<1> QED BY <1>1, <1>2, <1>3, RunsMove

LEMMA AccountStep == TransferInv /\ [Next]_vars => AccountOK'
<1> SUFFICES ASSUME TransferInv, [Next]_vars PROVE AccountOK'
  OBVIOUS
<1>0. RunOK /\ AccountOK
  BY DEF TransferInv
<1> USE DEF AccountOK
<1>1. ASSUME NEW at \in Nat, Armed(at) PROVE timer' \in Nat \cup {None} /\ orphans' \subseteq Nat
  BY <1>0, <1>1 DEF Armed
<1>2. CASE Tick \/ Trade \/ Start \/ Stop \/ (ConfigNext /\ UNCHANGED <<now, timer, orphans, account>>)
  <2>1. CASE Trade
    <3>1. margin' \in Int /\ profit' \in Int /\ wallet' = wallet + profit' - profit
      BY <2>1, TransferAssumption DEF Trade
    <3> QED BY <1>0, <2>1, <3>1 DEF Trade
  <2>2. CASE Start
    <3>1. timer' \in Nat \cup {None} /\ orphans' \subseteq Nat
      BY <1>0, <2>2 DEF Start, Armed
    <3> QED BY <1>0, <2>2, <3>1 DEF Start, account
  <2>3. CASE Tick
    BY <1>0, <2>3 DEF Tick
  <2>4. CASE Stop
    BY <1>0, <2>4 DEF Stop, account
  <2>5. CASE ConfigNext /\ UNCHANGED <<now, timer, orphans, account>>
    BY <1>0, <2>5 DEF account
  <2> QED BY <1>2, <2>1, <2>2, <2>3, <2>4, <2>5
<1>3. ASSUME NEW r \in Runs, Fire(r) \/ TriggerTransfer(r) PROVE AccountOK'
  BY <1>0, <1>3 DEF Fire, TriggerTransfer, account
<1>4. ASSUME NEW r \in Runs,
             \/ ReadConfig(r) \/ GetTransferParams(r) \/ Transfer(r) \/ AnswerLost(r)
             \/ TransferRefused(r) \/ LogOutcome(r)
      PROVE  AccountOK'
  <2>1. timer' \in Nat \cup {None} /\ orphans' \subseteq Nat
    BY <1>0, <1>1, <1>4, StepTimers
  <2>2. run[r].at = "send" => run[r].amount \in Int
    BY <1>0, NoRunKind, ActiveRecord DEF Active, RunRecords
  <2>3. now' = now /\ UNCHANGED <<margin, profit>> /\ wallet' \in Int
    BY <1>0, <1>4, <2>2 DEF ReadConfig, GetTransferParams, Transfer, AnswerLost, TransferRefused,
       LogOutcome, account, Moves
  <2> QED BY <1>0, <2>1, <2>3
<1>5. CASE UNCHANGED vars
  BY <1>0, <1>5 DEF vars
<1> QED BY <1>2, <1>3, <1>4, <1>5 DEF Next

LEMMA TransferInvInit == Init => TransferInv
<1> SUFFICES ASSUME Init PROVE TransferInv
  OBVIOUS
<1>1. RunOK
  BY DEF Init, RunOK, Chained, Active
<1>2. AccountOK
  BY TransferAssumption DEF Init, AccountOK
<1>3. PutOK
  BY DEF Init, ConfigInit, PutOK
<1> QED BY <1>1, <1>2, <1>3 DEF TransferInv

LEMMA TransferInvStep == TransferInv /\ [Next]_vars => TransferInv'
BY RunOKStep, AccountStep, ConfigAlone, PutStep DEF TransferInv

LEMMA TransferInvHolds == Spec => []TransferInv
BY TransferInvInit, TransferInvStep, PTL DEF Spec

\* Once requests have been served one at a time, what every reader of the
\* configuration sees is what is stored, or nothing.
THEOREM TransferCacheAgrees == Spec => []CacheAgrees
<1>1. Init => Served
  BY RestingKinds DEF Init, ConfigInit, Served
<1>2. TransferInv /\ Served /\ [Next]_vars => Served'
  BY ConfigAlone, ServedStep DEF TransferInv
<1>3. Served => CacheAgrees
  BY DEF Served, CacheAgrees
<1> QED BY <1>1, <1>2, <1>3, TransferInvHolds, PTL DEF Spec

\* stop() is final unless it met a run under way or a timer hidden by a second start.
THEOREM TransferStopsQuietly == Spec => []StopsQuietly
<1>1. Init => StopsQuietly
  BY DEF Init, StopsQuietly, Chained, Active
<1>2. TransferInv /\ StopsQuietly /\ [Next]_vars => StopsQuietly'
  <2> SUFFICES ASSUME TransferInv, StopsQuietly, [Next]_vars PROVE StopsQuietly'
    OBVIOUS
  <2>0. RunOK
    BY DEF TransferInv
  <2>1. CASE Start \/ Stop
    BY <2>1 DEF Start, Stop, StopsQuietly, Chained, Active
  <2>2. CASE Tick \/ UNCHANGED vars \/ (ConfigNext /\ UNCHANGED <<running, timer, orphans, run, busyStop>>)
    BY <2>2 DEF Tick, vars, StopsQuietly, Chained, Active
  <2>3. CASE Trade
    <3>1. UNCHANGED <<running, timer, orphans, busyStop>> /\ run' = Disturbed(Runs)
      BY <2>3 DEF Trade
    <3>2. \A o \in Runs : Chained(o)' => Chained(o)
      BY <2>0, <3>1, DisturbedRuns DEF Chained, Active
    <3> QED BY <3>1, <3>2 DEF StopsQuietly
  <2>4. ASSUME NEW r \in Runs, RunStep(r) PROVE StopsQuietly'
    <3>1. Goes(r) /\ UNCHANGED <<running, busyStop>>
      BY <2>4, StepGoes DEF RunStep, Fire, TriggerTransfer, ReadConfig, GetTransferParams, Transfer,
         AnswerLost, TransferRefused, LogOutcome
    <3> SUFFICES ASSUME ~running, ~busyStop
                 PROVE  timer' = None /\ orphans' = {} /\ \A o \in Runs : ~Chained(o)'
      BY <3>1 DEF StopsQuietly
    <3>2. timer = None /\ orphans = {} /\ \A o \in Runs : ~Chained(o)
      BY DEF StopsQuietly
    <3>3. ~Fire(r)
      BY <3>2 DEF Fire
    <3>4. UNCHANGED <<timer, orphans>>
      <4>1. CASE TriggerTransfer(r)
        BY <4>1 DEF TriggerTransfer
      <4>2. CASE ~TriggerTransfer(r)
        BY <2>4, <3>2, <3>3, <4>2, StepTimers DEF RunStep, Chained
      <4> QED BY <4>1, <4>2
    <3>5. \A o \in Runs \ {r} : ~Chained(o)'
      BY <3>1, <3>2 DEF Goes, Others, Chained, Active
    <3>6. ~Chained(r)'
      <4>1. CASE Active(r)
        BY <3>1, <3>2, <4>1 DEF Goes, Chained, Active
      <4>2. CASE ~Active(r)
        <5>1. TriggerTransfer(r)
          BY <2>4, <3>3, <4>2, NoRunKind DEF RunStep, Active, ReadConfig, GetTransferParams, Transfer,
             AnswerLost, TransferRefused, LogOutcome
        <5>2. run'[r].chain = FALSE
          BY <2>0, <5>1 DEF TriggerTransfer, Begins, RunOK
        <5> QED BY <5>2 DEF Chained
      <4> QED BY <4>1, <4>2
    <3> QED BY <3>2, <3>4, <3>5, <3>6
  <2> QED BY <2>1, <2>2, <2>3, <2>4 DEF Next, RunStep
<1> QED BY <1>1, <1>2, TransferInvHolds, PTL DEF Spec

\* The scheduler does not die of an error, and always names the next instant of its
\* schedule, whatever the time is and whatever was configured meanwhile.
THEOREM TransferKeepsRunning == Spec => []KeepsRunning
<1>1. Init => Alive
  BY DEF Init, Alive
<1>2. TransferInv /\ Alive /\ [Next]_vars => Alive'
  <2> SUFFICES ASSUME TransferInv, Alive, [Next]_vars, running' PROVE
                 timer' # None \/ orphans' # {} \/ \E r \in Runs : Chained(r)'
    BY DEF Alive
  <2>0. RunOK /\ now \in Nat /\ None \notin Nat
    BY TransferAssumption DEF TransferInv, AccountOK
  <2>1. CASE Start \/ Stop
    BY <2>0, <2>1 DEF Start, Stop, Armed
  <2>2. CASE Tick \/ UNCHANGED vars \/ (ConfigNext /\ UNCHANGED <<running, timer, orphans, run>>)
    BY <2>2 DEF Tick, vars, Alive, Chained, Active
  <2>3. CASE Trade
    <3>1. UNCHANGED <<running, timer, orphans>> /\ run' = Disturbed(Runs)
      BY <2>3 DEF Trade
    <3>2. \A o \in Runs : Chained(o) => Chained(o)'
      BY <2>0, <3>1, DisturbedRuns, NoRunKind DEF Chained, Active
    <3> QED BY <3>1, <3>2 DEF Alive
  <2>4. ASSUME NEW r \in Runs, RunStep(r)
        PROVE  timer' # None \/ orphans' # {} \/ \E o \in Runs : Chained(o)'
    <3>1. Goes(r) /\ UNCHANGED running
      BY <2>4, StepGoes DEF RunStep, Fire, TriggerTransfer, ReadConfig, GetTransferParams, Transfer,
         AnswerLost, TransferRefused, LogOutcome
    <3>2. CASE Fire(r)
      <4>1. run'[r] # NoRun /\ run'[r].chain = TRUE
        <5>1. run'[r].at = "config" /\ run'[r].chain = TRUE
          BY <2>0, <3>2 DEF Fire, Begins, RunOK
        <5> QED BY <5>1, NoRunKind
      <4> QED BY <4>1 DEF Chained, Active
    <3>3. \A o \in Runs \ {r} : Chained(o) => Chained(o)'
      BY <3>1, NoRunKind DEF Goes, Others, Chained, Active
    <3>4. CASE TriggerTransfer(r)
      <4>1. UNCHANGED <<timer, orphans>> /\ ~Active(r)
        BY <3>4 DEF TriggerTransfer, Begins
      <4> QED BY <3>1, <3>3, <4>1 DEF Alive, Chained
    <3>5. CASE ~Fire(r) /\ ~TriggerTransfer(r)
      <4>1. CASE \E at \in Nat : Armed(at)
        BY <2>0, <4>1 DEF Armed
      <4>2. CASE UNCHANGED <<timer, orphans>> /\ (Chained(r) => run'[r] # NoRun)
        <5>1. Chained(r) => Chained(r)'
          BY <3>1, <4>2 DEF Goes, Chained, Active
        <5> QED BY <3>1, <3>3, <4>2, <5>1 DEF Alive
      <4> QED BY <2>4, <3>5, <4>1, <4>2, StepTimers DEF RunStep
    <3> QED BY <3>2, <3>4, <3>5
  <2> QED BY <2>1, <2>2, <2>3, <2>4 DEF Next, RunStep
<1>3. TransferInv /\ Alive => KeepsRunning
  <2> SUFFICES ASSUME TransferInv, Alive PROVE KeepsRunning
    OBVIOUS
  <2>1. now \in Nat
    BY DEF TransferInv, AccountOK
  <2>2. \A time \in 0..1 :
          LET next == GetNextRunTime("daily", time, now) IN
          /\ next > now /\ Scheduled(next, "daily", time)
          /\ \A u \in (now + 1)..(next - 1) : ~Scheduled(u, "daily", time)
    BY <2>1, NextDaily
  <2>3. \A time \in 0..1 :
          LET next == GetNextRunTime("weekly", time, now) IN
          /\ next > now /\ Scheduled(next, "weekly", time)
          /\ \A u \in (now + 1)..(next - 1) : ~Scheduled(u, "weekly", time)
    BY <2>1, NextWeekly
  <2> QED BY <2>2, <2>3 DEF KeepsRunning, Alive
<1> QED BY <1>1, <1>2, <1>3, TransferInvHolds, PTL DEF Spec

-----------------------------------------------------------------------------
\* The reserve does not grow when the balance shrinks.
LEMMA ReserveMonotone ==
  ASSUME NEW v \in Int, NEW w \in Int, v <= w
  PROVE  Reserve(v) <= Reserve(w)
<1>1. RiskTimesMultiplier \in Nat /\ ReserveFloor \in Nat
  BY TransferAssumption
<1>2. v * RiskTimesMultiplier <= w * RiskTimesMultiplier
  BY <1>1
<1>3. \A x, y \in Int : x <= y => x \div 100 <= y \div 100
  OBVIOUS
<1>4. (v * RiskTimesMultiplier) \in Int /\ (w * RiskTimesMultiplier) \in Int
  BY <1>1
<1>5. (v * RiskTimesMultiplier) \div 100 <= (w * RiskTimesMultiplier) \div 100
  BY <1>2, <1>3, <1>4
<1> DEFINE x == (v * RiskTimesMultiplier) \div 100
           y == (w * RiskTimesMultiplier) \div 100
<1>6. x \in Int /\ y \in Int /\ Reserve(v) = Larger(x, ReserveFloor) /\ Reserve(w) = Larger(y, ReserveFloor)
  BY <1>4 DEF Reserve
<1>7. x <= y
  BY <1>5
<1> HIDE DEF x, y
<1> QED BY <1>1, <1>6, <1>7 DEF Larger

LEMMA ReserveInt == ASSUME NEW w \in Int PROVE Reserve(w) \in Int
<1>1. RiskTimesMultiplier \in Nat /\ ReserveFloor \in Nat
  BY TransferAssumption
<1>2. (w * RiskTimesMultiplier) \in Int
  BY <1>1
<1>3. ((w * RiskTimesMultiplier) \div 100) \in Int
  BY <1>2
<1> QED BY <1>1, <1>3 DEF Reserve, Larger

\* What becomes of the record of a run that takes a step and stays.
LEMMA OwnRecord ==
  ASSUME TransferInv, NEW x \in Runs,
         ReadConfig(x) \/ GetTransferParams(x) \/ TransferRefused(x) \/ LogOutcome(x)
  PROVE  /\ Active(x) /\ run[x] \in RunRecords
         /\ UNCHANGED <<wallet, margin, profit>>
         /\ \A o \in Runs \ {x} : run'[o] = run[o]
         /\ run'[x] # NoRun =>
              /\ run'[x].calm = run[x].calm
              /\ run[x].at = "after" => run'[x].at = "after"
              /\ run'[x].at = "send" =>
                   \/ run[x].at = "send" /\ run'[x].amount = run[x].amount
                   \/ Covers(wallet, margin, run'[x].amount)
<1>0. /\ run \in [Runs -> {NoRun} \cup RunRecords] /\ Active(x) /\ run[x] \in RunRecords
      /\ profit \in Int /\ cache \in Values \cup {None}
  BY NoRunKind, ActiveRecord DEF TransferInv, RunOK, AccountOK, PutOK, Active, ReadConfig,
     GetTransferParams, TransferRefused, LogOutcome
<1>1. UNCHANGED <<wallet, margin, profit>>
  BY DEF ReadConfig, GetTransferParams, TransferRefused, LogOutcome, account
<1>2. ASSUME Step(x, NoRun)
      PROVE  run'[x] = NoRun /\ \A o \in Runs \ {x} : run'[o] = run[o]
  BY <1>0, <1>2 DEF Step
<1>3. Throws(x) \/ Returns(x) => Step(x, NoRun)
  BY DEF Throws, Returns, Ends
<1>4. CASE ReadConfig(x)
  <2>1. CASE Step(x, [run[x] EXCEPT !.at = "params", !.conf = cache])
    <3>1. /\ run'[x] = [run[x] EXCEPT !.at = "params", !.conf = cache]
          /\ \A o \in Runs \ {x} : run'[o] = run[o]
      BY <1>0, <2>1 DEF Step
    <3>2. run'[x].at = "params" /\ run'[x].calm = run[x].calm /\ run[x].at = "config"
      BY <1>0, <1>4, <3>1 DEF RunRecords, ReadConfig
    <3> QED BY <1>0, <1>1, <3>1, <3>2
  <2> QED BY <1>0, <1>1, <1>2, <1>3, <1>4, <2>1 DEF ReadConfig
<1>5. CASE GetTransferParams(x)
  <2>1. CASE /\ Transferable(wallet, margin, profit)
             /\ Step(x, [run[x] EXCEPT !.at = "send", !.amount = TransferAmount(profit)])
    <3>1. /\ run'[x] = [run[x] EXCEPT !.at = "send", !.amount = TransferAmount(profit)]
          /\ \A o \in Runs \ {x} : run'[o] = run[o]
      BY <1>0, <2>1 DEF Step
    <3>2. /\ run'[x].calm = run[x].calm /\ run[x].at = "params"
          /\ run'[x].amount = TransferAmount(profit)
      BY <1>0, <1>5, <3>1 DEF RunRecords, GetTransferParams
    <3>3. Covers(wallet, margin, TransferAmount(profit))
      BY <2>1 DEF Transferable
    <3> QED BY <1>0, <1>1, <3>1, <3>2, <3>3
  <2> QED BY <1>0, <1>1, <1>2, <1>3, <1>5, <2>1 DEF GetTransferParams
<1>6. CASE TransferRefused(x)
  <2> DEFINE a == IF run[x].try = MaxRetries THEN "after" ELSE "send"
             n == run[x].try + 1
  <2>1. /\ run'[x] = [run[x] EXCEPT !.try = n, !.at = a]
        /\ \A o \in Runs \ {x} : run'[o] = run[o]
        /\ run[x].at = "send"
    BY <1>0, <1>6 DEF TransferRefused, Retried
  <2> HIDE DEF a, n
  <2>2. run'[x].calm = run[x].calm /\ run'[x].amount = run[x].amount
    BY <1>0, <2>1 DEF RunRecords
  <2> QED BY <1>0, <1>1, <2>1, <2>2
<1>7. CASE LogOutcome(x)
  BY <1>0, <1>1, <1>2, <1>3, <1>7 DEF LogOutcome
<1> QED BY <1>4, <1>5, <1>6, <1>7

LEMMA KnownStep == TransferInv /\ AccountKnown /\ [Next]_vars => AccountKnown'
<1> SUFFICES ASSUME TransferInv, AccountKnown, [Next]_vars,
                    NEW r \in Runs, NEW o \in Runs,
                    Active(r)', run'[r].calm, run'[r].at # "after", Active(o)', run'[o].at = "send"
             PROVE  Covers(wallet', margin', run'[o].amount)
  BY DEF AccountKnown
<1>0. RunOK /\ run \in [Runs -> {NoRun} \cup RunRecords]
  BY DEF TransferInv, RunOK
<1>1. CASE UNCHANGED <<run, wallet, margin>>
  BY <1>1 DEF AccountKnown, Active
<1>2. CASE Trade
  <2>1. run' = Disturbed(Runs)
    BY <1>2 DEF Trade
  <2>2. Active(r)
    BY <1>0, <2>1, DisturbedRuns DEF Active
  <2> QED BY <1>0, <2>1, <2>2, DisturbedRuns
<1>3. ASSUME NEW x \in Runs, Fire(x) \/ TriggerTransfer(x)
      PROVE  Covers(wallet', margin', run'[o].amount)
  <2>1. /\ UNCHANGED <<wallet, margin>> /\ \A i \in Runs \ {x} : run'[i] = run[i]
        /\ run'[x].at # "send" /\ run'[x].calm = (\A i \in Runs : ~Active(i))
    <3>1. UNCHANGED <<wallet, margin>>
      BY <1>3 DEF Fire, TriggerTransfer, account
    <3>2. ASSUME NEW at \in {"config", "params"}, NEW chain, Begins(x, at, chain)
          PROVE  /\ \A i \in Runs \ {x} : run'[i] = run[i]
                 /\ run'[x].at = at /\ run'[x].calm = (\A i \in Runs : ~Active(i))
      BY <1>0, <3>2 DEF Begins
    <3> QED BY <1>3, <3>1, <3>2 DEF Fire, TriggerTransfer
  <2>2. o # x /\ run'[o] = run[o] /\ Active(o)
    BY <2>1 DEF Active
  <2>3. r # x /\ run'[r] = run[r]
    BY <2>1, <2>2
  <2> QED BY <2>1, <2>2, <2>3 DEF AccountKnown, Active
<1>4. ASSUME NEW x \in Runs,
             ReadConfig(x) \/ GetTransferParams(x) \/ TransferRefused(x) \/ LogOutcome(x)
      PROVE  Covers(wallet', margin', run'[o].amount)
  <2>1. UNCHANGED <<wallet, margin>>
    BY <1>4, OwnRecord
  <2>2. Active(r) /\ run[r].calm /\ run[r].at # "after"
    BY <1>4, OwnRecord DEF Active
  <2>3. \/ Active(o) /\ run[o].at = "send" /\ run'[o].amount = run[o].amount
        \/ Covers(wallet, margin, run'[o].amount)
    BY <1>4, OwnRecord DEF Active
  <2> QED BY <2>1, <2>2, <2>3 DEF AccountKnown
<1>5. ASSUME NEW x \in Runs, Transfer(x) PROVE FALSE
  <2>1. /\ Runs \ {x} \in SUBSET Runs
        /\ run' = [Disturbed(Runs \ {x}) EXCEPT ![x].at = "after"] /\ run[x].at = "send"
    BY <1>5 DEF Transfer
  <2>2. Disturbed(Runs \ {x})[x] \in RunRecords
    BY <1>0, <2>1, DisturbedRuns, NoRunKind DEF Active
  <2>3. run'[x].at = "after" /\ \A i \in Runs \ {x} : run'[i] = Disturbed(Runs \ {x})[i]
    BY <1>0, <2>1, <2>2, DisturbedRuns DEF RunRecords
  <2>4. r # x /\ run'[r] = Disturbed(Runs \ {x})[r]
    BY <2>3
  <2>5. Active(r)
    BY <1>0, <2>1, <2>4, DisturbedRuns DEF Active
  <2> QED BY <1>0, <2>1, <2>4, <2>5, DisturbedRuns
<1>6. ASSUME NEW x \in Runs, AnswerLost(x) PROVE FALSE
  <2>1. run' = Retried(x, Disturbed(Runs)) /\ run[x].at = "send"
    BY <1>6 DEF AnswerLost
  <2>2. Disturbed(Runs)[x] \in RunRecords /\ Disturbed(Runs)[x].calm = FALSE
        /\ Disturbed(Runs) \in [Runs -> {NoRun} \cup RunRecords]
    BY <1>0, <2>1, DisturbedRuns, NoRunKind DEF Active
  <2> DEFINE a == IF run[x].try = MaxRetries THEN "after" ELSE "send"
             n == Disturbed(Runs)[x].try + 1
  <2>3. /\ run'[x] = [Disturbed(Runs)[x] EXCEPT !.try = n, !.at = a]
        /\ \A i \in Runs \ {x} : run'[i] = Disturbed(Runs)[i]
    BY <2>1, <2>2 DEF Retried
  <2> HIDE DEF a, n
  <2>4. run'[x].calm = FALSE
    BY <2>2, <2>3 DEF RunRecords
  <2>5. r # x /\ run'[r] = Disturbed(Runs)[r]
    BY <2>3, <2>4
  <2>6. Active(r)
    BY <1>0, <2>5, DisturbedRuns DEF Active
  <2> QED BY <1>0, <2>5, <2>6, DisturbedRuns
<1>7. (Tick \/ Start \/ Stop \/ UNCHANGED vars
         \/ (ConfigNext /\ UNCHANGED <<now, running, timer, orphans, run, counts, account, busyStop>>))
        => UNCHANGED <<run, wallet, margin>>
  BY DEF Tick, Start, Stop, vars, account
<1> QED BY <1>1, <1>2, <1>3, <1>4, <1>5, <1>6, <1>7 DEF Next

\* A transfer leaves margin and reserve where nothing else touched the account since
\* its run began and none of its answers was lost - whoever else looked meanwhile.
THEOREM TransferBufferKept == Spec => BufferKept
<1>1. Init => AccountKnown
  BY DEF Init, AccountKnown, Active
<1>2. TransferInv /\ AccountKnown =>
        \A r \in Runs : run[r].at = "send" /\ run[r].calm /\ (Transfer(r) \/ AnswerLost(r))
          => wallet' >= margin + Reserve(wallet')
  <2> SUFFICES ASSUME TransferInv, AccountKnown, NEW r \in Runs, run[r].at = "send", run[r].calm,
                      Transfer(r) \/ AnswerLost(r)
               PROVE  wallet' >= margin + Reserve(wallet')
    OBVIOUS
  <2>1. Active(r) /\ run[r] \in RunRecords
    BY NoRunKind, ActiveRecord DEF Active, TransferInv
  <2>2. Covers(wallet, margin, run[r].amount)
    BY <2>1 DEF AccountKnown
  <2>3. wallet' = wallet - run[r].amount
    BY DEF Transfer, AnswerLost, Moves
  <2>4. wallet \in Int /\ margin \in Int /\ run[r].amount \in Nat
    BY <2>1 DEF TransferInv, AccountOK, RunRecords
  <2>5. wallet' \in Int
    BY <2>3, <2>4
  <2>6. wallet' <= wallet
    BY <2>3, <2>4
  <2>7. Reserve(wallet') <= Reserve(wallet) /\ Reserve(wallet') \in Int /\ Reserve(wallet) \in Int
    BY <2>4, <2>5, <2>6, ReserveMonotone, ReserveInt
  <2>8. wallet' >= margin + Reserve(wallet)
    BY <2>2, <2>3 DEF Covers
  <2> QED BY <2>4, <2>5, <2>7, <2>8
<1> QED BY <1>1, <1>2, KnownStep, TransferInvHolds, PTL DEF Spec, BufferKept
=============================================================================
