---------------------------- MODULE BacktestCli ----------------------------
(***************************************************************************)
(* runCli (backtest/cli.ts): one process that runs a backtest or a         *)
(* walk-forward optimisation, and stores what comes out if it can.         *)
(***************************************************************************)
EXTENDS Backtest, Wfo

VARIABLES
  mode,        \* "backtest" or "wfo"
  db,          \* "unknown", "open" or "none"
  report       \* what became of the report: "none", "printed" or "stored"

vars == <<btVars, wfoVars, mode, db, report>>

Init ==
  /\ BacktestInit /\ WfoInit
  /\ mode \in {"backtest", "wfo"} /\ db = "unknown" /\ report = "none"

\* Without a database neither mode has candles: runCli throws and the script exits.
InitDb ==
  /\ db = "unknown" /\ db' \in {"open", "none"}
  /\ UNCHANGED <<btVars, wfoVars, mode, report>>

RunBacktest ==
  /\ mode = "backtest" /\ db = "open" /\ (LoadCandles \/ Replay)
  /\ UNCHANGED <<wfoVars, mode, db, report>>

\* printReport; saveBacktestResult is not awaited and may fail.
Report ==
  /\ mode = "backtest" /\ db = "open" /\ BacktestDone /\ report = "none"
  /\ report' = "printed" /\ UNCHANGED <<btVars, wfoVars, mode, db>>
SaveBacktestResult ==
  /\ report = "printed" /\ report' = "stored"
  /\ UNCHANGED <<btVars, wfoVars, mode, db>>

\* The CLI itself gives runWfo an empty parameter space and no updateConfig; WfoDeps allows
\* both, and so does this.
RunWfo ==
  /\ mode = "wfo" /\ db = "open" /\ WfoNext
  /\ UNCHANGED <<btVars, mode, db, report>>

Next == InitDb \/ RunBacktest \/ Report \/ SaveBacktestResult \/ RunWfo

Spec == Init /\ [][Next]_vars
=============================================================================
