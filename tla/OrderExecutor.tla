--------------------------- MODULE OrderExecutor ---------------------------
(***************************************************************************)
(* executeEntry of orders/executor.ts placing one entry and its stop loss  *)
(* through the Binance adapter: the entry order, the slippage check, the   *)
(* SL registration with its retries and the emergency close.               *)
(*                                                                         *)
(* Each adapter call is a request with one idempotency key, which          *)
(* withRetry sends up to MaxTries times.  The exchange may process a       *)
(* request whose answer is lost, and refuses a key it has processed: the   *)
(* code relies on the exchange for that (external).                        *)
(*                                                                         *)
(* Sizes are counted in units of the ticket's size.  Elapsed time is not   *)
(* modelled: the SL timeout may expire after any failed attempt.           *)
(***************************************************************************)
EXTENDS Naturals

CONSTANTS
  BracketCarriesSl,  \* the adapter's createOrder honours params.stopLoss
  MaxTries,          \* withRetry's maxRetries
  SlMaxRetries       \* SL_MAX_RETRIES

ASSUME FlagsAssumption == BracketCarriesSl \in BOOLEAN
ASSUME RetryAssumption == MaxTries \in Nat \ {0} /\ SlMaxRetries \in Nat \ {0}

VARIABLES
  oneStep,      \* exchangeConfig.supports_one_step_order, given by the caller
  pc,           \* the statement executeEntry is at
  tries,        \* how often the current request was sent without an answer
  taken,        \* the exchange has processed the current idempotency key
  position,     \* units of size open on the exchange
  stops,        \* stop loss orders resting on the exchange
  attempt,      \* failed SL registrations so far
  lost,         \* an entry order was placed but its answer never arrived
  closeFailed,  \* emergencyClose logged "emergency close FAILED"
  result        \* what executeEntry returned, "none" while it runs

exchange == <<position, stops>>
flags    == <<lost, closeFailed>>
vars == <<oneStep, pc, tries, taken, exchange, attempt, flags, result>>

Calls   == {"leverage", "bracket", "plain", "sl", "close"}
PCs     == Calls \cup {"start", "slippage", "bracketSlippage", "done"}
Results == {"none", "success", "aborted", "thrown"}

-----------------------------------------------------------------------------
Init ==
  /\ oneStep \in BOOLEAN
  /\ pc = "start"
  /\ tries = 0 /\ taken = FALSE
  /\ position = 0 /\ stops = 0 /\ attempt = 0
  /\ lost = FALSE /\ closeFailed = FALSE
  /\ result = "none"

\* The next adapter call, or statement; createOrder generates a new key.
Goto(next) == pc' = next /\ tries' = 0 /\ taken' = FALSE /\ UNCHANGED result

Return(r) == pc' = "done" /\ tries' = 0 /\ taken' = FALSE /\ result' = r

\* Not in live mode: ExecutionModeError, before anything is sent.
RefuseMode ==
  /\ pc = "start"
  /\ Return("thrown")
  /\ UNCHANGED <<exchange, attempt, flags>>

\* The optional spread check fails, before anything is sent.
RefuseSpread ==
  /\ pc = "start"
  /\ Return("aborted")
  /\ UNCHANGED <<exchange, attempt, flags>>

Start ==
  /\ pc = "start"
  /\ Goto("leverage")
  /\ UNCHANGED <<exchange, attempt, flags>>

(***************************************************************************)
(* One HTTP request: processed and answered, processed with the answer     *)
(* lost, or refused.  Binance's createOrder sends no stopLoss with a       *)
(* bracket entry.                                                          *)
(***************************************************************************)
Process ==
  /\ ~taken
  /\ position' = IF pc \in {"bracket", "plain"} THEN position + 1
                 ELSE IF pc = "close" /\ position > 0 THEN position - 1
                 ELSE position
  /\ stops' = IF pc = "sl" \/ (pc = "bracket" /\ BracketCarriesSl) THEN stops + 1 ELSE stops

Answered ==
  /\ pc \in Calls
  /\ Process
  /\ \/ pc = "leverage" /\ Goto(IF oneStep THEN "bracket" ELSE "plain")
     \/ pc = "bracket"  /\ Goto("bracketSlippage")
     \/ pc = "plain"    /\ Goto("slippage")
     \/ pc = "sl"       /\ Return("success")
     \/ pc = "close"    /\ Return("aborted")
  /\ UNCHANGED <<attempt, flags>>

\* attemptSlRegistration: another attempt, or the timeout, or none left.
SlFailedUncounted ==                            \* variant: attempt not counted
  /\ attempt' = attempt
  /\ Goto("sl")

SlFailedGivesUp ==                         \* variant: no emergency close after
  /\ attempt' = attempt + 1
  /\ IF attempt' < SlMaxRetries THEN Goto("sl") ELSE Return("success")

SlFailed ==
  /\ attempt' = attempt + 1
  /\ \/ attempt' < SlMaxRetries /\ Goto("sl")
     \/ Goto("close")

\* withRetry gave up: the catch around each call.
Throw(placed) ==
  /\ lost' = (lost \/ (pc \in {"bracket", "plain"} /\ placed))
  /\ closeFailed' = (pc = "close")
  /\ \/ pc = "leverage" /\ Return("thrown") /\ UNCHANGED attempt
     \/ pc = "bracket"  /\ Goto("plain") /\ UNCHANGED attempt
     \/ pc \in {"plain", "close"} /\ Return("aborted") /\ UNCHANGED attempt
     \/ pc = "sl"       /\ SlFailed

\* The request failed: withRetry sends it again, with the same key.
FailNewKey(placed) ==                        \* variant: a new key per attempt
  IF tries + 1 < MaxTries
  THEN tries' = tries + 1 /\ taken' = FALSE /\ UNCHANGED <<pc, attempt, flags, result>>
  ELSE Throw(placed)

Fail(placed) ==
  IF tries + 1 < MaxTries
  THEN tries' = tries + 1 /\ taken' = placed /\ UNCHANGED <<pc, attempt, flags, result>>
  ELSE Throw(placed)

AnswerLost == pc \in Calls /\ Process /\ Fail(TRUE)

Refused == pc \in Calls /\ Fail(taken) /\ UNCHANGED exchange

(***************************************************************************)
(* The slippage check: skipped when the fill price is unknown.  A bracket  *)
(* that "worked" is taken to carry its stop loss.                          *)
(***************************************************************************)
SlippageOk ==
  /\ \/ pc = "slippage" /\ Goto("sl")
     \/ pc = "bracketSlippage" /\ Return("success")
  /\ UNCHANGED <<exchange, attempt, flags>>

SlippageReturns ==                        \* variant: no emergency close
  /\ pc \in {"slippage", "bracketSlippage"}
  /\ Return("aborted")
  /\ UNCHANGED <<exchange, attempt, flags>>

SlippageExceeded ==
  /\ pc \in {"slippage", "bracketSlippage"}
  /\ Goto("close")
  /\ UNCHANGED <<exchange, attempt, flags>>

Next ==
  /\ \/ RefuseMode \/ RefuseSpread \/ Start
     \/ Answered \/ AnswerLost \/ Refused
     \/ SlippageOk \/ SlippageExceeded
  /\ UNCHANGED oneStep

Spec == Init /\ [][Next]_vars

\* Every HTTP call is answered or times out: the handler keeps going.
FairSpec == Spec /\ WF_vars(Next)
-----------------------------------------------------------------------------
\* A two-step entry is placed at most once, whatever answers are lost: the
\* retries of one createOrder share a key.
PlacedOnce == ~oneStep => position <= 1

\* executor.ts "SL registration: IMMEDIATELY after entry fill": an entry
\* reported as a success has a stop loss for every unit it opened.
SuccessIsProtected == result = "success" => position > 0 /\ stops >= position

\* An entry that was given up is flat, unless the close itself failed or the
\* exchange placed an order it never confirmed.
AbortedIsFlat ==
  result \in {"aborted", "thrown"} => position = 0 \/ lost \/ closeFailed

\* executeEntry ends, however the exchange behaves.
Terminates == <>(result # "none")
=============================================================================
