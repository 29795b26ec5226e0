------------------------------ MODULE TraceTx ------------------------------
(***************************************************************************)
(* debug_traceTransaction of eth/api.go: TraceTransaction (lines 450-512)  *)
(* and computeTxEnv (lines 515-553).  The handler picks a tracer, looks    *)
(* the transaction up, replays the transactions before it in its block     *)
(* on the parent's state, then runs it with the tracer attached.  With a   *)
(* JavaScript tracer a goroutine waits for the deadline and stops the      *)
(* tracer; it runs concurrently with the replay and with the traced run.   *)
(*                                                                         *)
(* A transaction is one of TxKinds: "ok", or "bad" (BinaryMessage returns *)
(* a consensus error).  The state is the sequence of transactions applied  *)
(* to the parent's state, DeleteSuicides included.  The traced run is      *)
(* Steps interpreter steps: its gas bounds it (Interpreter.tla checks      *)
(* that), and nothing else does.                                           *)
(*                                                                         *)
(* debug_traceBlock and its variants (lines 331-440) are the other kind of *)
(* request: the block is decoded, read from a file or looked up, its       *)
(* header verified and its parent's state loaded, then Process runs every  *)
(* transaction with a StructLogger and ValidateState checks the result.    *)
(***************************************************************************)
EXTENDS Integers, Sequences

CONSTANTS
  TxKinds,    \* "ok", "bad"
  MaxTxs,     \* most transactions in the block
  Steps,      \* interpreter steps of the traced transaction
  Tracers,    \* "js" (config.Tracer set), "struct" (a StructLogger)
  Requests    \* "tx" (TraceTransaction), "block" (the TraceBlock calls)

VARIABLES
  request,    \* which call was made
  txs,        \* block.Transactions()
  target,     \* txIndex from core.GetTransaction
  tracer,     \* the tracer chosen at lines 454-480
  phase,      \* "setup", "replay", "run" or "done"
  idx,        \* the replay loop's index
  applied,    \* the transactions applied to the parent's state
  executed,   \* interpreter steps of the traced run so far
  stopped,    \* the deadline goroutine called tracer.Stop
  result      \* what TraceTransaction returned

vars == <<request, txs, target, tracer, phase, idx, applied, executed, stopped, result>>

Blocks == UNION {[1 .. n -> TxKinds] : n \in 1 .. MaxTxs}

Init ==
  /\ request \in Requests
  /\ txs \in Blocks
  /\ target \in 0 .. MaxTxs
  /\ tracer \in Tracers
  /\ phase = "setup"
  /\ idx = 0
  /\ applied = <<>>
  /\ executed = 0
  /\ stopped = FALSE
  /\ result = "none"

\* lines 454-490 and 520-531: an unparsable timeout or tracer code, an
\* unknown transaction, or a block, parent or state that cannot be loaded
\* ends the call; otherwise the deadline goroutine (JavaScript tracer) is
\* running and the replay loop starts at index 0
Setup ==
  /\ request = "tx"
  /\ phase = "setup"
  /\ \E fails \in BOOLEAN :
       /\ phase' = IF fails THEN "done" ELSE "replay"
       /\ result' = IF fails THEN "error" ELSE result
  /\ UNCHANGED <<request, txs, target, tracer, idx, applied, executed, stopped>>

\* lines 546-550: the transaction applied to the state, whose
\* self-destructed accounts DeleteSuicides then removes
ApplyTx(k) == applied' = Append(applied, k)

\* mutant: the index compared after the transaction was replayed
ReplayTxLate ==
  /\ phase = "replay"
  /\ IF idx = Len(txs)
     THEN /\ phase' = "done"
          /\ result' = "out_of_range"
          /\ UNCHANGED <<idx, applied>>
     ELSE IF txs[idx + 1] = "bad"
     THEN /\ phase' = "done"
          /\ result' = "tx_failed"
          /\ UNCHANGED <<idx, applied>>
     ELSE /\ ApplyTx(txs[idx + 1])
          /\ idx' = idx + 1
          /\ phase' = IF idx = target THEN "run" ELSE "replay"
          /\ UNCHANGED result
  /\ UNCHANGED <<request, txs, target, tracer, executed, stopped>>

\* one iteration of computeTxEnv's loop (lines 536-551): at the target
\* index return its environment; else replay the transaction, failing
\* the call on a consensus error; past the last one, index out of range
ReplayTx ==
  /\ phase = "replay"
  /\ IF idx = Len(txs)
     THEN /\ phase' = "done"
          /\ result' = "out_of_range"
          /\ UNCHANGED <<idx, applied>>
     ELSE IF idx = target
     THEN /\ phase' = "run"
          /\ UNCHANGED <<idx, applied, result>>
     ELSE IF txs[idx + 1] = "bad"
     THEN /\ phase' = "done"
          /\ result' = "tx_failed"
          /\ UNCHANGED <<idx, applied>>
     ELSE /\ ApplyTx(txs[idx + 1])
          /\ idx' = idx + 1
          /\ UNCHANGED <<phase, result>>
  /\ UNCHANGED <<request, txs, target, tracer, executed, stopped>>

\* one iteration of Run's loop for the traced transaction: the tracer's
\* CaptureState is called and its error ignored (core/vm line 479)
EVMStep ==
  /\ phase = "run"
  /\ executed < Steps
  /\ executed' = executed + 1
  /\ UNCHANGED <<request, txs, target, tracer, phase, idx, applied, stopped, result>>

\* lines 495-511: the run ends; a JavaScript tracer's result is its error
\* once it was stopped, a StructLogger's is the execution result
Finish ==
  /\ phase = "run"
  /\ executed = Steps
  /\ phase' = "done"
  /\ result' = IF tracer = "js" /\ stopped THEN "timeout" ELSE "traced"
  /\ UNCHANGED <<request, txs, target, tracer, idx, applied, executed, stopped>>

\* lines 471-474: the deadline passes (or, after the return, the deferred
\* cancel fires) and the goroutine calls tracer.Stop
Deadline ==
  /\ request = "tx"
  /\ tracer = "js"
  /\ phase # "setup"
  /\ ~stopped
  /\ stopped' = TRUE
  /\ UNCHANGED <<request, txs, target, tracer, phase, idx, applied, executed, result>>

\* TraceBlock, TraceBlockFromFile, TraceBlockByNumber and TraceBlockByHash
\* (lines 333-398), then traceBlock up to line 421: undecodable RLP, an
\* unreadable file, an unknown block, a header VerifyHeader rejects or a
\* parent state StateAt cannot load ends the call with Validated false
BlockSetup ==
  /\ request = "block"
  /\ phase = "setup"
  /\ \E fails \in BOOLEAN :
       /\ phase' = IF fails THEN "done" ELSE "process"
       /\ result' = IF fails THEN "error" ELSE result
  /\ UNCHANGED <<request, txs, target, tracer, idx, applied, executed, stopped>>

\* one transaction of processor.Process (called at line 423, its loop not
\* under src/), traced by the StructLogger: the first consensus error
\* ends traceBlock with it (line 424)
ProcessTx ==
  /\ phase = "process"
  /\ IF idx = Len(txs)
     THEN /\ phase' = "validate"
          /\ UNCHANGED <<idx, applied, result>>
     ELSE IF txs[idx + 1] = "bad"
     THEN /\ phase' = "done"
          /\ result' = "error"
          /\ UNCHANGED <<idx, applied>>
     ELSE /\ ApplyTx(txs[idx + 1])
          /\ idx' = idx + 1
          /\ UNCHANGED <<phase, result>>
  /\ UNCHANGED <<request, txs, target, tracer, executed, stopped>>

\* lines 427-430 and formatError (435-440): ValidateState against the
\* parent; Validated is true, and Error empty, only when it passes
Validate ==
  /\ phase = "validate"
  /\ \E fails \in BOOLEAN :
       /\ phase' = "done"
       /\ result' = IF fails THEN "error" ELSE "validated"
  /\ UNCHANGED <<request, txs, target, tracer, idx, applied, executed, stopped>>

Returned == phase = "done" /\ UNCHANGED vars

Next ==
  \/ Setup \/ ReplayTx \/ EVMStep \/ Finish \/ Deadline
  \/ BlockSetup \/ ProcessTx \/ Validate
  \/ Returned

\* the handler's goroutine keeps running until it returns
Spec == Init /\ [][Next]_vars /\ WF_vars(Setup \/ ReplayTx \/ EVMStep \/ Finish
                                        \/ BlockSetup \/ ProcessTx \/ Validate)
-----------------------------------------------------------------------------

\* computeTxEnv hands the traced transaction the state after exactly the
\* transactions before it in the block, each applied once and in order
ReplayPrefix ==
  phase = "run" =>
    /\ idx = target
    /\ applied = SubSeq(txs, 1, target)

\* spec.md: the interpreter's abort flag is how the wall-clock timeout of
\* a trace call ends execution; so once the deadline goroutine has fired,
\* the traced run executes no further instruction
TimeoutStopsRun == [][stopped => executed' = executed]_vars
=============================================================================
