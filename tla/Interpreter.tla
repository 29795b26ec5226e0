---------------------------- MODULE Interpreter ----------------------------
(***************************************************************************)
(* The EVM interpreter of core/vm: Interpreter.Run executing a call frame, *)
(* its enforceRestrictions check and the jump-table choice made by         *)
(* NewInterpreter (src/unnamed/part_002, lines 269-515), with the gas      *)
(* constants of src/chain/params/protocol_params.go.  The collaborators    *)
(* Run calls (the jump-table entries, Stack, Memory, Contract.UseGas and   *)
(* EVM.Call with its snapshot and revert) are not under src/ and are       *)
(* modelled from spec.md, sections 4.1-4.4 and 7.                          *)
(*                                                                         *)
(* A CALL re-enters Run on the same goroutine and the same Interpreter, so *)
(* the frames form a stack of which only the last one steps.  Shared by    *)
(* all frames: in.evm.depth, in.returnData, in.readOnly, evm.callGasTemp,  *)
(* the world state and the abort flag set by EVM.Cancel.                   *)
(*                                                                         *)
(* Data abstraction: an instruction is an operation name and, for PUSH,   *)
(* its immediate; pc indexes instructions; memory keeps only its size (in  *)
(* 32-byte words); the output of RETURN/REVERT is the (offset, size) pair  *)
(* naming the returned memory slice; CALL takes only its gas, address and  *)
(* value operands (no input/output memory arguments).                      *)
(***************************************************************************)
EXTENDS Integers, SequencesExt

CONSTANTS
  Code,               \* [contract address -> Seq(Instr)]
  AddrMod,            \* BigToAddress keeps w % AddrMod (2^160, scaled down)
  WordMod,            \* stack words are 0 .. WordMod-1 (2^256, scaled down)
  Uint64Max,          \* 2^64-1 scaled down, for bigUint64, SafeMul, IsUint64
  StackLimit,         \* params.StackLimit (1024, scaled down)
  CallCreateDepth,    \* params.CallCreateDepth (1024, scaled down)
  IsByzantium,        \* in.evm.chainRules.IsByzantium
  ConfigJumpTable,    \* the table in the vm.Config given to NewInterpreter
  DisableGasMetering, \* cfg.DisableGasMetering
  Debug,              \* cfg.Debug: a tracer is attached
  Origin,             \* the account that sends the outermost call
  Entries,            \* contracts the outermost call may target
  Values,             \* values the outermost call may transfer
  Budgets,            \* gas the outermost call may be given
  InitBalance         \* balances before the outermost call

Addresses == 0 .. AddrMod - 1
Word == 0 .. WordMod - 1
Ops == {"STOP", "ADD", "PUSH", "POP", "MSTORE", "SSTORE", "JUMP",
        "JUMPDEST", "CALL", "RETURN", "REVERT", "INVALID", "LOG0", "LOG1"}
Instr == [op : Ops, arg : Word]
Nil == <<>>                   \* a nil []byte
NoErr == "none"
Overflow == -1                \* memory size whose computation overflowed

ASSUME /\ DOMAIN Code \subseteq Addresses /\ \A a \in DOMAIN Code : Code[a] \in Seq(Instr)
       /\ Origin \in Addresses /\ Entries \subseteq Addresses
       /\ InitBalance \in [Addresses -> Nat] /\ Budgets \subseteq Nat \ {0}
       /\ ConfigJumpTable \in {"unset", "homestead", "byzantium"}

\* protocol_params.go
CallValueTransferGas == 9000
CallNewAccountGas == 25000
QuadCoeffDiv == 512
SstoreSetGas == 20000
CallStipend == 2300
SstoreResetGas == 5000
SstoreClearGas == 5000
SstoreRefundGas == 15000
JumpdestGas == 1
CallGas == 40
MemoryGas == 3
LogDataGas == 8
LogGas == 375
LogTopicGas == 375

VARIABLES
  frames,       \* the active Run invocations, outermost first
  depth,        \* in.evm.depth
  returnData,   \* in.returnData
  readOnly,     \* in.readOnly (set by a static outermost call)
  callGasTemp,  \* evm.callGasTemp, written by the CALL gas function
  world,        \* the StateDB: storage, balances, existing accounts, refund, logs
  aborted,      \* in.evm.abort
  budget,       \* gas of the outermost call, 0 before it is made
  result,       \* what the outermost EVM.Call returned
  lastExit,     \* history: the step that ended the last frame, and its error
  reports       \* what cfg.Tracer.CaptureState was told during the last
                \* step, as <<depth, pc>> pairs

vars == <<frames, depth, returnData, readOnly, callGasTemp, world, aborted,
          budget, result, lastExit, reports>>

-----------------------------------------------------------------------------
(* The instruction set (jump_table.go): operands popped and pushed, the    *)
(* constant gas and the behaviour flags of each operation.                 *)
Operation(pops, push, gas, flags) ==
  [pops |-> pops, push |-> push, gas |-> gas, flags |-> flags]

Instructions ==
  ("STOP" :> Operation(0, 0, 0, {"halts"})) @@
  ("ADD" :> Operation(2, 1, 3, {})) @@
  ("PUSH" :> Operation(0, 1, 3, {})) @@
  ("POP" :> Operation(1, 0, 2, {})) @@
  ("MSTORE" :> Operation(2, 0, 3, {})) @@
  ("SSTORE" :> Operation(2, 0, 0, {"writes"})) @@
  ("JUMP" :> Operation(1, 0, 8, {"jumps"})) @@
  ("JUMPDEST" :> Operation(0, 0, JumpdestGas, {})) @@
  ("CALL" :> Operation(3, 1, 0, {"returns"})) @@
  ("RETURN" :> Operation(2, 0, 0, {"halts"})) @@
  ("REVERT" :> Operation(2, 0, 0, {"reverts", "returns"})) @@
  ("INVALID" :> Operation(0, 0, 0, {})) @@
  ("LOG0" :> Operation(2, 0, 0, {"writes"})) @@
  ("LOG1" :> Operation(3, 0, 0, {"writes"}))

\* the topics a LOG operation takes
Topics(op) == IF op = "LOG1" THEN 1 ELSE 0

\* the operations valid in each instruction set
InstructionSets ==
  [homestead |-> Ops \ {"REVERT", "INVALID"},
   byzantium |-> Ops \ {"INVALID"},
   unset     |-> {}]

\* NewInterpreter: a configured table whose STOP entry is not valid is
\* replaced by the homestead set, whatever the chain rules are
JumpTable ==
  IF "STOP" \in InstructionSets[ConfigJumpTable]
  THEN InstructionSets[ConfigJumpTable]
  ELSE InstructionSets["homestead"]

\* Stack (stack.go): the top is the last element; Back(s, 0) is the top
Back(s, n) == s[Len(s) - n]
PopN(s, n) == SubSeq(s, 1, Len(s) - n)
\* validateStack's bound on the stack before an operation runs
MaxStack(o) == StackLimit + o.pops - o.push

CodeOf(a) == IF a \in DOMAIN Code THEN Code[a] ELSE <<>>
ToAddr(w) == w % AddrMod

\* Contract.GetOp: past the end of the code the operation is STOP
OpAt(fr) ==
  IF fr.pc < Len(CodeOf(fr.addr)) THEN CodeOf(fr.addr)[fr.pc + 1]
  ELSE [op |-> "STOP", arg |-> 0]

SLoad(st, a, k) == IF k \in DOMAIN st[a] THEN st[a][k] ELSE 0
SStore(st, a, k, v) ==
  [st EXCEPT ![a] = IF v = 0 THEN [x \in DOMAIN @ \ {k} |-> @[x]]
                    ELSE (k :> v) @@ @]

-----------------------------------------------------------------------------
(* Memory sizes and gas.                                                   *)

ToWordSize(size) ==
  IF size > Uint64Max - 31 THEN Uint64Max \div 32 + 1 ELSE (size + 31) \div 32

CalcMemSize(off, len) == IF len = 0 THEN 0 ELSE off + len

\* mutant: the SafeMul overflow check dropped, the uint64 product wrapping
StepMemorySizeNoSafeMul(i, s) ==
  IF i.op \notin {"MSTORE", "RETURN", "REVERT", "LOG0", "LOG1"} THEN 0
  ELSE LET m == IF i.op = "MSTORE" THEN CalcMemSize(Back(s, 0), 32)
                ELSE CalcMemSize(Back(s, 0), Back(s, 1))
       IN IF m > Uint64Max THEN Overflow
          ELSE (ToWordSize(m) * 32) % (Uint64Max + 1)

\* Run, lines 446-462: the operation's memory size, rounded up to words;
\* Overflow when bigUint64 or the SafeMul by 32 overflows
StepMemorySize(i, s) ==
  IF i.op \notin {"MSTORE", "RETURN", "REVERT", "LOG0", "LOG1"} THEN 0
  ELSE LET m == IF i.op = "MSTORE" THEN CalcMemSize(Back(s, 0), 32)
                ELSE CalcMemSize(Back(s, 0), Back(s, 1))
       IN IF m > Uint64Max \/ ToWordSize(m) * 32 > Uint64Max THEN Overflow
          ELSE ToWordSize(m) * 32

\* spec 4.2: the fee of a memory of `words` words, charged incrementally
MemoryFee(words) == MemoryGas * words + (words * words) \div QuadCoeffDiv
MemoryGasCost(memWords, size) ==
  IF size \div 32 > memWords THEN MemoryFee(size \div 32) - MemoryFee(memWords)
  ELSE 0

\* gasSStore: zero to non-zero, non-zero to zero (refunded), or reset
SStoreGas(a, s) ==
  LET cur == SLoad(world.storage, a, Back(s, 0))
  IN IF cur = 0 /\ Back(s, 1) # 0 THEN SstoreSetGas
     ELSE IF cur # 0 /\ Back(s, 1) = 0 THEN SstoreClearGas
     ELSE SstoreResetGas

\* gasCall: base, new-account and value surcharges, plus the gas forwarded
\* mutant: gasCall without the value-transfer surcharge
CallGasCostNoValueGas(s) ==
  CallGas
  + (IF ToAddr(Back(s, 1)) \notin world.exists THEN CallNewAccountGas ELSE 0)
  + Back(s, 0)

CallGasCost(s) ==
  CallGas
  + (IF ToAddr(Back(s, 1)) \notin world.exists THEN CallNewAccountGas ELSE 0)
  + (IF Back(s, 2) # 0 THEN CallValueTransferGas ELSE 0)
  + Back(s, 0)

\* gasLog: the memory fee, LogGas, LogTopicGas per topic and LogDataGas per
\* byte of data; Overflow when the data size times LogDataGas overflows
LogGasCost(fr, i, m) ==
  IF Back(fr.stack, 1) * LogDataGas > Uint64Max THEN Overflow
  ELSE MemoryGasCost(fr.memWords, m) + LogGas + Topics(i.op) * LogTopicGas
       + Back(fr.stack, 1) * LogDataGas

\* operation.gasCost; Overflow when callGas finds the gas operand not a uint64
GasCost(fr, i, m) ==
  CASE i.op = "SSTORE" -> SStoreGas(fr.addr, fr.stack)
    [] i.op = "CALL"   -> IF Back(fr.stack, 0) > Uint64Max THEN Overflow
                          ELSE CallGasCost(fr.stack)
    [] i.op \in {"LOG0", "LOG1"} -> LogGasCost(fr, i, m)
    [] OTHER           -> Instructions[i.op].gas + MemoryGasCost(fr.memWords, m)

-----------------------------------------------------------------------------
(* One iteration of the Run loop.                                          *)

\* mutant: enforceRestrictions without the CALL-with-value clause
RestrictedWritesOnly(i, s) ==
  /\ IsByzantium
  /\ readOnly
  /\ "writes" \in Instructions[i.op].flags

\* enforceRestrictions (lines 342-356)
Restricted(i, s) ==
  /\ IsByzantium
  /\ readOnly
  /\ \/ "writes" \in Instructions[i.op].flags
     \/ i.op = "CALL" /\ Back(s, 2) > 0

\* the checks of lines 431-473, in the order Run makes them
StepError(fr) ==
  LET i == OpAt(fr)
      o == Instructions[i.op]
      s == fr.stack
  IN IF i.op \notin JumpTable THEN "InvalidOpcode"
     ELSE IF Len(s) < o.pops THEN "StackUnderflow"
     ELSE IF Len(s) > MaxStack(o) THEN "StackLimitReached"
     ELSE IF Restricted(i, s) THEN "WriteProtection"
     ELSE IF StepMemorySize(i, s) = Overflow THEN "GasUintOverflow"
     ELSE IF DisableGasMetering THEN NoErr
     ELSE IF GasCost(fr, i, StepMemorySize(i, s)) = Overflow
             \/ fr.gas < GasCost(fr, i, StepMemorySize(i, s)) THEN "OutOfGas"
     ELSE NoErr

\* mutant: UseGas not deducting the cost
ChargeFree(fr) ==
  LET m == StepMemorySize(OpAt(fr), fr.stack)
  IN [fr EXCEPT !.memWords = IF m \div 32 > @ THEN m \div 32 ELSE @]

\* lines 464-476: contract.UseGas(cost), then mem.Resize(memorySize)
Charge(fr) ==
  LET m == StepMemorySize(OpAt(fr), fr.stack)
  IN [fr EXCEPT
        !.gas = IF DisableGasMetering THEN @ ELSE @ - GasCost(fr, OpAt(fr), m),
        !.memWords = IF m \div 32 > @ THEN m \div 32 ELSE @]

\* mutant: opAdd without the wrap-around of U256
ExecNoWrap(i, s) ==
  CASE i.op = "ADD"      -> Append(PopN(s, 2), Back(s, 0) + Back(s, 1))
    [] i.op = "PUSH"     -> Append(s, i.arg)
    [] i.op = "POP"      -> PopN(s, 1)
    [] i.op = "MSTORE"   -> PopN(s, 2)
    [] i.op = "JUMPDEST" -> s

\* the execution functions of the operations that only touch the stack
Exec(i, s) ==
  CASE i.op = "ADD"      -> Append(PopN(s, 2), (Back(s, 0) + Back(s, 1)) % WordMod)
    [] i.op = "PUSH"     -> Append(s, i.arg)
    [] i.op = "POP"      -> PopN(s, 1)
    [] i.op = "MSTORE"   -> PopN(s, 2)
    [] i.op = "JUMPDEST" -> s

ValidJumpdest(fr, dest) ==
  dest < Len(CodeOf(fr.addr)) /\ CodeOf(fr.addr)[dest + 1].op = "JUMPDEST"

-----------------------------------------------------------------------------
(* Frames, and the two halves of a call: EVM.Call entering Run, and Run    *)
(* returning to EVM.Call and on to the caller's opCall.                    *)

\* `called` is history: the StateDB when the frame last executed a CALL
NewFrame(to, gas, snap) ==
  [addr |-> to, pc |-> 0, stack |-> <<>>, memWords |-> 0, gas |-> gas,
   snap |-> snap, lastRet |-> Nil, called |-> snap]

Current == Last(frames)
Running == frames # <<>>
Pending == result.err = "pending"

\* opCall after EVM.Call returned: push 1 on success and 0 on any error,
\* take back the gas left, pc++; lastRet records the call's output
Resumed(p, res) ==
  [p EXCEPT !.stack = Append(@, IF res.err = NoErr THEN 1 ELSE 0),
            !.gas = @ + res.gas,
            !.pc = @ + 1,
            !.lastRet = res.ret]

\* mutant: the caller's opCall not flagged `returns`
ResumeKeepReturnData(fs, res, rd) ==
  IF fs = <<>>
  THEN /\ frames' = fs
       /\ result' = res
       /\ returnData' = rd
  ELSE /\ frames' = Front(fs) \o <<Resumed(Last(fs), res)>>
       /\ UNCHANGED <<returnData, result>>

\* EVM.Call returned res: to the caller frame, whose opCall is flagged
\* `returns` so in.returnData becomes the output, or as the result of the
\* outermost call, leaving in.returnData at rd
Resume(fs, res, rd) ==
  IF fs = <<>>
  THEN /\ frames' = fs
       /\ result' = res
       /\ returnData' = rd
  ELSE /\ frames' = Front(fs) \o <<Resumed(Last(fs), res)>>
       /\ returnData' = res.ret
       /\ UNCHANGED result

\* EVM.Call's depth guard: a call is refused once CallCreateDepth frames run
CanEnter == depth < CallCreateDepth

Call(fs, caller, to, value, gas) ==
  LET moved == [world EXCEPT
                  !.exists = @ \cup {to},
                  !.balance = [@ EXCEPT ![caller] = @ - value, ![to] = @ + value]]
  IN \/ /\ ~CanEnter
        /\ Resume(fs, [ret |-> Nil, gas |-> gas, err |-> "Depth"], returnData)
        /\ UNCHANGED <<world, depth, lastExit>>
     \/ /\ CanEnter
        /\ world.balance[caller] < value
        /\ Resume(fs, [ret |-> Nil, gas |-> gas, err |-> "InsufficientBalance"],
                  returnData)
        /\ UNCHANGED <<world, depth, lastExit>>
     \/ /\ CanEnter
        /\ world.balance[caller] >= value
        /\ CodeOf(to) = <<>>
        /\ world' = moved
        /\ Resume(fs, [ret |-> Nil, gas |-> gas, err |-> NoErr], Nil)
        /\ UNCHANGED <<depth, lastExit>>
     \/ /\ CanEnter
        /\ world.balance[caller] >= value
        /\ CodeOf(to) # <<>>
        /\ world' = moved
        /\ depth' = depth + 1
        /\ returnData' = Nil
        /\ frames' = fs \o <<NewFrame(to, gas, world)>>
        /\ UNCHANGED <<result, lastExit>>

\* EVM.Call: RevertToSnapshot on any error of Run, a revert included
RevertTo(fr, err) == IF err = NoErr THEN world ELSE fr.snap

\* Run returns (ret, err): the deferred depth--; EVM.Call reverts to its
\* snapshot on any error and burns the frame's gas on any error but a
\* revert; then the caller resumes.  `cause` names the ending step.
Return(fr, ret, err, rd, cause) ==
  LET left == IF err \in {NoErr, "ExecutionReverted"} THEN fr.gas ELSE 0
  IN /\ depth' = depth - 1
     /\ world' = RevertTo(fr, err)
     /\ lastExit' = [cause |-> cause, err |-> err]
     /\ Resume(Front(frames), [ret |-> ret, gas |-> left, err |-> err], rd)

\* lines 417-424 and 478-481: with Debug, the loop reports the current
\* step (pcCopy, in.evm.depth) once it passed every check and was charged,
\* and sets logged
Capture(tr) == IF Debug THEN Append(tr, <<depth, Current.pc>>) ELSE tr

\* lines 396-400: Run's deferred CaptureState reports the step of the last
\* iteration when Run returns an error and that step was not logged
Deferred(tr, err, logged) ==
  IF Debug /\ err # NoErr /\ ~logged THEN Append(tr, <<depth, Current.pc>>) ELSE tr

-----------------------------------------------------------------------------
(* Actions.                                                                *)

\* the StateDB before the outermost call
InitWorld ==
  [storage |-> [a \in Addresses |-> <<>>],
   balance |-> InitBalance,
   exists  |-> DOMAIN Code \cup {Origin},
   refund  |-> 0,
   logs    |-> <<>>]

Init ==
  /\ frames = <<>>
  /\ depth = 0
  /\ returnData = Nil
  /\ readOnly \in BOOLEAN
  /\ callGasTemp = 0
  /\ world = InitWorld
  /\ aborted = FALSE
  /\ budget = 0
  /\ result = [ret |-> Nil, gas |-> 0, err |-> "pending"]
  /\ lastExit = [cause |-> "none", err |-> NoErr]
  /\ reports = <<>>

\* the block processor's outermost EVM.Call (or StaticCall, carrying no value)
Start ==
  /\ budget = 0
  /\ \E to \in Entries, v \in (IF readOnly THEN {0} ELSE Values), g \in Budgets :
       /\ budget' = g
       /\ Call(<<>>, Origin, to, v, g)
  /\ UNCHANGED <<readOnly, callGasTemp, aborted, reports>>

\* a step of the current frame that passed every check of the loop
Ready == Running /\ ~aborted /\ StepError(Current) = NoErr

\* ADD, PUSH, POP, MSTORE, JUMPDEST: execute, then pc++
StepLocal ==
  /\ Ready
  /\ OpAt(Current).op \in {"ADD", "PUSH", "POP", "MSTORE", "JUMPDEST"}
  /\ LET fr == Charge(Current)
     IN frames' = Front(frames) \o
                  <<[fr EXCEPT !.stack = Exec(OpAt(Current), @), !.pc = @ + 1]>>
  /\ reports' = Capture(<<>>)
  /\ UNCHANGED <<depth, returnData, readOnly, callGasTemp, world, aborted,
                 budget, result, lastExit>>

\* SSTORE: gasSStore adds the refund of a clear, then opSstore writes
StepSStore ==
  /\ Ready
  /\ OpAt(Current).op = "SSTORE"
  /\ LET fr == Charge(Current)
         s == fr.stack
         cleared == SLoad(world.storage, fr.addr, Back(s, 0)) # 0 /\ Back(s, 1) = 0
     IN /\ frames' = Front(frames) \o <<[fr EXCEPT !.stack = PopN(@, 2), !.pc = @ + 1]>>
        /\ world' = [world EXCEPT
                       !.storage = SStore(@, fr.addr, Back(s, 0), Back(s, 1)),
                       !.refund = @ + (IF cleared THEN SstoreRefundGas ELSE 0)]
  /\ reports' = Capture(<<>>)
  /\ UNCHANGED <<depth, returnData, readOnly, callGasTemp, aborted, budget,
                 result, lastExit>>

\* LOG0, LOG1: opLog adds a log of the frame's address to the StateDB, so
\* that a revert to an earlier snapshot drops it
StepLog ==
  /\ Ready
  /\ OpAt(Current).op \in {"LOG0", "LOG1"}
  /\ LET fr == Charge(Current)
         n == Topics(OpAt(Current).op)
     IN /\ frames' = Front(frames) \o
                     <<[fr EXCEPT !.stack = PopN(@, 2 + n), !.pc = @ + 1]>>
        /\ world' = [world EXCEPT !.logs = Append(@, fr.addr)]
  /\ reports' = Capture(<<>>)
  /\ UNCHANGED <<depth, returnData, readOnly, callGasTemp, aborted, budget,
                 result, lastExit>>

\* JUMP (flagged `jumps`, so Run leaves pc to it) to a JUMPDEST
StepJump ==
  /\ Ready
  /\ OpAt(Current).op = "JUMP"
  /\ LET fr == Charge(Current)
     IN /\ ValidJumpdest(fr, Back(fr.stack, 0))
        /\ frames' = Front(frames) \o
                     <<[fr EXCEPT !.stack = PopN(@, 1), !.pc = Back(fr.stack, 0)]>>
  /\ reports' = Capture(<<>>)
  /\ UNCHANGED <<depth, returnData, readOnly, callGasTemp, world, aborted,
                 budget, result, lastExit>>

\* mutant: logged not set after the loop's CaptureState
StepBadJumpUnlogged ==
  /\ Ready
  /\ OpAt(Current).op = "JUMP"
  /\ LET fr == Charge(Current)
     IN /\ ~ValidJumpdest(fr, Back(fr.stack, 0))
        /\ Return(fr, Nil, "InvalidJump", returnData, "JUMP")
  /\ reports' = Deferred(Capture(<<>>), "InvalidJump", FALSE)
  /\ UNCHANGED <<readOnly, callGasTemp, aborted, budget>>

\* JUMP to anything else: opJump's errInvalidJump ends the frame; the step
\* was reported before it executed, so the deferred capture stays silent
StepBadJump ==
  /\ Ready
  /\ OpAt(Current).op = "JUMP"
  /\ LET fr == Charge(Current)
     IN /\ ~ValidJumpdest(fr, Back(fr.stack, 0))
        /\ Return(fr, Nil, "InvalidJump", returnData, "JUMP")
  /\ reports' = Deferred(Capture(<<>>), "InvalidJump", TRUE)
  /\ UNCHANGED <<readOnly, callGasTemp, aborted, budget>>

\* STOP, RETURN (halts) and REVERT (reverts, returns): lines 490-507
StepHalt ==
  /\ Ready
  /\ OpAt(Current).op \in {"STOP", "RETURN", "REVERT"}
  /\ LET i == OpAt(Current)
         fr == Charge(Current)
         out == IF i.op = "STOP" THEN Nil ELSE <<Back(fr.stack, 0), Back(fr.stack, 1)>>
         flags == Instructions[i.op].flags
     IN Return(fr, out,
               IF "reverts" \in flags THEN "ExecutionReverted" ELSE NoErr,
               IF "returns" \in flags THEN out ELSE returnData,
               i.op)
  /\ reports' = Deferred(Capture(<<>>),
                       IF OpAt(Current).op = "REVERT" THEN "ExecutionReverted" ELSE NoErr,
                       TRUE)
  /\ UNCHANGED <<readOnly, callGasTemp, aborted, budget>>

\* CALL: gasCall sets evm.callGasTemp; opCall pops its operands, adds the
\* stipend to a value transfer and makes the EVM.Call
StepCall ==
  /\ Ready
  /\ OpAt(Current).op = "CALL"
  /\ LET fr == Charge(Current)
         s == fr.stack
         temp == IF DisableGasMetering THEN callGasTemp ELSE Back(s, 0)
     IN /\ callGasTemp' = temp
        /\ Call(Front(frames) \o <<[fr EXCEPT !.stack = PopN(@, 3), !.called = world]>>,
                fr.addr, ToAddr(Back(s, 1)), Back(s, 2),
                temp + (IF Back(s, 2) # 0 THEN CallStipend ELSE 0))
  /\ reports' = Capture(<<>>)
  /\ UNCHANGED <<readOnly, aborted, budget>>

\* a failed check of the loop ends the frame with its error (lines 431-473)
Fault ==
  /\ Running
  /\ ~aborted
  /\ StepError(Current) # NoErr
  /\ Return(Current, Nil, StepError(Current), returnData, OpAt(Current).op)
  /\ reports' = Deferred(<<>>, StepError(Current), FALSE)
  /\ UNCHANGED <<readOnly, callGasTemp, aborted, budget>>

\* EVM.Cancel from another goroutine, e.g. an RPC timeout
Cancel ==
  /\ Running
  /\ ~aborted
  /\ aborted' = TRUE
  /\ UNCHANGED <<frames, depth, returnData, readOnly, callGasTemp, world,
                 budget, result, lastExit, reports>>

\* the loop condition of line 411 fails: Run returns nil, nil (line 514)
AbortExit ==
  /\ Running
  /\ aborted
  /\ Return(Current, Nil, NoErr, returnData, "abort")
  /\ reports' = Deferred(<<>>, NoErr, TRUE)
  /\ UNCHANGED <<readOnly, callGasTemp, aborted, budget>>

\* the outermost call has returned: nothing more happens
Done ==
  /\ ~Pending
  /\ UNCHANGED vars

Step == StepLocal \/ StepSStore \/ StepLog \/ StepJump \/ StepBadJump \/ StepHalt
        \/ StepCall \/ Fault \/ AbortExit

Next == Start \/ Step \/ Cancel \/ Done

\* Run is a loop on one goroutine: while a frame is active it keeps taking
\* steps; the cancellation is external and never assumed to happen
Spec == Init /\ [][Next]_vars /\ WF_vars(Start \/ Step)
-----------------------------------------------------------------------------
(* Properties.                                                             *)

Output == {Nil} \cup (Word \X Word)
Errors == {NoErr, "pending", "InvalidOpcode", "StackUnderflow", "StackLimitReached",
           "WriteProtection", "GasUintOverflow", "OutOfGas", "InvalidJump",
           "ExecutionReverted", "Depth", "InsufficientBalance"}

TypeOK ==
  /\ \A k \in DOMAIN frames :
       /\ frames[k].addr \in Addresses
       /\ frames[k].pc \in Nat
       /\ frames[k].stack \in Seq(Word)
       /\ frames[k].memWords \in Nat
       /\ frames[k].gas \in Nat
       /\ frames[k].lastRet \in Output
  /\ depth \in Nat
  /\ returnData \in Output
  /\ readOnly \in BOOLEAN
  /\ aborted \in BOOLEAN
  /\ world.balance \in [Addresses -> Nat]
  /\ world.logs \in Seq(Addresses)
  /\ result.err \in Errors /\ result.ret \in Output /\ result.gas \in Nat
  /\ reports \in Seq(Nat \X Nat)

\* in read-only mode after Byzantium (enforceRestrictions), no step changes
\* any storage slot, balance or log: no SSTORE, no LOG, no CALL moving value
StaticCallNoStateChange ==
  [][readOnly /\ IsByzantium =>
       /\ world'.storage = world.storage
       /\ world'.balance = world.balance
       /\ world'.logs = world.logs]_vars

GasNotCreated ==
  FoldLeft(LAMBDA acc, f : acc + f.gas, 0, frames) + result.gas <= budget

\* in.returnData is one field shared by all frames: Run of a callee clears
\* it and the callee's own calls overwrite it, yet the caller always finds
\* there the output of its own last completed call (nil before any)
ReturnDataOfLastCall ==
  Running => returnData = Current.lastRet

\* Run sizes memory before an operation executes (lines 446-476): across
\* the bigUint64 and SafeMul overflow checks, the gas charged for growth
\* and Resize, an MSTORE that executes finds memory holding the 32 bytes
\* it writes, at every offset a contract may push
MemoryCoversStore ==
  [][StepLocal /\ OpAt(Current).op = "MSTORE" =>
       Last(frames').memWords * 32 >= Back(Current.stack, 0) + 32]_vars

\* with a tracer attached, every instruction Run processes is reported
\* exactly once, at its own depth and pc: by the loop's CaptureState once it
\* passed the checks (even when it then fails, as a bad JUMP does), or by
\* the deferred CaptureState when a check of lines 431-473 ends the frame;
\* an abort and the frames' returns report nothing
TracedOnce ==
  [][Running /\ ~aborted /\ frames' # frames =>
       reports' = <<<<depth, Current.pc>>>>]_vars

\* gas metering bounds every execution: the outermost call returns
Termination == <>(~Pending)

\* spec section 8, revert round-trip: under Byzantium rules a REVERT ends
\* its frame as a revert; it is never rejected as an invalid opcode
RevertRoundTrip ==
  IsByzantium /\ lastExit.cause = "REVERT" => lastExit.err # "InvalidOpcode"
====
