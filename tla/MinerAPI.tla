------------------------------ MODULE MinerAPI ------------------------------
(***************************************************************************)
(* The miner-control RPCs of eth/api.go: PrivateMinerAPI.Start, Stop,      *)
(* SetExtra, SetGasPrice, SetCoinbase and SetLocalValidator (lines         *)
(* 100-175).  The RPC server runs every request on its                     *)
(* own goroutine, so several of them interleave.  Each handler is split at *)
(* the points where another goroutine can observe or change the shared     *)
(* state: e.gasPrice (guarded by e.lock), the transaction pool's price     *)
(* (txPool.SetGasPrice takes the pool's own lock, so each call is atomic), *)
(* the mining flag, the engine's thread count, the etherbase and the local *)
(* validator.  Ethereum.Coinbase (not under src/) is taken to return the   *)
(* etherbase, or an error when none is set.                                *)
(***************************************************************************)
EXTENDS Integers

CONSTANTS
  Clients,         \* concurrent RPC goroutines
  Prices,          \* gas prices SetGasPrice may be given
  InitGasPrice,    \* e.gasPrice after eth.New (config.GasPrice)
  InitPoolPrice,   \* the pool's price after core.NewTxPool (PriceLimit)
  ThreadArgs,      \* values *threads may have; NoThreads stands for nil
  NoThreads,
  NoPrice,         \* the zero value of a local *big.Int (nil)
  EngineThreaded,  \* whether api.e.engine implements SetThreads
  Accounts,        \* addresses SetCoinbase may be given
  NoAccount,       \* no etherbase set, or no local validator yet
  Extras,          \* extra-data strings SetExtra may be given
  MaxCalls         \* bound on the number of RPCs issued

VARIABLES
  gasPrice,   \* api.e.gasPrice
  poolPrice,  \* the transaction pool's minimum price
  mining,     \* api.e.IsMining()
  threads,    \* the engine's thread count
  pc,         \* per goroutine: where its handler is
  price,      \* per goroutine: the handler's local copy of a price
  etherbase,  \* api.e.etherbase
  validator,  \* the local validator set by SetLocalValidator
  extra,      \* the miner's extra data
  addr,       \* per goroutine: the coinbase SetLocalValidator read
  calls       \* RPCs issued so far

vars == <<gasPrice, poolPrice, mining, threads, pc, price, etherbase, validator, extra,
          addr, calls>>

Init ==
  /\ gasPrice = InitGasPrice
  /\ poolPrice = InitPoolPrice
  /\ mining = FALSE
  /\ threads = 0
  /\ pc = [c \in Clients |-> "idle"]
  /\ price = [c \in Clients |-> NoPrice]
  /\ etherbase \in Accounts \cup {NoAccount}
  /\ validator = NoAccount
  /\ extra = "default"
  /\ addr = [c \in Clients |-> NoAccount]
  /\ calls = 0

Issue(c) == pc[c] = "idle" /\ calls < MaxCalls /\ calls' = calls + 1

\* Start, lines 102-113: nil threads become 0, 0 becomes -1 (disable)
EngineThreads(t) == IF t = NoThreads THEN 0 ELSE IF t = 0 THEN -1 ELSE t

\* Start, lines 100-113: the engine's SetThreads
StartBegin(c) ==
  /\ Issue(c)
  /\ \E t \in ThreadArgs \cup {NoThreads} :
       threads' = IF EngineThreaded THEN EngineThreads(t) ELSE threads
  /\ pc' = [pc EXCEPT ![c] = "start_check"]
  /\ UNCHANGED <<gasPrice, poolPrice, mining, price, etherbase, validator, extra, addr>>

\* line 115: IsMining, without any lock; when mining already, return nil,
\* otherwise go on to read the price
StartCheck(c) ==
  /\ pc[c] = "start_check"
  /\ pc' = [pc EXCEPT ![c] = IF mining THEN "idle" ELSE "start_read"]
  /\ UNCHANGED <<gasPrice, poolPrice, mining, threads, price, calls, etherbase, validator,
                 extra, addr>>

\* lines 117-119: RLock, price := api.e.gasPrice, RUnlock
StartRead(c) ==
  /\ pc[c] = "start_read"
  /\ price' = [price EXCEPT ![c] = gasPrice]
  /\ pc' = [pc EXCEPT ![c] = "start_pool"]
  /\ UNCHANGED <<gasPrice, poolPrice, mining, threads, calls, etherbase, validator, extra, addr>>

\* mutant: the pool is given the local before it was read
StartPoolUnread(c) ==
  /\ pc[c] = "start_pool"
  /\ poolPrice' = NoPrice
  /\ pc' = [pc EXCEPT ![c] = "start_mine"]
  /\ UNCHANGED <<gasPrice, mining, threads, price, calls, etherbase, validator, extra, addr>>

\* line 121: api.e.txPool.SetGasPrice(price), outside e.lock
StartPool(c) ==
  /\ pc[c] = "start_pool"
  /\ poolPrice' = price[c]
  /\ pc' = [pc EXCEPT ![c] = "start_mine"]
  /\ UNCHANGED <<gasPrice, mining, threads, price, calls, etherbase, validator, extra, addr>>

\* line 122: api.e.StartMining(true)
StartMine(c) ==
  /\ pc[c] = "start_mine"
  /\ mining' = TRUE
  /\ pc' = [pc EXCEPT ![c] = "idle"]
  /\ UNCHANGED <<gasPrice, poolPrice, threads, price, calls, etherbase, validator, extra, addr>>

\* Stop, lines 128-134: the engine's SetThreads(-1)
Stop(c) ==
  /\ Issue(c)
  /\ threads' = IF EngineThreaded THEN -1 ELSE threads
  /\ pc' = [pc EXCEPT ![c] = "stop_mine"]
  /\ UNCHANGED <<gasPrice, poolPrice, mining, price, etherbase, validator, extra, addr>>

\* lines 135-136: api.e.StopMining(), then return true
StopMine(c) ==
  /\ pc[c] = "stop_mine"
  /\ mining' = FALSE
  /\ pc' = [pc EXCEPT ![c] = "idle"]
  /\ UNCHANGED <<gasPrice, poolPrice, threads, price, calls, etherbase, validator, extra, addr>>

\* SetGasPrice, lines 148-151: Lock, api.e.gasPrice = gasPrice, Unlock
SetGasPrice(c) ==
  /\ Issue(c)
  /\ \E p \in Prices :
       /\ gasPrice' = p
       /\ price' = [price EXCEPT ![c] = p]
  /\ pc' = [pc EXCEPT ![c] = "set_pool"]
  /\ UNCHANGED <<poolPrice, mining, threads, etherbase, validator, extra, addr>>

\* mutant: SetGasPrice returning without telling the pool
SetGasPricePoolSkipped(c) ==
  /\ pc[c] = "set_pool"
  /\ pc' = [pc EXCEPT ![c] = "idle"]
  /\ UNCHANGED <<gasPrice, poolPrice, mining, threads, price, calls, etherbase, validator, extra, addr>>

\* line 153: api.e.txPool.SetGasPrice(gasPrice), outside e.lock
SetGasPricePool(c) ==
  /\ pc[c] = "set_pool"
  /\ poolPrice' = price[c]
  /\ pc' = [pc EXCEPT ![c] = "idle"]
  /\ UNCHANGED <<gasPrice, mining, threads, price, calls, etherbase, validator, extra, addr>>

\* SetExtra, lines 140-145: Miner.SetExtra refuses extra data longer than
\* params.MaximumExtraDataSize, and then nothing changes
SetExtra(c) ==
  /\ Issue(c)
  /\ \E x \in Extras, ok \in BOOLEAN : extra' = IF ok THEN x ELSE extra
  /\ UNCHANGED <<gasPrice, poolPrice, mining, threads, pc, price, etherbase, validator, addr>>

\* SetCoinbase, lines 158-162
SetCoinbase(c) ==
  /\ Issue(c)
  /\ \E a \in Accounts : etherbase' = a
  /\ UNCHANGED <<gasPrice, poolPrice, mining, threads, pc, price, validator, extra, addr>>

\* SetLocalValidator, lines 165-170: read the coinbase; without one,
\* return false
SetLocalValidatorRead(c) ==
  /\ Issue(c)
  /\ addr' = [addr EXCEPT ![c] = etherbase]
  /\ pc' = [pc EXCEPT ![c] = IF etherbase = NoAccount THEN "idle" ELSE "set_validator"]
  /\ UNCHANGED <<gasPrice, poolPrice, mining, threads, price, etherbase, validator, extra>>

\* line 173: api.e.SetLocalValidator(coinbase) with the address read
SetLocalValidatorSet(c) ==
  /\ pc[c] = "set_validator"
  /\ validator' = addr[c]
  /\ pc' = [pc EXCEPT ![c] = "idle"]
  /\ UNCHANGED <<gasPrice, poolPrice, mining, threads, price, etherbase, extra, addr, calls>>

Quiescent == \A c \in Clients : pc[c] = "idle"

\* no more requests arrive once MaxCalls were issued and all returned
Done == Quiescent /\ calls = MaxCalls /\ UNCHANGED vars

Next ==
  \/ \E c \in Clients :
       \/ StartBegin(c) \/ StartCheck(c) \/ StartRead(c) \/ StartPool(c) \/ StartMine(c)
       \/ Stop(c) \/ StopMine(c) \/ SetGasPrice(c) \/ SetGasPricePool(c) \/ SetExtra(c)
       \/ SetCoinbase(c) \/ SetLocalValidatorRead(c) \/ SetLocalValidatorSet(c)
  \/ Done

\* a goroutine that began a handler runs it to the end
Spec == Init /\ [][Next]_vars
        /\ \A c \in Clients :
             WF_vars(StartCheck(c) \/ StartRead(c) \/ StartPool(c) \/ StartMine(c) \/ StopMine(c)
                     \/ SetGasPricePool(c) \/ SetLocalValidatorSet(c))
-----------------------------------------------------------------------------

TypeOK ==
  /\ gasPrice \in Prices \cup {InitGasPrice}
  /\ poolPrice \in Prices \cup {InitGasPrice, InitPoolPrice}
  /\ mining \in BOOLEAN
  /\ threads \in (ThreadArgs \ {0}) \cup {0, -1}
  /\ pc \in [Clients -> {"idle", "start_check", "start_read", "start_pool", "start_mine",
                         "stop_mine", "set_pool", "set_validator"}]
  /\ price \in [Clients -> Prices \cup {InitGasPrice, NoPrice}]
  /\ etherbase \in Accounts \cup {NoAccount}
  /\ validator \in Accounts \cup {NoAccount}
  /\ extra \in Extras \cup {"default"}
  /\ calls \in 0 .. MaxCalls

\* once no handler is running, the pool enforces the price the miner was
\* last given: after a SetGasPrice, or after Start propagated it for
\* mining, the transaction pool's price equals api.e.gasPrice
PoolPriceAgrees ==
  Quiescent /\ (mining \/ gasPrice # InitGasPrice) => poolPrice = gasPrice
=============================================================================
