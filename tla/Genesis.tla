------------------------------ MODULE Genesis ------------------------------
(***************************************************************************)
(* The genesis wizard of cmd/geth/consolecmd.go: makeGenesis (lines        *)
(* 219-270) builds a genesis from the answers typed at the terminal and    *)
(* stores it in w.conf.genesis; manageGenesis (lines 272-320) edits its    *)
(* fork schedule or exports it.  The wizard runs on one goroutine, so each *)
(* function is one atomic step whose inputs are the lines the user types.  *)
(*                                                                         *)
(* Addresses are numbers; those below Precompiles (256 in the code) are    *)
(* the ones the precompile loop funds.  A balance is PreFund (2^256/128)   *)
(* or 1.  The extra data is kept as its length in bytes.                   *)
(***************************************************************************)
EXTENDS Integers, FiniteSets

CONSTANTS
  Precompiles,    \* the precompile loop's bound
  AddrInputs,     \* addresses the user may enter
  PreFund,        \* new(big.Int).Lsh(1, 256-7)
  ChainIds,       \* chain ids readDefaultInt may return
  ExtraLens,      \* lengths of the line typed for the extra data
  ForkInputs,     \* block numbers readDefaultBigInt may return
  Default,        \* an empty answer: readDefaultBigInt keeps the default
  NoGenesis,      \* a nil w.conf.genesis
  NoFile,         \* no genesis file written yet
  MaxSteps        \* bound on the wizard commands issued

VARIABLES
  conf,      \* w.conf.genesis
  file,      \* the JSON last written by manageGenesis
  crashed,   \* "no", or the panic that ended the wizard
  steps      \* commands issued so far

vars == <<conf, file, crashed, steps>>

\* the fork schedule of the default ChainConfig (lines 227-233)
DefaultForks == [homestead |-> 1, eip150 |-> 2, eip155 |-> 3, eip158 |-> 3, byzantium |-> 4]

Init ==
  /\ conf = NoGenesis
  /\ file = NoFile
  /\ crashed = "no"
  /\ steps = 0

Command == crashed = "no" /\ steps < MaxSteps /\ steps' = steps + 1

\* lines 238-251: every address read gets the pre-fund balance, then the
\* precompile loop sets the balance of addresses 0 .. 255 to 1
GenesisAlloc(users) ==
  [a \in users \cup (0 .. Precompiles - 1) |->
     IF a \in 0 .. Precompiles - 1 THEN 1 ELSE PreFund]

\* line 266: append([]byte(extra), ExtraData[len(extra):]...) on the
\* default genesis, whose ExtraData is nil; the result's length, or -1
\* for the slice-bounds panic when len(extra) exceeds len(ExtraData)
ExtraSplice(n, dataLen) ==
  IF n > dataLen THEN -1 ELSE dataLen

\* makeGenesis, lines 220-270: read the pre-funded addresses until an
\* empty line, fund the precompiles, read the chain id and the extra data
\* (cut to 32 bytes), then store the genesis
MakeGenesis ==
  /\ Command
  /\ \E users \in SUBSET AddrInputs, id \in ChainIds, len \in ExtraLens :
       LET extra == IF len > 32 THEN 32 ELSE len
           data == ExtraSplice(extra, 0)
       IN IF data < 0
          THEN /\ crashed' = "extra"
               /\ UNCHANGED conf
          ELSE /\ conf' = [alloc |-> GenesisAlloc(users), chainId |-> id,
                           extra |-> data, forks |-> DefaultForks]
               /\ UNCHANGED crashed
  /\ UNCHANGED file

\* manageGenesis choice "1", lines 282-305: each fork block is read with
\* its current value as the default; a nil genesis is dereferenced
ModifyForks ==
  /\ Command
  /\ IF conf = NoGenesis
     THEN /\ crashed' = "nil"
          /\ UNCHANGED conf
     ELSE /\ \E f \in [DOMAIN DefaultForks -> ForkInputs \cup {Default}] :
               conf' = [conf EXCEPT !.forks =
                          [k \in DOMAIN DefaultForks |->
                             IF f[k] = Default THEN conf.forks[k] ELSE f[k]]]
          /\ UNCHANGED crashed
  /\ UNCHANGED file

\* manageGenesis choice "2", lines 307-315: marshal w.conf.genesis (a nil
\* one marshals as null) and write it; a failed write is only logged
ExportGenesis ==
  /\ Command
  /\ \E written \in BOOLEAN : file' = IF written THEN conf ELSE file
  /\ UNCHANGED <<conf, crashed>>

\* manageGenesis, any other choice (lines 317-318): an error is logged
OtherChoice ==
  /\ Command
  /\ UNCHANGED <<conf, file, crashed>>

\* the wizard exited, or stopped after MaxSteps commands
Done == (crashed # "no" \/ steps = MaxSteps) /\ UNCHANGED vars

Next == MakeGenesis \/ ModifyForks \/ ExportGenesis \/ OtherChoice \/ Done

Spec == Init /\ [][Next]_vars
-----------------------------------------------------------------------------

\* the prompt "max 32 bytes" of line 260: any extra data of up to 32
\* bytes is embedded, so makeGenesis returns for every answer
MakeGenesisReturns == crashed # "extra"
=============================================================================
