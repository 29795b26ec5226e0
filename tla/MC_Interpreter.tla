--------------------------- MODULE MC_Interpreter ---------------------------
(***************************************************************************)
(* Contracts and bounds for checking Interpreter.  Account 0 is the        *)
(* sender, 1-12 hold code, 13-15 are empty.  Words are 20 bits wide and     *)
(* uint64 is 16 bits, so that gas amounts fit in a uint64 but a memory     *)
(* offset can still overflow it.                                           *)
(***************************************************************************)
EXTENDS Interpreter

P(v) == [op |-> "PUSH", arg |-> v]
I(o) == [op |-> o, arg |-> 0]

\* A: sends 1 wei and 30000 gas to B, then sets slot 1, logs a word of
\* memory, returns
ContractA ==
  <<P(1), P(2), P(30000), I("CALL"),
    P(5), P(1), I("SSTORE"),
    P(32), P(0), I("LOG0"),
    P(0), P(0), I("RETURN")>>

\* B: sets slot 2, logs with one topic, sends 1 wei and 100 gas to C,
\* returns one word of memory
ContractB ==
  <<P(7), P(2), I("SSTORE"),
    P(1), P(0), P(0), I("LOG1"),
    P(1), P(3), P(100), I("CALL"), I("POP"),
    P(32), P(0), I("RETURN")>>

\* C: calls A back (refused at the depth limit), then loops until out of gas
ContractC ==
  <<P(0), P(1), P(10), I("CALL"), I("POP"),
    I("JUMPDEST"), P(5), I("JUMP")>>

\* D: an unaffordable value transfer, a call to the code-less sender, a
\* call into A, then a revert of it all
ContractD ==
  <<P(5), P(2), P(0), I("CALL"), I("POP"),
    P(0), P(0), P(0), I("CALL"), I("POP"),
    P(0), P(1), P(60000), I("CALL"),
    P(32), P(0), I("REVERT")>>

\* E: an ADD that wraps, a store to memory, a log, a POP of an empty stack
ContractE ==
  <<P(1048575), P(1), I("ADD"), P(0), I("MSTORE"),
    P(0), P(0), I("LOG0"), I("POP")>>

\* F: a store at an offset whose memory size overflows uint64
ContractF == <<P(1), P(65535), I("MSTORE")>>

\* K: a store at an offset that fits a uint64 but whose size in words,
\* times 32, does not
ContractK == <<P(1), P(65490), I("MSTORE")>>

\* G: one push more than the stack holds
ContractG == <<P(1), P(1), P(1), P(1)>>

\* H: a jump to an instruction that is no JUMPDEST
ContractH == <<P(2), I("JUMP"), I("INVALID")>>

\* J: an opcode of no instruction set
ContractJ == <<I("INVALID")>>

\* L: calls M with 50000 gas
ContractL == <<P(0), P(12), P(50000), I("CALL"), I("STOP")>>

\* M: sets slot 1, logs, then reverts
ContractM == <<P(3), P(1), I("SSTORE"), P(0), P(0), I("LOG0"), P(0), P(0), I("REVERT")>>

MCCode ==
  (1 :> ContractA) @@ (2 :> ContractB) @@ (3 :> ContractC) @@ (4 :> ContractD)
  @@ (5 :> ContractE) @@ (6 :> ContractF) @@ (7 :> ContractG)
  @@ (8 :> ContractH) @@ (9 :> ContractJ) @@ (10 :> ContractK)
  @@ (11 :> ContractL) @@ (12 :> ContractM)

MCBalance == [a \in 0 .. 15 |-> IF a \in {0, 1} THEN 1 ELSE 0]
====
