--------------------------- MODULE BoundTransact ---------------------------
(***************************************************************************)
(* The transacting half of the contract bindings (package bind, kept in    *)
(* swarm/dev/Makefile): Transact (lines 219-305), TryTransact (307-349)    *)
(* and Transfer (351-366) choose a transaction type from the contract's    *)
(* type and the method, transact (545-562) dispatches on it, and           *)
(* normalTransact, baseTransact and assginTransact (368-543) read the      *)
(* account's nonce from the pool, sign and send.  Several goroutines of    *)
(* the node call them for the node's own account (opts.From = Me); the     *)
(* nonce read and the send are separate calls into the pool, so the calls  *)
(* of different goroutines interleave between them.                        *)
(*                                                                         *)
(* The protocol package is not under src/: its TxType values are model     *)
(* values, and BaseRange stands for SetValidator .. AssignToken.  The pool *)
(* (SendTransaction) accepts a transaction whose nonce the account has not *)
(* used and rejects a second one with the same nonce.                      *)
(***************************************************************************)
EXTENDS Integers, FiniteSets

CONSTANTS
  Callers,     \* goroutines calling the binding
  Methods,     \* method names passed to Transact
  BaseRange,   \* the TxTypes transact sends through baseTransact
  TxTypes,     \* every protocol.TxType, Binary included
  Me, Other,   \* the node's account and another one
  NoNonce,     \* a nil opts.Nonce
  MaxCalls     \* bound on the calls made

\* the type Transact gives a PersonalContract's methods (lines 251-259)
PersonalType == [register |-> "RegisterCandidate", vote |-> "VoteUser",
                 cancel |-> "VoteCancel", fire |-> "UserEvent"]

VARIABLES
  node,       \* GethNode != nil
  producer,   \* the current token noder of the dpos context
  pool,       \* the transactions the pool holds: [nonce, type, by]
  pc,         \* per caller: "idle", "nonce", "send" or "crashed"
  txType,     \* per caller: the type being sent
  nonce,      \* per caller: the nonce being signed
  ret,        \* per caller: what its last call returned
  deploy,     \* per caller: the call is DeployContract
  created,    \* per caller: the address DeployContract returned, as the
              \* nonce CreateAddress(opts.From, nonce) derives it from
  calls       \* calls made so far

vars == <<node, producer, pool, pc, txType, nonce, ret, deploy, created, calls>>

Init ==
  /\ node \in BOOLEAN
  /\ producer \in {Me, Other}
  /\ pool = {}
  /\ pc = [c \in Callers |-> "idle"]
  /\ txType = [c \in Callers |-> "Binary"]
  /\ nonce = [c \in Callers |-> NoNonce]
  /\ ret = [c \in Callers |-> "none"]
  /\ deploy = [c \in Callers |-> FALSE]
  /\ created = [c \in Callers |-> NoNonce]
  /\ calls = 0

Crashed == \E c \in Callers : pc[c] = "crashed"

Issue(c) == ~Crashed /\ pc[c] = "idle" /\ calls < MaxCalls /\ calls' = calls + 1

\* transact, lines 545-562: Binary through normalTransact, the base range
\* through baseTransact, anything else an error
Dispatch(t) ==
  IF t = "Binary" THEN "normal" ELSE IF t \in BaseRange THEN "base" ELSE "error"

\* start sending type t along path p (normalTransact, baseTransact or
\* assginTransact, which differ only in the calls that may fail), or
\* return an error; d tells whether the call is DeployContract
Begin(c, p, t, d) ==
  /\ pc' = [pc EXCEPT ![c] = IF p = "error" THEN "idle" ELSE "nonce"]
  /\ txType' = [txType EXCEPT ![c] = t]
  /\ ret' = [ret EXCEPT ![c] = IF p = "error" THEN "error" ELSE "none"]
  /\ created' = [created EXCEPT ![c] = NoNonce]
  /\ deploy' = [deploy EXCEPT ![c] = d]

\* Transact, lines 226-304: with a running node, a PersonalContract's four
\* methods become base transactions, a SystemContract's AssignToken and
\* RotateVote are sent only by the current token noder; without a node
\* FireEvent is a UserEvent and everything else Binary.  Pack, Service
\* and GetContract may fail.
Transact(c) ==
  /\ Issue(c)
  /\ \E m \in Methods, ctype \in {"personal", "system", "other"}, fails \in BOOLEAN :
       LET personal == IF m \in DOMAIN PersonalType
                       THEN Dispatch(PersonalType[m]) ELSE "error"
           test == IF m = "fire" THEN "UserEvent" ELSE "Binary"
           choice ==
             CASE fails -> [p |-> "error", t |-> "Binary"]
               [] node /\ ctype = "personal" ->
                    [p |-> personal,
                     t |-> IF m \in DOMAIN PersonalType THEN PersonalType[m] ELSE "Binary"]
               [] node /\ ctype = "system" /\ m = "assign" ->
                    [p |-> IF producer = Me THEN "assign" ELSE "error", t |-> "AssignToken"]
               [] node /\ ctype = "system" /\ m = "rotate" ->
                    [p |-> IF producer = Me THEN Dispatch("VoteEpoch") ELSE "error",
                     t |-> "VoteEpoch"]
               [] node /\ ctype = "system" -> [p |-> "error", t |-> "Binary"]
               [] OTHER -> [p |-> Dispatch(test), t |-> test]
       IN Begin(c, choice.p, choice.t, FALSE)
  /\ UNCHANGED <<node, producer, pool, nonce>>

\* TryTransact, lines 311-348: only AssignToken and RotateVote, by the
\* current token noder of a running node
TryTransact(c) ==
  /\ Issue(c)
  /\ \E m \in Methods, fails \in BOOLEAN :
       LET p == CASE fails \/ ~node \/ m \notin {"assign", "rotate"} -> "error"
                  [] producer # Me -> "error"
                  [] m = "assign" -> "assign"
                  [] OTHER -> Dispatch("VoteEpoch")
       IN Begin(c, p, IF m = "assign" THEN "AssignToken" ELSE "VoteEpoch", FALSE)
  /\ UNCHANGED <<node, producer, pool, nonce>>

\* Transfer, lines 351-366: GethNode.Service is called without the nil
\* check of Transact, so a nil GethNode panics; the contract type is cast
\* to a TxType (an arbitrary one: the protocol values are not under src/)
Transfer(c) ==
  /\ Issue(c)
  /\ IF ~node
     THEN /\ pc' = [pc EXCEPT ![c] = "crashed"]
          /\ UNCHANGED <<txType, ret, deploy, created>>
     ELSE \E t \in TxTypes, fails \in BOOLEAN :
            Begin(c, IF fails THEN "error" ELSE Dispatch(t), t, FALSE)
  /\ UNCHANGED <<node, producer, pool, nonce>>

\* DeployContract, lines 81-98: abi.Pack of the constructor arguments may
\* fail; then transact of a Binary transaction to no contract (normal-
\* Transact), and the address is CreateAddress(opts.From, tx.Nonce())
DeployContract(c) ==
  /\ Issue(c)
  /\ \E fails \in BOOLEAN : Begin(c, IF fails THEN "error" ELSE Dispatch("Binary"), "Binary", TRUE)
  /\ UNCHANGED <<node, producer, pool, nonce>>

\* the pool's pending nonce of Me: the first nonce it holds no
\* transaction of Me for
PendingNonceAt == CHOOSE n \in 0 .. MaxCalls : n \notin {tx.nonce : tx \in pool}
                                               /\ \A k \in 0 .. n - 1 : k \in {tx.nonce : tx \in pool}

\* lines 378-388 / 425-435 / 472-482: opts.Nonce, or PendingNonceAt when
\* it is nil; a failing lookup returns the error
ReadNonce(c) ==
  /\ pc[c] = "nonce"
  /\ \E given \in {NoNonce} \cup (0 .. MaxCalls - 1), fails \in BOOLEAN :
       IF fails /\ given = NoNonce
       THEN /\ pc' = [pc EXCEPT ![c] = "idle"]
            /\ ret' = [ret EXCEPT ![c] = "error"]
            /\ UNCHANGED nonce
       ELSE /\ nonce' = [nonce EXCEPT ![c] = IF given = NoNonce THEN PendingNonceAt ELSE given]
            /\ pc' = [pc EXCEPT ![c] = "send"]
            /\ UNCHANGED ret
  /\ UNCHANGED <<node, producer, pool, txType, deploy, created, calls>>

Reject(c) ==
  /\ pc' = [pc EXCEPT ![c] = "idle"]
  /\ ret' = [ret EXCEPT ![c] = "error"]
  /\ UNCHANGED <<pool, created>>

\* the rest of the path, lines 486-542 / 392-414 / 438-457: for a normal
\* transaction the gas price, code and gas estimate (each may fail), then
\* the signer (a nil or failing signer is an error) and SendTransaction,
\* which the pool refuses for a nonce Me already used
Send(c) ==
  /\ pc[c] = "send"
  /\ \E fails \in BOOLEAN :
       IF fails \/ nonce[c] \in {tx.nonce : tx \in pool} THEN Reject(c)
       ELSE /\ pool' = pool \cup {[nonce |-> nonce[c], type |-> txType[c], by |-> c]}
            /\ pc' = [pc EXCEPT ![c] = "idle"]
            /\ ret' = [ret EXCEPT ![c] = "ok"]
            /\ created' = [created EXCEPT ![c] = IF deploy[c] THEN nonce[c] ELSE @]
  /\ UNCHANGED <<node, producer, txType, nonce, deploy, calls>>

\* the dpos context moves the token noder to another account, or back
Rotate ==
  /\ ~Crashed
  /\ producer' = IF producer = Me THEN Other ELSE Me
  /\ UNCHANGED <<node, pool, pc, txType, nonce, ret, deploy, created, calls>>

Quiet == \A c \in Callers : pc[c] = "idle"

\* the node stopped after a panic, or no more calls are made
Done == (Crashed \/ (Quiet /\ calls = MaxCalls)) /\ UNCHANGED vars

Next ==
  \/ \E c \in Callers : Transact(c) \/ TryTransact(c) \/ Transfer(c) \/ DeployContract(c)
                        \/ ReadNonce(c) \/ Send(c)
  \/ Rotate
  \/ Done

\* a goroutine inside a call runs it to the end
Spec == Init /\ [][Next]_vars /\ \A c \in Callers : WF_vars(ReadNonce(c) \/ Send(c))
=============================================================================
