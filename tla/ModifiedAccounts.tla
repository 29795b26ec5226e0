-------------------------- MODULE ModifiedAccounts --------------------------
(***************************************************************************)
(* debug_getModifiedAccountsByNumber / ByHash of eth/api.go (lines         *)
(* 612-692): the accounts whose state differs between two blocks.  The     *)
(* chain is a sequence of blocks 0 .. Head, each with the state of every   *)
(* account after it (Absent when the account does not exist).  A block's  *)
(* hash is modelled by its number; UnknownHash is a hash of no block, and  *)
(* the genesis block's parent hash is one too.                             *)
(*                                                                         *)
(* trie.NewDifferenceIterator(old, new) yields the leaves of the new trie  *)
(* that the old trie does not hold with the same value; an account's leaf *)
(* is found under its hash and mapped back through the preimage store.    *)
(***************************************************************************)
EXTENDS Integers

CONSTANTS
  Accounts,     \* account addresses
  Values,       \* account states (nonce, balance, code and storage hash)
  Absent,       \* the account does not exist
  Head,         \* number of the current block
  UnknownHash,  \* a hash no block has
  NoNumber,     \* a nil endNum / endHash
  NoPreimage    \* accounts whose preimage is missing from the database

Blocks == 0 .. Head

VARIABLES
  state,    \* state[n][a]: account a after block n
  result    \* what the RPC returned

vars == <<state, result>>

None == [ok |-> FALSE, err |-> "none", accounts |-> {}, from |-> 0, to |-> 0]
Err(e) == [None EXCEPT !.err = e]

Init ==
  /\ state \in [Blocks -> [Accounts -> Values \cup {Absent}]]
  /\ result = None

\* GetBlockByNumber / GetBlockByHash: nil unless the block exists
Lookup(n) == IF n \in Blocks THEN n ELSE UnknownHash
ParentOf(b) == IF b = 0 THEN UnknownHash ELSE b - 1

\* NewDifferenceIterator over the two account tries
Diff(old, new) ==
  {a \in Accounts : new[a] # Absent /\ new[a] # old[a]}

\* getModifiedAccounts (lines 667-692): heights checked, then every key
\* the difference iterator yields is mapped to its preimage, and a key
\* without one fails the call
Modified(s, e) ==
  IF s >= e THEN Err("height")
  ELSE LET dirty == Diff(state[s], state[e])
       IN IF dirty \cap NoPreimage # {} THEN Err("preimage")
          ELSE [ok |-> TRUE, err |-> "none", accounts |-> dirty, from |-> s, to |-> e]

\* the range of both RPCs (lines 617-665): with one argument, the block
\* against its parent; an unknown start, end or parent fails the call
Range(start, end) ==
  IF Lookup(start) = UnknownHash THEN Err("start")
  ELSE IF end = NoNumber
       THEN IF ParentOf(start) = UnknownHash THEN Err("parent")
            ELSE Modified(ParentOf(start), start)
  ELSE IF Lookup(end) = UnknownHash THEN Err("end")
  ELSE Modified(start, end)

\* GetModifiedAccountsByNumber (lines 617-638)
ByNumber ==
  /\ result = None
  /\ \E start \in Blocks \cup {Head + 1}, end \in Blocks \cup {Head + 1, NoNumber} :
       result' = Range(start, end)
  /\ UNCHANGED state

\* GetModifiedAccountsByHash (lines 645-665)
ByHash ==
  /\ result = None
  /\ \E start \in Blocks \cup {UnknownHash}, end \in Blocks \cup {UnknownHash, NoNumber} :
       result' = Range(start, end)
  /\ UNCHANGED state

Answered == result # None /\ UNCHANGED vars

Next == ByNumber \/ ByHash \/ Answered

Spec == Init /\ [][Next]_vars
-----------------------------------------------------------------------------

\* the accounts whose state differs between blocks s and e
Changed(s, e) == {a \in Accounts : state[s][a] # state[e][a]}

\* the doc comment of both RPCs (lines 612-615, 640-643): an ok answer
\* lists all accounts that have changed between the two blocks, a change
\* being a difference in nonce, balance, code hash or storage hash; an
\* account that existed in the older block and was deleted by the newer
\* one has changed as well
ReportsAllChanges ==
  result.ok => result.accounts = Changed(result.from, result.to)
=============================================================================
