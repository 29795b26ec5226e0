---------------------------- MODULE StorageRange ----------------------------
(***************************************************************************)
(* debug_storageRangeAt of eth/api.go (lines 568-610): one page of a       *)
(* contract's storage trie, read from the key `start` on, with the key at  *)
(* which a client continues ("NextKey").  A client downloads the whole     *)
(* storage by calling it again from each NextKey until NextKey is nil.     *)
(*                                                                         *)
(* The trie iterator is a position in the sorted sequence of the trie's    *)
(* (hashed) keys; NodeIterator(start) positions it before the first key    *)
(* not below start, and it.Next() advances it and reports whether a key    *)
(* was there.  Values and preimages are left out: no property is about     *)
(* them.  The state the pages are read from is fixed by (blockHash,        *)
(* txIndex), so it does not change between the client's calls.            *)
(***************************************************************************)
EXTENDS Integers, SequencesExt

CONSTANTS
  KeySpace,     \* hashed storage keys, ordered as the trie orders them
  MaxResults,   \* values the client passes as maxResult
  None,         \* a nil NextKey
  MaxFetches    \* bound on the client's calls

VARIABLES
  keys,      \* the keys of the contract's storage trie
  exists,    \* statedb.StorageTrie(contractAddress) # nil
  origin,    \* the keyStart of the client's first call
  maxResult, \* the client's page size
  cursor,    \* where the next call starts, None when downloading ended
  got,       \* the keys received so far, in order
  status,    \* "paging", "done" or "error"
  fetches    \* calls made so far

vars == <<keys, exists, origin, maxResult, cursor, got, status, fetches>>

\* the keys NodeIterator(start) visits, in order
Visit(start) == SelectSeq(SetToSortSeq(keys, <), LAMBDA k : k >= start)

\* mutant: `it.Next() && i < maxResult`, which consumes one key too many
RECURSIVE RangeLoopNextFirst(_, _, _, _, _)
RangeLoopNextFirst(s, pos, i, max, page) ==
  IF pos <= Len(s)
  THEN IF i < max THEN RangeLoopNextFirst(s, pos + 1, i + 1, max, Append(page, s[pos]))
       ELSE [page |-> page, pos |-> pos + 1]
  ELSE [page |-> page, pos |-> pos]

\* `for i := 0; i < maxResult && it.Next(); i++`: the bound is tested
\* first, so the iterator is not advanced once the page is full.  pos is
\* the position of the key the next it.Next() yields.
RECURSIVE RangeLoop(_, _, _, _, _)
RangeLoop(s, pos, i, max, page) ==
  IF i < max /\ pos <= Len(s)
  THEN RangeLoop(s, pos + 1, i + 1, max, Append(page, s[pos]))
  ELSE [page |-> page, pos |-> pos]

\* mutant: NextKey taken as the last key stored rather than the next one
StorageRangeLastKey(start, max) ==
  LET s == Visit(start)
      r == RangeLoop(s, 1, 0, max, <<>>)
  IN [storage |-> r.page,
      nextKey |-> IF r.pos <= Len(s) THEN s[r.pos - 1] ELSE None]

\* storageRangeAt: the page, then one more it.Next() for NextKey
StorageRange(start, max) ==
  LET s == Visit(start)
      r == RangeLoop(s, 1, 0, max, <<>>)
  IN [storage |-> r.page,
      nextKey |-> IF r.pos <= Len(s) THEN s[r.pos] ELSE None]

Init ==
  /\ keys \in SUBSET KeySpace
  /\ exists \in BOOLEAN
  /\ origin \in KeySpace
  /\ maxResult \in MaxResults
  /\ cursor = origin
  /\ got = <<>>
  /\ status = "paging"
  /\ fetches = 0

\* StorageRangeAt (lines 581-591) from the cursor: an error when the
\* account has no storage trie, else one page and its NextKey
Fetch ==
  /\ status = "paging"
  /\ fetches < MaxFetches
  /\ fetches' = fetches + 1
  /\ IF ~exists
     THEN /\ status' = "error"
          /\ UNCHANGED <<cursor, got>>
     ELSE LET r == StorageRange(cursor, maxResult)
          IN /\ got' = got \o r.storage
             /\ cursor' = r.nextKey
             /\ status' = IF r.nextKey = None THEN "done" ELSE "paging"
  /\ UNCHANGED <<keys, exists, origin, maxResult>>

\* the client stops: downloading ended, or it made MaxFetches calls
Finished == (status # "paging" \/ fetches = MaxFetches) /\ UNCHANGED vars

Next == Fetch \/ Finished

Spec == Init /\ [][Next]_vars /\ WF_vars(Fetch)
-----------------------------------------------------------------------------

TypeOK ==
  /\ keys \subseteq KeySpace
  /\ cursor \in KeySpace \cup {None}
  /\ got \in Seq(KeySpace)
  /\ status \in {"paging", "done", "error"}

\* paging from keyStart through every NextKey returns each key of the
\* trie from keyStart on exactly once and in order: the page loop does
\* not drop the key at which a full page stops, and NextKey does not
\* repeat the page's last key
PagesCoverRange ==
  status = "done" => got = Visit(origin)

\* a client following NextKey reaches the end of the storage within
\* MaxFetches calls (one per key suffices for the positive page sizes
\* it passes)
DownloadEnds == <>(status # "paging")
=============================================================================
