---------------------------- MODULE ImportChain ----------------------------
(***************************************************************************)
(* admin_importChain of eth/api.go (PrivateAdminAPI.ImportChain and        *)
(* hasAllBlocks, lines 213-270): blocks are decoded from an RLP stream     *)
(* into a buffer of capacity Cap (2500 in the code); a full buffer, or the *)
(* end of the stream, ends a batch; a batch whose blocks the chain already *)
(* has is skipped, any other batch is given to BlockChain.InsertChain.     *)
(*                                                                         *)
(* A file is a sequence of entries: a block, or Corrupt where              *)
(* stream.Decode fails.  InsertChain (not under src/) is taken to insert   *)
(* the batch in order up to its first block that fails validation (one of *)
(* Invalid) and to report that failure.                                    *)
(*                                                                         *)
(* admin_exportChain (ExportChain, lines 192-211) may write the file       *)
(* first: another node's chain, Source, is written block by block into the *)
(* truncated file, through a gzip writer for a ".gz" name, and the import  *)
(* then reads what was written.  BlockChain.Export (not under src/) is     *)
(* taken to write the blocks in order and to stop at a failed write.       *)
(***************************************************************************)
EXTENDS Integers, SequencesExt

CONSTANTS
  Blocks,      \* block identities
  Corrupt,     \* an entry stream.Decode rejects
  Invalid,     \* blocks InsertChain rejects
  Cap,         \* cap(blocks): the batch size
  MaxLen,      \* longest file considered
  InitChains,  \* chains the import may start from
  MaxSource,   \* longest chain exported
  CloseMayFail \* whether the deferred gzip Close may fail to flush

VARIABLES
  file,    \* the entries of the input file
  chain,   \* the blocks the chain has
  blocks,  \* the batch buffer
  pos,     \* entries the stream has decoded
  index,   \* blocks decoded so far
  batch,   \* the batch counter
  phase,   \* "export", "open", "read" (inner loop), "batch" (after it), "returned"
  result,  \* what ImportChain returned
  source,  \* the chain ExportChain wrote, <<>> when the file was given
  exported \* what ExportChain returned: "none", "true" or "false"

vars == <<file, chain, blocks, pos, index, batch, phase, result, source, exported>>

Files == UNION {[1 .. n -> Blocks \cup {Corrupt}] : n \in 0 .. MaxLen}

\* the exporting node's chains: valid blocks, each once, in chain order
Sources == {s \in UNION {[1 .. n -> Blocks \ Invalid] : n \in 1 .. MaxSource} : IsInjective(s)}

Init ==
  /\ file \in Files
  /\ chain \in InitChains
  /\ blocks = <<>>
  /\ pos = 0
  /\ index = 0
  /\ batch = 0
  /\ result = [ok |-> FALSE, err |-> "none", at |-> 0]
  /\ \/ phase = "open" /\ source = <<>>
     \/ phase = "export" /\ source \in Sources
  /\ exported = "none"

\* lines 223-237: os.Open, and gzip.NewReader for a ".gz" name; either
\* may fail on a file the caller names (missing, unreadable, not gzip),
\* and the error is returned before anything is decoded.  A file
\* ExportChain has just created, with its header written, opens.
OpenFile ==
  /\ phase = "open"
  /\ \/ phase' = "read"
        /\ UNCHANGED result
     \/ source = <<>>
        /\ phase' = "returned"
        /\ result' = [ok |-> FALSE, err |-> "open", at |-> 0]
  /\ UNCHANGED <<file, chain, blocks, pos, index, batch, source, exported>>

\* mutant: hasAllBlocks returning true on the first block it has
HasAllBlocksFirstOnly(ch, bs) == Len(bs) > 0 /\ bs[1] \in ch

\* hasAllBlocks (lines 213-221)
HasAllBlocks(ch, bs) == \A i \in 1 .. Len(bs) : bs[i] \in ch

\* InsertChain: the longest prefix of the batch free of invalid blocks is
\* inserted; the call fails when that is not the whole batch
InsertedPrefix(bs) ==
  LET bad == {i \in 1 .. Len(bs) : bs[i] \in Invalid}
  IN IF bad = {} THEN bs ELSE SubSeq(bs, 1, Min(bad) - 1)

\* mutant: io.EOF treated as `continue`, so the inner loop spins
ReadBlockNoEOF ==
  /\ phase = "read"
  /\ Len(blocks) < Cap
  /\ IF pos = Len(file)
     THEN UNCHANGED <<blocks, pos, index, phase, result>>
     ELSE IF file[pos + 1] = Corrupt
     THEN /\ phase' = "returned"
          /\ result' = [ok |-> FALSE, err |-> "parse", at |-> index]
          /\ UNCHANGED <<blocks, pos, index>>
     ELSE /\ blocks' = Append(blocks, file[pos + 1])
          /\ pos' = pos + 1
          /\ index' = index + 1
          /\ UNCHANGED <<phase, result>>
  /\ UNCHANGED <<file, chain, batch, source, exported>>

\* one iteration of the inner loop (lines 245-254): decode one entry; at
\* io.EOF leave the loop, on any other error return, else buffer it
ReadBlock ==
  /\ phase = "read"
  /\ Len(blocks) < Cap
  /\ IF pos = Len(file)
     THEN /\ phase' = "batch"
          /\ UNCHANGED <<blocks, pos, index, result>>
     ELSE IF file[pos + 1] = Corrupt
     THEN /\ phase' = "returned"
          /\ result' = [ok |-> FALSE, err |-> "parse", at |-> index]
          /\ UNCHANGED <<blocks, pos, index>>
     ELSE /\ blocks' = Append(blocks, file[pos + 1])
          /\ pos' = pos + 1
          /\ index' = index + 1
          /\ UNCHANGED <<phase, result>>
  /\ UNCHANGED <<file, chain, batch, source, exported>>

\* the inner loop's condition len(blocks) < cap(blocks) fails
BatchFull ==
  /\ phase = "read"
  /\ Len(blocks) = Cap
  /\ phase' = "batch"
  /\ UNCHANGED <<file, chain, blocks, pos, index, batch, result, source, exported>>

\* mutant: `continue` skipping the batch counter
HandleBatchSkipUncounted ==
  /\ phase = "batch"
  /\ IF blocks = <<>>
     THEN /\ phase' = "returned"
          /\ result' = [ok |-> TRUE, err |-> "none", at |-> 0]
          /\ UNCHANGED <<chain, blocks, batch>>
     ELSE IF HasAllBlocks(chain, blocks)
     THEN /\ blocks' = <<>>
          /\ phase' = "read"
          /\ UNCHANGED <<chain, batch, result>>
     ELSE LET ins == InsertedPrefix(blocks)
          IN /\ chain' = chain \cup ToSet(ins)
             /\ IF ins = blocks
                THEN /\ blocks' = <<>>
                     /\ batch' = batch + 1
                     /\ phase' = "read"
                     /\ UNCHANGED result
                ELSE /\ phase' = "returned"
                     /\ result' = [ok |-> FALSE, err |-> "insert", at |-> batch]
                     /\ UNCHANGED <<blocks, batch>>
  /\ UNCHANGED <<file, pos, index, source, exported>>

\* lines 255-269: an empty buffer ends the import successfully; a batch
\* the chain has is dropped (`continue` still runs batch++); any other is
\* inserted, and an insertion error is returned with the batch number
HandleBatch ==
  /\ phase = "batch"
  /\ IF blocks = <<>>
     THEN /\ phase' = "returned"
          /\ result' = [ok |-> TRUE, err |-> "none", at |-> 0]
          /\ UNCHANGED <<chain, blocks, batch>>
     ELSE IF HasAllBlocks(chain, blocks)
     THEN /\ blocks' = <<>>
          /\ batch' = batch + 1
          /\ phase' = "read"
          /\ UNCHANGED <<chain, result>>
     ELSE LET ins == InsertedPrefix(blocks)
          IN /\ chain' = chain \cup ToSet(ins)
             /\ IF ins = blocks
                THEN /\ blocks' = <<>>
                     /\ batch' = batch + 1
                     /\ phase' = "read"
                     /\ UNCHANGED result
                ELSE /\ phase' = "returned"
                     /\ result' = [ok |-> FALSE, err |-> "insert", at |-> batch]
                     /\ UNCHANGED <<blocks, batch>>
  /\ UNCHANGED <<file, pos, index, source, exported>>

\* ExportChain: os.OpenFile with O_TRUNC may fail and leaves the file
\* alone; otherwise the file is emptied and Export writes the chain,
\* returning false at a failed write with a prefix written.  For a ".gz"
\* name the deferred gzip Close flushes the compressed tail and its error
\* is dropped: a failed flush leaves a prefix and a truncated entry while
\* ExportChain returns true.  The import reads the file after a true.
ExportChain ==
  /\ phase = "export"
  /\ \E opened \in BOOLEAN, written \in 0 .. Len(source), gz \in BOOLEAN,
        flushed \in IF CloseMayFail THEN BOOLEAN ELSE {TRUE} :
       CASE ~opened ->
              /\ phase' = "returned"
              /\ exported' = "false"
              /\ UNCHANGED file
         [] written < Len(source) ->
              /\ file' = SubSeq(source, 1, written)
              /\ phase' = "returned"
              /\ exported' = "false"
         [] gz /\ ~flushed ->
              /\ \E kept \in 0 .. Len(source) - 1 :
                   file' = SubSeq(source, 1, kept) \o <<Corrupt>>
              /\ phase' = "open"
              /\ exported' = "true"
         [] OTHER ->
              /\ file' = source
              /\ phase' = "open"
              /\ exported' = "true"
  /\ UNCHANGED <<chain, blocks, pos, index, batch, result, source>>

Returned == phase = "returned" /\ UNCHANGED vars

Next == ExportChain \/ OpenFile \/ ReadBlock \/ BatchFull \/ HandleBatch \/ Returned

Spec == Init /\ [][Next]_vars /\ WF_vars(ExportChain \/ OpenFile \/ ReadBlock \/ BatchFull \/ HandleBatch)
-----------------------------------------------------------------------------

\* a successful import leaves every block of the file in the chain:
\* hasAllBlocks skips a batch only when the chain has all of it
ImportedAll ==
  phase = "returned" /\ result.ok => ToSet(file) \subseteq chain

\* the error names the culprit: "block %d" is the 0-based position of the
\* entry that failed to decode, and "batch %d" the batch, counted from 0
\* and including skipped batches, that holds the first invalid block
ErrorLocatesEntry ==
  /\ result.err = "parse" => file[result.at + 1] = Corrupt
  /\ result.err = "insert" =>
       LET first == Min({i \in DOMAIN file : file[i] \in Invalid})
       IN (first - 1) \div Cap = result.at

\* admin_exportChain "exports the current blockchain into a local file"
\* (the comment at line 190): a chain exported with a true result can be
\* imported back, the import succeeding and leaving every block of the
\* exported chain in the importing one, wherever that chain starts
ExportRoundTrip ==
  exported = "true" /\ phase = "returned" => result.ok /\ ToSet(source) \subseteq chain

\* the import returns, whatever the file holds
ImportReturns == <>(phase = "returned")
=============================================================================
