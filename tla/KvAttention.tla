----------------------------- MODULE KvAttention -----------------------------
(***************************************************************************)
(* The attention half of Model::decode, in crates/moearc-engine/src/moe.rs *)
(* and its State: the pages of the one sequence come from PagedKv, its     *)
(* table is copied to the device when it has changed, every block writes   *)
(* the token's key and attends.  A full block finds keys through that      *)
(* table; a windowed block keeps them in a ring of swa_pages pages, through *)
(* a table uploaded once.                                                  *)
(*                                                                         *)
(* A key is the sequence and the position it was computed for.  Uploads    *)
(* block and the device's queue is in order, so a block's append and its   *)
(* attention take effect together.  A caller that is given an error resets *)
(* before it decodes again, as every user of Session does.                 *)
(***************************************************************************)
EXTENDS Integers, Sequences

CONSTANTS
  NBlock,        \* the number of blocks, from 0
  SwaPattern,    \* every SwaPattern-th block is full, the others are windowed
  NSwa,          \* the window
  PageTokens,    \* PAGE_TOKENS
  NCtx,          \* the context length
  FailAt,        \* where decode may return an error: at "table" or at "block"
  MaxSequences   \* bound on the sequences of a behaviour

ShapeAssumption ==
  /\ NBlock \in Nat \ {0} /\ SwaPattern \in Nat \ {0} /\ NSwa \in Nat \ {0}
  /\ PageTokens \in Nat \ {0} /\ NCtx \in Nat \ {0} /\ MaxSequences \in Nat \ {0}
  /\ FailAt \subseteq {"table", "block"}

VARIABLES
  free, active, pages, tokens,   \* the page allocator
  begun, n_kv, table_host,
  block_table,    \* device: the page table of full blocks
  cells,          \* device: the keys of each block, by page and slot
  attn,           \* device: the keys the last attention of this token has read
  pc, block,      \* where decode is, "failed" once it has returned an error
  page, slot,     \* what append returned
  sequence        \* the number of the sequence, counting resets

Blocks == 0 .. (NBlock - 1)
CeilDiv(a, b) == (a + b - 1) \div b
AtLeastOne(n) == IF n = 0 THEN 1 ELSE n
Lesser(a, b) == IF a < b THEN a ELSE b

\* KvGeometry::plan.
FullPages == AtLeastOne(CeilDiv(NCtx, PageTokens))
SwaPagesRoundedDown == Lesser(AtLeastOne(NSwa \div PageTokens), FullPages)
SwaPages == Lesser(AtLeastOne(CeilDiv(NSwa, PageTokens)), FullPages)
Windowed(b) == b % SwaPattern < SwaPattern - 1
PagesOf(b) == IF Windowed(b) THEN SwaPages ELSE FullPages

SEQ == "seq"
Kv == INSTANCE PagedKv WITH
  Seqs <- {SEQ}, TotalPages <- FullPages, ContextLimit <- NCtx, MayRebegin <- TRUE

kv == <<free, active, pages, tokens>>
host == <<begun, n_kv, table_host>>
device == <<block_table, cells, attn>>
control == <<pc, block, page, slot, sequence>>
vars == <<kv, host, device, control>>

Blank == <<0, 0>>
Unread == [block |-> NBlock, keys |-> <<>>]

Init ==
  /\ Kv!Init
  /\ begun = FALSE /\ n_kv = 0 /\ table_host = <<>>
  /\ block_table = [i \in 0 .. (FullPages - 1) |-> FullPages]
  /\ cells = [b \in Blocks |-> [p \in 0 .. (PagesOf(b) - 1) |->
                                  [s \in 0 .. (PageTokens - 1) |-> Blank]]]
  /\ attn = Unread
  /\ pc = "idle" /\ block = 0 /\ page = 0 /\ slot = 0 /\ sequence = 1

-----------------------------------------------------------------------------
(* decode.                                                                 *)

BeginEveryTime ==
  /\ pc = "idle"
  /\ Kv!Begin(SEQ, 0) /\ begun' = TRUE
  /\ pc' = "append"
  /\ UNCHANGED <<n_kv, table_host, device, block, page, slot, sequence>>

BeginSequence ==
  /\ pc = "idle" /\ ~begun
  /\ Kv!Begin(SEQ, 0) /\ begun' = TRUE
  /\ pc' = "append"
  /\ UNCHANGED <<n_kv, table_host, device, block, page, slot, sequence>>

Appending == pc = "append" \/ (pc = "idle" /\ begun)

\* append, and the position moves on.  The scratch of the last token is emptied
\* here so that an attention of this token is not confused with one of the last.
AppendToken ==
  /\ Appending
  /\ \/ Kv!AppendInPage(SEQ)
     \/ Kv!AppendNewPage(SEQ)
  /\ page' = pages'[SEQ][(tokens[SEQ] \div PageTokens) + 1]
  /\ slot' = tokens[SEQ] % PageTokens
  /\ n_kv' = n_kv + 1 /\ pc' = "table" /\ attn' = Unread
  /\ UNCHANGED <<begun, table_host, block_table, cells, block, sequence>>

\* The context is full, or the pool is: decode returns with nothing changed.
AppendRefused ==
  /\ Appending
  /\ \/ ~Kv!Appendable(SEQ)
     \/ Kv!PageFull(SEQ) /\ free = <<>>
  /\ pc' = "failed"
  /\ UNCHANGED <<kv, host, device, block, page, slot, sequence>>

TableIsCurrent ==
  /\ pc = "table" /\ pages[SEQ] = table_host
  /\ pc' = "block" /\ block' = 0
  /\ UNCHANGED <<kv, host, device, page, slot, sequence>>

\* What the device's table holds once ps has been copied to its front.
Uploaded(ps) ==
  [i \in DOMAIN block_table |-> IF i < Len(ps) THEN ps[i + 1] ELSE block_table[i]]

UploadTable ==
  /\ pc = "table" /\ pages[SEQ] # table_host
  /\ table_host' = pages[SEQ] /\ block_table' = Uploaded(pages[SEQ])
  /\ pc' = "block" /\ block' = 0
  /\ UNCHANGED <<kv, begun, n_kv, cells, attn, page, slot, sequence>>

\* The host's copy is replaced before the upload is attempted.
UploadTableFails ==
  /\ "table" \in FailAt /\ pc = "table" /\ pages[SEQ] # table_host
  /\ table_host' = pages[SEQ]
  /\ pc' = "failed"
  /\ UNCHANGED <<kv, begun, n_kv, device, block, page, slot, sequence>>

KvPageUnwrapped(b) == IF Windowed(b) THEN (n_kv - 1) \div PageTokens ELSE page

\* The token's position is the one before n_kv.
KvPage(b) == IF Windowed(b) THEN ((n_kv - 1) \div PageTokens) % SwaPages ELSE page
Stored(b) == [cells EXCEPT ![b][KvPage(b)][slot] = <<sequence, n_kv - 1>>]

KvBegin(b) == IF Windowed(b) /\ n_kv > NSwa THEN n_kv - NSwa ELSE 0
TablePage(b, p) ==
  IF Windowed(b) THEN (p \div PageTokens) % SwaPages ELSE block_table[p \div PageTokens]

\* A page number past the pool reads whatever is there.
Key(c, b, p) ==
  IF TablePage(b, p) \in DOMAIN c[b] THEN c[b][TablePage(b, p)][p % PageTokens] ELSE Blank
Attended(c, b) ==
  [block |-> b, keys |-> [p \in KvBegin(b) .. (n_kv - 1) |-> Key(c, b, p)]]

\* kv_append, then attn_decode_ext over the span.
Attend ==
  /\ pc = "block"
  /\ cells' = Stored(block) /\ attn' = Attended(Stored(block), block)
  /\ block' = IF block = NBlock - 1 THEN 0 ELSE block + 1
  /\ pc' = IF block = NBlock - 1 THEN "idle" ELSE "block"
  /\ UNCHANGED <<kv, host, block_table, page, slot, sequence>>

\* Any kernel of a block is refused, before the key is written or after.
BlockFails ==
  /\ "block" \in FailAt /\ pc = "block"
  /\ cells' \in {cells, Stored(block)}
  /\ pc' = "failed"
  /\ UNCHANGED <<kv, host, block_table, attn, block, page, slot, sequence>>

Decode ==
  \/ BeginSequence \/ AppendToken \/ AppendRefused
  \/ TableIsCurrent \/ UploadTable \/ UploadTableFails \/ Attend \/ BlockFails

-----------------------------------------------------------------------------
ResetKeepingPosition ==
  /\ pc \in {"idle", "failed"} /\ sequence < MaxSequences
  /\ IF begun THEN Kv!End(SEQ) ELSE UNCHANGED kv
  /\ begun' = FALSE /\ table_host' = <<>>
  /\ pc' = "idle" /\ sequence' = sequence + 1 /\ attn' = Unread
  /\ UNCHANGED <<n_kv, block_table, cells, block, page, slot>>

\* reset: the pages go back and the position to 0; the keys stay where they are.
Reset ==
  /\ pc \in {"idle", "failed"} /\ sequence < MaxSequences
  /\ IF begun THEN Kv!End(SEQ) ELSE UNCHANGED kv
  /\ begun' = FALSE /\ n_kv' = 0 /\ table_host' = <<>>
  /\ pc' = "idle" /\ sequence' = sequence + 1 /\ attn' = Unread
  /\ UNCHANGED <<block_table, cells, block, page, slot>>

\* The bound is reached and the last decode has returned an error.
Over == pc = "failed" /\ sequence = MaxSequences /\ UNCHANGED vars

Next == Decode \/ Reset \/ Over

Spec == Init /\ [][Next]_vars

-----------------------------------------------------------------------------
(* Properties.                                                             *)

\* Every variable stays in its range; a key is always written inside its pool.
TypeOK ==
  /\ Kv!TypeOK
  /\ begun \in BOOLEAN /\ n_kv \in 0 .. NCtx
  /\ table_host \in Seq(0 .. (FullPages - 1))
  /\ block_table \in [0 .. (FullPages - 1) -> 0 .. FullPages]
  /\ pc \in {"idle", "append", "table", "block", "failed"} /\ block \in Blocks
  /\ page \in 0 .. (FullPages - 1) /\ slot \in 0 .. (PageTokens - 1)
  /\ sequence \in 1 .. MaxSequences
  /\ DOMAIN cells = Blocks /\ \A b \in Blocks : DOMAIN cells[b] = 0 .. (PagesOf(b) - 1)
  /\ pc = "block" => KvPage(block) \in DOMAIN cells[block]

\* Attention reads the keys of its own sequence at every position it may see and
\* at no other: nothing a reset, a failed decode or the ring has left behind, and
\* in a windowed block nothing overwritten while still inside the window.
Visible(b, p) == Windowed(b) => (n_kv - 1) - p < NSwa
AttentionSeesItsOwn ==
  attn.block \in Blocks =>
    attn.keys = [p \in {q \in 0 .. (n_kv - 1) : Visible(attn.block, q)} |-> <<sequence, p>>]
=============================================================================
