------------------------------- MODULE PagedKv -------------------------------
(***************************************************************************)
(* PagedKvCache of crates/moearc-engine/src/kv.rs: who gets which page of  *)
(* the KV pool.  The map from sequence ids to page tables is two functions *)
(* and the set of ids it has an entry for.  A call that is refused changes *)
(* nothing, so refusals are the complement of the guards.                  *)
(***************************************************************************)
EXTENDS Integers, Sequences

CONSTANTS
  Seqs,           \* sequence ids
  TotalPages,     \* the pages of the pool
  PageTokens,     \* the tokens of a page
  ContextLimit,   \* the tokens of a sequence
  MayRebegin      \* whether begin may be called for a sequence that is active

ASSUME GeometryAssumption ==
  /\ TotalPages \in Nat \ {0} /\ PageTokens \in Nat \ {0}
  /\ ContextLimit \in Nat /\ MayRebegin \in BOOLEAN

VARIABLES
  free,     \* the free list, popped from the back
  active,   \* the sequences begun and not ended
  pages,    \* the pages of a sequence, in logical order
  tokens    \* the tokens of a sequence

vars == <<free, active, pages, tokens>>

Pages == 0 .. (TotalPages - 1)
Back(s) == s[Len(s)]
Reversed(s) == [i \in 1 .. Len(s) |-> s[Len(s) + 1 - i]]

PagesForOneMore(n) == (n \div PageTokens) + 1

\* div_ceil.
PagesFor(n) == (n + PageTokens - 1) \div PageTokens

Init ==
  /\ free = [i \in 1 .. TotalPages |-> TotalPages - i]
  /\ active = {}
  /\ pages = [s \in Seqs |-> <<>>] /\ tokens = [s \in Seqs |-> 0]

\* begin: the prompt's pages are popped off one by one, all or none.  An entry
\* the sequence already had is overwritten, and its pages with it.
Begin(s, n) ==
  /\ MayRebegin \/ s \notin active
  /\ n <= ContextLimit /\ PagesFor(n) <= Len(free)
  /\ active' = active \cup {s}
  /\ pages' = [pages EXCEPT ![s] = [i \in 1 .. PagesFor(n) |-> free[Len(free) + 1 - i]]]
  /\ tokens' = [tokens EXCEPT ![s] = n]
  /\ free' = SubSeq(free, 1, Len(free) - PagesFor(n))

AppendablePastLimit(s) == s \in active /\ tokens[s] <= ContextLimit
Appendable(s) == s \in active /\ tokens[s] < ContextLimit
PageFull(s) == tokens[s] % PageTokens = 0 /\ tokens[s] >= Len(pages[s]) * PageTokens

\* append into the page in hand.
AppendInPage(s) ==
  /\ Appendable(s) /\ ~PageFull(s)
  /\ tokens' = [tokens EXCEPT ![s] = @ + 1]
  /\ UNCHANGED <<free, active, pages>>

AppendEveryTime(s) ==
  /\ Appendable(s) /\ tokens[s] % PageTokens = 0 /\ free # <<>>
  /\ pages' = [pages EXCEPT ![s] = <<Back(free)>> \o @]
  /\ tokens' = [tokens EXCEPT ![s] = @ + 1]
  /\ free' = SubSeq(free, 1, Len(free) - 1)
  /\ UNCHANGED active

\* append when the page is full: a page is taken before the sequence is touched.
AppendNewPage(s) ==
  /\ Appendable(s) /\ PageFull(s) /\ free # <<>>
  /\ pages' = [pages EXCEPT ![s] = Append(@, Back(free))]
  /\ tokens' = [tokens EXCEPT ![s] = @ + 1]
  /\ free' = SubSeq(free, 1, Len(free) - 1)
  /\ UNCHANGED active

EndLastPageOnly(s) ==
  /\ s \in active
  /\ free' = IF pages[s] = <<>> THEN free ELSE Append(free, Back(pages[s]))
  /\ active' = active \ {s}
  /\ pages' = [pages EXCEPT ![s] = <<>>] /\ tokens' = [tokens EXCEPT ![s] = 0]

\* end: the pages go back in reverse, so that the first is popped first.
End(s) ==
  /\ s \in active
  /\ free' = free \o Reversed(pages[s])
  /\ active' = active \ {s}
  /\ pages' = [pages EXCEPT ![s] = <<>>] /\ tokens' = [tokens EXCEPT ![s] = 0]

Next ==
  \E s \in Seqs :
    \/ \E n \in 0 .. ContextLimit : Begin(s, n)
    \/ AppendInPage(s) \/ AppendNewPage(s) \/ End(s)

Spec == Init /\ [][Next]_vars

-----------------------------------------------------------------------------
(* Properties.                                                             *)

\* Every variable stays in its range.
TypeOK ==
  /\ free \in Seq(Pages) /\ active \subseteq Seqs
  /\ pages \in [Seqs -> Seq(Pages)] /\ tokens \in [Seqs -> 0 .. ContextLimit]

IsFree(p) == \E i \in 1 .. Len(free) : free[i] = p
Holds(s, p) == \E i \in 1 .. Len(pages[s]) : pages[s][i] = p

\* No page is handed out twice: not to two sequences, not twice to one, and what
\* is on the free list is on it once and in nobody's table.
NoPageShared ==
  /\ \A i, j \in 1 .. Len(free) : free[i] = free[j] => i = j
  /\ \A s \in active : \A i \in 1 .. Len(pages[s]) : ~IsFree(pages[s][i])
  /\ \A s, r \in active : \A i \in 1 .. Len(pages[s]), j \in 1 .. Len(pages[r]) :
       pages[s][i] = pages[r][j] => s = r /\ i = j

\* A page that is not free is in some active sequence's table, so that ending all
\* of them empties the pool and free_pages() tells the truth.
NothingLeaked == \A p \in Pages : IsFree(p) \/ \E s \in active : Holds(s, p)

\* Every page has one owner, the free list or one active sequence.
PagesAccounted == NoPageShared /\ NothingLeaked

\* "The waste is bounded by one partly-filled page per sequence": a sequence has
\* the pages its tokens need and no more, so append's index is always in the table.
WasteBounded ==
  \A s \in active :
    /\ tokens[s] <= Len(pages[s]) * PageTokens
    /\ Len(pages[s]) * PageTokens < tokens[s] + PageTokens

\* Where token t of s is written, counting from 0.
Place(s, t) == <<pages[s][(t \div PageTokens) + 1], t % PageTokens>>

\* A token stays where it was written for as long as its sequence is active:
\* growth, other sequences and their ends never move it.
TokensStay ==
  [][\A s \in active \cap active' : \A t \in 0 .. (tokens[s] - 1) :
       Place(s, t)' = Place(s, t)]_vars
=============================================================================
