---------------------------- MODULE PagedKvProofs ----------------------------
(***************************************************************************)
(* Proofs about PagedKv, for every pool, page size and set of sequences,   *)
(* provided begin is called only for sequences that are not active: the    *)
(* guard State::begun keeps in moe.rs.  Where a page is held is the only   *)
(* thing the free list and the tables decide, so the invariant is the      *)
(* conjunction of the properties the runs check.                           *)
(***************************************************************************)
EXTENDS PagedKv, SequenceTheorems, TLAPS

IInv == TypeOK /\ NoPageShared /\ NothingLeaked /\ WasteBounded

-----------------------------------------------------------------------------
(* Arithmetic.                                                             *)

\* PagesFor(n) pages hold n tokens, and one page less does not.
LEMMA CeilBounds ==
  ASSUME NEW n \in Nat
  PROVE  /\ PagesFor(n) \in Nat
         /\ n <= PagesFor(n) * PageTokens
         /\ PagesFor(n) * PageTokens < n + PageTokens
<1> DEFINE m == n + PageTokens - 1
<1>1. PageTokens \in Nat /\ PageTokens > 0 /\ m \in Nat
  BY GeometryAssumption
<1>2. /\ m = PageTokens * (m \div PageTokens) + (m % PageTokens)
      /\ m % PageTokens \in 0 .. (PageTokens - 1) /\ m \div PageTokens \in Int
  BY <1>1
<1>3. m \div PageTokens >= 0
  BY <1>1
<1>4. PagesFor(n) = m \div PageTokens
  BY DEF PagesFor
<1>5. PagesFor(n) * PageTokens = m - (m % PageTokens)
  BY <1>1, <1>2, <1>4
<1>6. QED
  BY <1>1, <1>2, <1>3, <1>4, <1>5

\* A page holds a whole number of tokens.
LEMMA MultipleIsWhole ==
  ASSUME NEW k \in Nat
  PROVE  (k * PageTokens) % PageTokens = 0
BY GeometryAssumption

\* A token within the first k pages is on one of them.
LEMMA PageIndex ==
  ASSUME NEW t \in Nat, NEW k \in Nat, t < k * PageTokens
  PROVE  t \div PageTokens \in 0 .. (k - 1)
BY GeometryAssumption

-----------------------------------------------------------------------------
(* Sequences.                                                              *)

\* The list end leaves, with the pages t given back to s.
Given(s, t) == s \o Reversed(t)

\* u has what s has and what t has, each once and nothing else.
Merged(u, s, t, S) ==
  /\ u \in Seq(S)
  /\ \A i, j \in 1 .. Len(u) : u[i] = u[j] => i = j
  /\ \A i \in 1 .. Len(u) : \/ \E j \in 1 .. Len(s) : u[i] = s[j]
                            \/ \E j \in 1 .. Len(t) : u[i] = t[j]
  /\ \A j \in 1 .. Len(s) : \E i \in 1 .. Len(u) : u[i] = s[j]
  /\ \A j \in 1 .. Len(t) : \E i \in 1 .. Len(u) : u[i] = t[j]

\* Each page that was once in either list, and in one of them only, is once in
\* the list end leaves.
LEMMA GiveBack ==
  ASSUME NEW S, NEW s \in Seq(S), NEW t \in Seq(S),
         \A i, j \in 1 .. Len(s) : s[i] = s[j] => i = j,
         \A i, j \in 1 .. Len(t) : t[i] = t[j] => i = j,
         \A i \in 1 .. Len(s), j \in 1 .. Len(t) : s[i] # t[j]
  PROVE  Merged(Given(s, t), s, t, S)
<1> DEFINE u == Given(s, t)
<1>0. u = s \o Reversed(t)
  BY DEF Given
<1> HIDE DEF u
<1>1. /\ Reversed(t) \in Seq(S) /\ Len(Reversed(t)) = Len(t)
      /\ \A i \in 1 .. Len(t) : Reversed(t)[i] = t[Len(t) + 1 - i]
  BY DEF Reversed
<1>2. /\ u \in Seq(S) /\ Len(u) = Len(s) + Len(t)
      /\ \A i \in 1 .. Len(s) : u[i] = s[i]
      /\ \A i \in (Len(s) + 1) .. Len(u) : u[i] = t[Len(t) + 1 - (i - Len(s))]
  <2> DEFINE r == Reversed(t)
  <2>1. /\ r \in Seq(S) /\ Len(r) = Len(t) /\ u = s \o r
        /\ \A i \in 1 .. Len(t) : r[i] = t[Len(t) + 1 - i]
    BY <1>0, <1>1
  <2> HIDE DEF r
  <2>2. /\ u \in Seq(S) /\ Len(u) = Len(s) + Len(r)
        /\ \A i \in 1 .. (Len(s) + Len(r)) :
             u[i] = IF i <= Len(s) THEN s[i] ELSE r[i - Len(s)]
    <3>1. r \in Seq(S) /\ u = s \o r
      BY <2>1
    <3>2. /\ s \o r \in Seq(S)
          /\ Len(s \o r) = Len(s) + Len(r)
          /\ \A i \in 1 .. Len(s) + Len(r) :
               (s \o r)[i] = IF i <= Len(s) THEN s[i] ELSE r[i - Len(s)]
      BY ONLY s \in Seq(S), <3>1, ConcatProperties, Zenon
    <3>3. QED
      BY ONLY <3>1, <3>2, Zenon
  <2>3. \A i \in 1 .. Len(s) : u[i] = s[i]
    BY <2>1, <2>2
  <2>4. ASSUME NEW i \in (Len(s) + 1) .. Len(u)
        PROVE  u[i] = t[Len(t) + 1 - (i - Len(s))]
    <3>1. i - Len(s) \in 1 .. Len(t) /\ i \in 1 .. (Len(s) + Len(r)) /\ i > Len(s)
      BY <2>1, <2>2
    <3>2. u[i] = r[i - Len(s)]
      BY <2>2, <3>1
    <3>3. QED
      BY <2>1, <3>1, <3>2
  <2>5. QED
    BY <2>1, <2>2, <2>3, <2>4
<1>3. \A i, j \in 1 .. Len(u) : u[i] = u[j] => i = j
  <2> SUFFICES ASSUME NEW i \in 1 .. Len(u), NEW j \in 1 .. Len(u), u[i] = u[j]
               PROVE  i = j
    OBVIOUS
  <2>1. CASE i <= Len(s) /\ j <= Len(s)
    BY <1>2, <2>1
  <2>2. CASE i > Len(s) /\ j > Len(s)
    <3>1. /\ Len(t) + 1 - (i - Len(s)) \in 1 .. Len(t)
          /\ Len(t) + 1 - (j - Len(s)) \in 1 .. Len(t)
      BY <1>2, <2>2
    <3>2. t[Len(t) + 1 - (i - Len(s))] = t[Len(t) + 1 - (j - Len(s))]
      BY <1>2, <2>2
    <3>3. Len(t) + 1 - (i - Len(s)) = Len(t) + 1 - (j - Len(s))
      BY <3>1, <3>2
    <3>4. QED
      BY <3>3
  <2>3. ASSUME NEW a \in 1 .. Len(s), NEW b \in (Len(s) + 1) .. Len(u)
        PROVE  u[a] # u[b]
    <3>1. Len(t) + 1 - (b - Len(s)) \in 1 .. Len(t)
      BY <1>2
    <3>2. QED
      BY <1>2, <3>1
  <2>4. QED
    BY <2>1, <2>2, <2>3
<1>4. ASSUME NEW i \in 1 .. Len(u)
      PROVE  \/ \E j \in 1 .. Len(s) : u[i] = s[j]
             \/ \E j \in 1 .. Len(t) : u[i] = t[j]
  <2>1. CASE i <= Len(s)
    BY <1>2, <2>1
  <2>2. CASE i > Len(s)
    <3>1. Len(t) + 1 - (i - Len(s)) \in 1 .. Len(t)
      BY <1>2, <2>2
    <3>2. QED
      BY <1>2, <2>2, <3>1
  <2>3. QED
    BY <2>1, <2>2
<1>5. \A j \in 1 .. Len(s) : j \in 1 .. Len(u) /\ u[j] = s[j]
  BY <1>2
<1>6. ASSUME NEW j \in 1 .. Len(t) PROVE \E i \in 1 .. Len(u) : u[i] = t[j]
  <2> DEFINE i == Len(s) + Len(t) + 1 - j
  <2>1. i \in (Len(s) + 1) .. Len(u) /\ Len(t) + 1 - (i - Len(s)) = j
    BY <1>2
  <2>2. u[i] = t[j]
    BY <1>2, <2>1
  <2>3. i \in 1 .. Len(u)
    BY <1>2, <2>1
  <2> HIDE DEF i
  <2>4. QED
    BY <2>2, <2>3
<1>7. Merged(u, s, t, S)
  BY <1>2, <1>3, <1>4, <1>5, <1>6 DEF Merged
<1>8. QED
  BY <1>7 DEF u

-----------------------------------------------------------------------------
(* The invariant.                                                          *)

\* The free list once n pages were popped, and those pages.
Left(n) == SubSeq(free, 1, Len(free) - n)
Taken(n) == [i \in 1 .. n |-> free[Len(free) + 1 - i]]

\* left and taken are what is left of the free list, and what n pops took off it.
Split(left, taken, n) ==
  /\ left \in Seq(Pages) /\ Len(left) = Len(free) - n
  /\ \A i \in 1 .. Len(left) : i \in 1 .. Len(free) /\ left[i] = free[i]
  /\ taken \in Seq(Pages) /\ Len(taken) = n
  /\ \A i \in 1 .. n : /\ Len(free) + 1 - i \in 1 .. Len(free)
                       /\ taken[i] = free[Len(free) + 1 - i]
  /\ \A i, j \in 1 .. n : taken[i] = taken[j] => i = j
  /\ \A i \in 1 .. Len(left), j \in 1 .. n : left[i] # taken[j]
  /\ \A p \in Pages : IsFree(p) => \/ \E i \in 1 .. Len(left) : left[i] = p
                                   \/ \E i \in 1 .. n : taken[i] = p

\* The pages popped and the pages left are the free list, in two parts.
LEMMA PopPages ==
  ASSUME TypeOK, NoPageShared, NEW n \in Nat, n <= Len(free)
  PROVE  Split(Left(n), Taken(n), n)
<1> DEFINE left == Left(n)
           taken == Taken(n)
<1>0. /\ left = SubSeq(free, 1, Len(free) - n)
      /\ taken = [i \in 1 .. n |-> free[Len(free) + 1 - i]]
  BY DEF Left, Taken
<1> HIDE DEF left, taken
<1>1. free \in Seq(Pages) /\ Len(free) \in Nat
  BY DEF TypeOK
<1>2. /\ left \in Seq(Pages) /\ Len(left) = Len(free) - n
      /\ \A i \in 1 .. Len(left) : i \in 1 .. Len(free) /\ left[i] = free[i]
  BY <1>0, <1>1
<1>3. \A i \in 1 .. n : Len(free) + 1 - i \in 1 .. Len(free)
  BY <1>1
<1>4. /\ taken \in Seq(Pages) /\ Len(taken) = n
      /\ \A i \in 1 .. n : taken[i] = free[Len(free) + 1 - i]
  BY <1>0, <1>1, <1>3
<1>5. \A i, j \in 1 .. Len(free) : free[i] = free[j] => i = j
  BY DEF NoPageShared
<1>6. ASSUME NEW i \in 1 .. n, NEW j \in 1 .. n, taken[i] = taken[j] PROVE i = j
  <2>1. Len(free) + 1 - i = Len(free) + 1 - j
    BY <1>3, <1>4, <1>5, <1>6
  <2>2. QED
    BY <1>1, <2>1
<1>7. ASSUME NEW i \in 1 .. Len(left), NEW j \in 1 .. n PROVE left[i] # taken[j]
  <2> DEFINE k == Len(free) + 1 - j
  <2>1. i # k /\ i \in 1 .. Len(free) /\ k \in 1 .. Len(free)
    BY <1>1, <1>2, <1>3
  <2>2. left[i] = free[i] /\ taken[j] = free[k]
    BY <1>2, <1>4
  <2> HIDE DEF k
  <2>3. QED
    BY <1>5, <2>1, <2>2
<1>8. ASSUME NEW p \in Pages, IsFree(p)
      PROVE  \/ \E i \in 1 .. Len(left) : left[i] = p
             \/ \E i \in 1 .. n : taken[i] = p
  <2>1. PICK k \in 1 .. Len(free) : free[k] = p
    BY <1>8 DEF IsFree
  <2>2. CASE k <= Len(free) - n
    BY <1>1, <1>2, <2>1, <2>2
  <2>3. CASE k > Len(free) - n
    <3>1. /\ Len(free) + 1 - k \in 1 .. n
          /\ Len(free) + 1 - (Len(free) + 1 - k) = k
      BY <1>1, <2>1, <2>3
    <3>2. taken[Len(free) + 1 - k] = p
      BY <1>4, <2>1, <3>1
    <3>3. QED
      BY <3>1, <3>2
  <2>4. QED
    BY <1>1, <2>1, <2>2, <2>3
<1>9. QED
  <2>1. Split(left, taken, n)
    BY <1>2, <1>3, <1>4, <1>6, <1>7, <1>8 DEF Split
  <2>2. QED
    BY <2>1 DEF left, taken

\* All pages are free.
LEMMA InitIInv == Init => IInv
<1> SUFFICES ASSUME Init PROVE IInv
  OBVIOUS
<1>1. /\ TotalPages \in Nat \ {0} /\ ContextLimit \in Nat
      /\ free = [i \in 1 .. TotalPages |-> TotalPages - i]
      /\ active = {} /\ pages = [s \in Seqs |-> <<>>] /\ tokens = [s \in Seqs |-> 0]
  BY GeometryAssumption DEF Init
<1>2. free \in Seq(Pages) /\ Len(free) = TotalPages
  BY <1>1 DEF Pages
<1>3. TypeOK
  BY <1>1, <1>2 DEF TypeOK
<1>4. NoPageShared
  BY <1>1, <1>2 DEF NoPageShared
<1>5. NothingLeaked
  <2> SUFFICES ASSUME NEW p \in Pages PROVE IsFree(p)
    BY DEF NothingLeaked
  <2>1. TotalPages - p \in 1 .. TotalPages /\ TotalPages - (TotalPages - p) = p
    BY <1>1 DEF Pages
  <2>2. free[TotalPages - p] = p
    BY <1>1, <2>1
  <2>3. QED
    BY <1>2, <2>1, <2>2 DEF IsFree
<1>6. WasteBounded
  BY <1>1 DEF WasteBounded
<1>7. QED
  BY <1>3, <1>4, <1>5, <1>6 DEF IInv

\* A sequence begins with pages nobody holds.
LEMMA BeginIInv ==
  ASSUME IInv, NEW s \in Seqs, s \notin active, NEW n \in 0 .. ContextLimit, Begin(s, n)
  PROVE  IInv'
<1> DEFINE m == PagesFor(n)
           taken == Taken(m)
<1>1. TypeOK /\ NoPageShared /\ NothingLeaked /\ WasteBounded
  BY DEF IInv
<1>2. n \in Nat /\ m \in Nat /\ n <= m * PageTokens /\ m * PageTokens < n + PageTokens
  BY CeilBounds, GeometryAssumption
<1>3. /\ s \notin active /\ m <= Len(free) /\ active' = active \cup {s}
      /\ pages' = [pages EXCEPT ![s] = taken] /\ tokens' = [tokens EXCEPT ![s] = n]
      /\ free' = Left(m)
  BY DEF Begin, Left, Taken
<1> HIDE DEF m
<1>4. Split(free', taken, m)
  BY <1>1, <1>2, <1>3, PopPages
<1>a. /\ free' \in Seq(Pages) /\ Len(free') = Len(free) - m
      /\ \A i \in 1 .. Len(free') : i \in 1 .. Len(free) /\ free'[i] = free[i]
      /\ taken \in Seq(Pages) /\ Len(taken) = m
      /\ \A i \in 1 .. m : /\ Len(free) + 1 - i \in 1 .. Len(free)
                           /\ taken[i] = free[Len(free) + 1 - i]
      /\ \A i, j \in 1 .. m : taken[i] = taken[j] => i = j
      /\ \A i \in 1 .. Len(free'), j \in 1 .. m : free'[i] # taken[j]
      /\ \A p \in Pages : IsFree(p) => \/ \E i \in 1 .. Len(free') : free'[i] = p
                                       \/ \E i \in 1 .. m : taken[i] = p
  BY <1>4 DEF Split
<1> HIDE DEF taken
<1>5. /\ pages' \in [Seqs -> Seq(Pages)] /\ pages'[s] = taken
      /\ \A r \in active : r \in Seqs /\ r # s /\ pages'[r] = pages[r]
                           /\ tokens'[r] = tokens[r]
      /\ tokens'[s] = n /\ tokens' \in [Seqs -> 0 .. ContextLimit]
  BY <1>1, <1>3, <1>a DEF TypeOK
<1>6. TypeOK'
  BY <1>1, <1>3, <1>a, <1>5 DEF TypeOK
<1>7. NoPageShared'
  <2>1. \A i, j \in 1 .. Len(free') : free'[i] = free'[j] => i = j
    <3>1. \A i, j \in 1 .. Len(free) : free[i] = free[j] => i = j
      BY <1>1 DEF NoPageShared
    <3>2. \A i \in 1 .. Len(free') : i \in 1 .. Len(free) /\ free'[i] = free[i]
      BY <1>a
    <3>3. QED
      BY <3>1, <3>2
  <2>2. ASSUME NEW r \in active', NEW i \in 1 .. Len(pages'[r])
        PROVE  \A j \in 1 .. Len(free') : free'[j] # pages'[r][i]
    <3>1. CASE r = s
      <4>1. pages'[r] = taken /\ i \in 1 .. m
        <5>1. pages'[r] = taken /\ Len(taken) = m
          BY <1>a, <1>5, <3>1
        <5> QED
          BY <5>1, <2>2
      <4>2. \A k \in 1 .. Len(free'), j \in 1 .. m : free'[k] # taken[j]
        BY <1>a
      <4> QED
        BY <4>1, <4>2
    <3>2. CASE r # s
      <4>1. r \in active /\ pages'[r] = pages[r] /\ i \in 1 .. Len(pages[r])
        BY <1>3, <1>5, <2>2, <3>2
      <4>2. \A j \in 1 .. Len(free) : free[j] # pages[r][i]
        BY <1>1, <4>1 DEF NoPageShared, IsFree
      <4>3. \A j \in 1 .. Len(free') : j \in 1 .. Len(free) /\ free'[j] = free[j]
        BY <1>a
      <4>4. QED
        BY <4>1, <4>2, <4>3
    <3>3. QED
      BY <3>1, <3>2
  <2>3. ASSUME NEW q \in active', NEW r \in active', NEW i \in 1 .. Len(pages'[q]),
               NEW j \in 1 .. Len(pages'[r]), pages'[q][i] = pages'[r][j]
        PROVE  q = r /\ i = j
    <3>1. ASSUME NEW x \in active, NEW a \in 1 .. Len(pages[x]), NEW b \in 1 .. m
          PROVE  pages[x][a] # taken[b]
      <4> DEFINE k == Len(free) + 1 - b
      <4>1. \A f \in 1 .. Len(free) : free[f] # pages[x][a]
        BY <1>1 DEF NoPageShared, IsFree
      <4>2. k \in 1 .. Len(free) /\ taken[b] = free[k]
        BY <1>a
      <4> HIDE DEF k
      <4>3. QED
        BY <4>1, <4>2
    <3>2. CASE q = s /\ r = s
      BY <1>a, <1>5, <2>3, <3>2
    <3>3. CASE q = s /\ r # s
      BY <1>3, <1>a, <1>5, <2>3, <3>1, <3>3
    <3>4. CASE q # s /\ r = s
      BY <1>3, <1>a, <1>5, <2>3, <3>1, <3>4
    <3>5. CASE q # s /\ r # s
      BY <1>1, <1>3, <1>5, <2>3, <3>5 DEF NoPageShared
    <3>6. QED
      BY <3>2, <3>3, <3>4, <3>5
  <2>4. QED
    BY <2>1, <2>2, <2>3 DEF NoPageShared, IsFree
<1>8. NothingLeaked'
  <2> SUFFICES ASSUME NEW p \in Pages
               PROVE  IsFree(p)' \/ \E r \in active' : Holds(r, p)'
    BY DEF NothingLeaked, Pages
  <2>1. CASE IsFree(p)
    <3>1. CASE \E i \in 1 .. Len(free') : free'[i] = p
      BY <3>1 DEF IsFree
    <3>2. CASE \E i \in 1 .. m : taken[i] = p
      <4>1. Holds(s, p)'
        BY <1>a, <1>5, <3>2 DEF Holds
      <4>2. QED
        BY <1>3, <4>1
    <3>3. QED
      BY <1>a, <2>1, <3>1, <3>2
  <2>2. CASE \E r \in active : Holds(r, p)
    BY <1>3, <1>5, <2>2 DEF Holds
  <2>3. QED
    BY <1>1, <2>1, <2>2 DEF NothingLeaked
<1>9. WasteBounded'
  BY <1>1, <1>2, <1>3, <1>a, <1>5 DEF WasteBounded
<1>10. QED
  BY <1>6, <1>7, <1>8, <1>9 DEF IInv

\* A page that is not full has room for the token.
LEMMA RoomOnPage ==
  ASSUME IInv, NEW s \in active, ~PageFull(s)
  PROVE  tokens[s] < Len(pages[s]) * PageTokens
<1> DEFINE room == Len(pages[s]) * PageTokens
<1>1. s \in Seqs /\ tokens[s] \in Nat /\ Len(pages[s]) \in Nat /\ tokens[s] <= room
  BY GeometryAssumption DEF IInv, TypeOK, WasteBounded
<1>2. room % PageTokens = 0 /\ room \in Nat
  <2> DEFINE k == Len(pages[s])
  <2>1. k \in Nat /\ room = k * PageTokens
    BY <1>1
  <2> HIDE DEF k, room
  <2>2. (k * PageTokens) % PageTokens = 0 /\ k * PageTokens \in Nat
    BY <2>1, MultipleIsWhole, GeometryAssumption
  <2>3. QED
    BY <2>1, <2>2
<1>3. tokens[s] % PageTokens # 0 \/ ~(tokens[s] >= room)
  BY DEF PageFull
<1> HIDE DEF room
<1>4. tokens[s] < room
  <2>1. CASE tokens[s] = room
    BY <1>1, <1>2, <1>3, <2>1
  <2>2. CASE tokens[s] # room
    BY <1>1, <1>2, <2>2
  <2>3. QED
    BY <2>1, <2>2
<1>5. QED
  BY <1>4 DEF room

\* A token with room in the last page takes no page.
LEMMA AppendInPageIInv ==
  ASSUME IInv, NEW s \in Seqs, AppendInPage(s)
  PROVE  IInv'
<1>1. /\ s \in active /\ tokens[s] < ContextLimit
      /\ tokens' = [tokens EXCEPT ![s] = tokens[s] + 1]
      /\ free' = free /\ active' = active /\ pages' = pages
      /\ tokens[s] < Len(pages[s]) * PageTokens
  BY RoomOnPage DEF AppendInPage, Appendable
<1>2. TypeOK'
  BY <1>1, GeometryAssumption DEF IInv, TypeOK
<1>3. NoPageShared' /\ NothingLeaked'
  BY <1>1 DEF IInv, NoPageShared, NothingLeaked, IsFree, Holds, Pages
<1>4. WasteBounded'
  <2> SUFFICES ASSUME NEW r \in active
               PROVE  /\ tokens'[r] <= Len(pages[r]) * PageTokens
                      /\ Len(pages[r]) * PageTokens < tokens'[r] + PageTokens
    BY <1>1 DEF WasteBounded
  <2> DEFINE room == Len(pages[r]) * PageTokens
  <2>1. /\ tokens[r] \in Nat /\ room \in Nat /\ PageTokens \in Nat
        /\ tokens[r] <= room /\ room < tokens[r] + PageTokens
    BY GeometryAssumption DEF IInv, TypeOK, WasteBounded
  <2>2. tokens'[r] = IF r = s THEN tokens[r] + 1 ELSE tokens[r]
    BY <1>1 DEF IInv, TypeOK
  <2>3. r = s => tokens[r] < room
    BY <1>1
  <2> HIDE DEF room
  <2>4. tokens'[r] <= room /\ room < tokens'[r] + PageTokens
    BY <2>1, <2>2, <2>3
  <2>5. QED
    BY <2>4 DEF room
<1>5. QED
  BY <1>2, <1>3, <1>4 DEF IInv

\* A token without takes one page nobody holds.
LEMMA AppendNewPageIInv ==
  ASSUME IInv, NEW s \in Seqs, AppendNewPage(s)
  PROVE  IInv'
<1> DEFINE k == Len(pages[s])
           page == Back(free)
<1>1. TypeOK /\ NoPageShared /\ NothingLeaked /\ WasteBounded
  BY DEF IInv
<1>2. /\ s \in active /\ tokens[s] < ContextLimit /\ PageFull(s) /\ free # <<>>
      /\ pages' = [pages EXCEPT ![s] = Append(pages[s], page)]
      /\ tokens' = [tokens EXCEPT ![s] = tokens[s] + 1]
      /\ free' = Left(1) /\ active' = active
  BY DEF AppendNewPage, Appendable, Left
<1>3. /\ free \in Seq(Pages) /\ Len(free) \in Nat \ {0} /\ page = free[Len(free)]
      /\ pages[s] \in Seq(Pages) /\ k \in Nat
  BY <1>1, <1>2 DEF TypeOK, Back
<1>4. /\ free' \in Seq(Pages) /\ Len(free') = Len(free) - 1
      /\ \A i \in 1 .. Len(free') : i \in 1 .. Len(free) /\ free'[i] = free[i]
  <2>1. Split(free', Taken(1), 1)
    <3>1. 1 \in Nat /\ 1 <= Len(free)
      BY <1>3
    <3>2. QED
      BY <1>1, <1>2, <3>1, PopPages
  <2>2. QED
    BY <2>1 DEF Split
<1>5. page \in Pages /\ IsFree(page) /\ \A i \in 1 .. Len(free') : free'[i] # page
  <2>1. page \in Pages /\ IsFree(page)
    BY <1>3 DEF IsFree
  <2>2. ASSUME NEW i \in 1 .. Len(free') PROVE free'[i] # page
    <3>1. i \in 1 .. Len(free) /\ Len(free) \in 1 .. Len(free) /\ i # Len(free)
      BY <1>3, <1>4
    <3>2. QED
      BY <1>1, <1>3, <1>4, <3>1 DEF NoPageShared
  <2>3. QED
    BY <2>1, <2>2
<1> HIDE DEF page
<1>6. /\ pages' \in [Seqs -> Seq(Pages)] /\ Len(pages'[s]) = k + 1
      /\ \A i \in 1 .. k : pages'[s][i] = pages[s][i]
      /\ pages'[s][k + 1] = page
      /\ \A r \in Seqs \ {s} : pages'[r] = pages[r] /\ tokens'[r] = tokens[r]
      /\ tokens'[s] = tokens[s] + 1 /\ tokens' \in [Seqs -> 0 .. ContextLimit]
  <2>1. /\ Append(pages[s], page) \in Seq(Pages) /\ Len(Append(pages[s], page)) = k + 1
        /\ \A i \in 1 .. k : Append(pages[s], page)[i] = pages[s][i]
        /\ Append(pages[s], page)[k + 1] = page
    BY <1>3, <1>5
  <2>2. /\ pages'[s] = Append(pages[s], page) /\ pages' \in [Seqs -> Seq(Pages)]
        /\ \A r \in Seqs \ {s} : pages'[r] = pages[r]
    BY <1>1, <1>2, <2>1 DEF TypeOK
  <2>3. /\ \A r \in Seqs \ {s} : tokens'[r] = tokens[r]
        /\ tokens'[s] = tokens[s] + 1 /\ tokens' \in [Seqs -> 0 .. ContextLimit]
    BY <1>1, <1>2, GeometryAssumption DEF TypeOK
  <2>4. QED
    BY <2>1, <2>2, <2>3
<1>7. \A r \in active, i \in Nat : i \in 1 .. Len(pages'[r]) =>
        \/ i \in 1 .. Len(pages[r]) /\ pages'[r][i] = pages[r][i]
        \/ r = s /\ i = k + 1 /\ pages'[r][i] = page
  <2> SUFFICES ASSUME NEW r \in active, NEW i \in Nat, i \in 1 .. Len(pages'[r])
               PROVE  \/ i \in 1 .. Len(pages[r]) /\ pages'[r][i] = pages[r][i]
                      \/ r = s /\ i = k + 1 /\ pages'[r][i] = page
    OBVIOUS
  <2>1. CASE r = s
    BY <1>3, <1>6, <2>1
  <2>2. CASE r # s
    BY <1>1, <1>6, <2>2 DEF TypeOK
  <2>3. QED
    BY <2>1, <2>2
<1>8. TypeOK'
  BY <1>1, <1>2, <1>4, <1>6 DEF TypeOK
<1>9. \A r \in active : \A i \in 1 .. Len(pages[r]) : pages[r][i] # page
  BY <1>1, <1>5 DEF NoPageShared
<1>10. NoPageShared'
  <2>1. \A i, j \in 1 .. Len(free') : free'[i] = free'[j] => i = j
    BY <1>1, <1>4 DEF NoPageShared
  <2>2. ASSUME NEW r \in active, NEW i \in 1 .. Len(pages'[r])
        PROVE  \A j \in 1 .. Len(free') : free'[j] # pages'[r][i]
    <3>1. CASE i \in 1 .. Len(pages[r]) /\ pages'[r][i] = pages[r][i]
      <4>1. ~IsFree(pages[r][i])
        BY <1>1, <3>1 DEF NoPageShared
      <4>2. QED
        BY <1>4, <3>1, <4>1 DEF IsFree
    <3>2. CASE pages'[r][i] = page
      BY <1>5, <3>2
    <3>3. QED
      BY <1>7, <3>1, <3>2
  <2>3. ASSUME NEW q \in active, NEW r \in active, NEW i \in 1 .. Len(pages'[q]),
               NEW j \in 1 .. Len(pages'[r]), pages'[q][i] = pages'[r][j]
        PROVE  q = r /\ i = j
    <3>1. CASE /\ i \in 1 .. Len(pages[q]) /\ pages'[q][i] = pages[q][i]
               /\ j \in 1 .. Len(pages[r]) /\ pages'[r][j] = pages[r][j]
      <4>1. pages[q][i] = pages[r][j]
        BY <2>3, <3>1
      <4>2. QED
        BY ONLY q \in active, r \in active, <1>1, <3>1, <4>1
           DEF NoPageShared
    <3>2. CASE /\ i \in 1 .. Len(pages[q]) /\ pages'[q][i] = pages[q][i]
               /\ r = s /\ j = k + 1 /\ pages'[r][j] = page
      BY <1>9, <2>3, <3>2
    <3>3. CASE /\ q = s /\ i = k + 1 /\ pages'[q][i] = page
               /\ j \in 1 .. Len(pages[r]) /\ pages'[r][j] = pages[r][j]
      BY <1>9, <2>3, <3>3
    <3>4. CASE q = s /\ i = k + 1 /\ r = s /\ j = k + 1
      BY <3>4
    <3>5. QED
      BY <1>7, <3>1, <3>2, <3>3, <3>4
  <2>4. QED
    BY <1>2, <2>1, <2>2, <2>3 DEF NoPageShared, IsFree
<1>11. NothingLeaked'
  <2> SUFFICES ASSUME NEW p \in Pages
               PROVE  IsFree(p)' \/ \E r \in active : Holds(r, p)'
    BY <1>2 DEF NothingLeaked, Pages
  <2>1. CASE p = page
    <3>1. k + 1 \in 1 .. Len(pages'[s])
      BY <1>3, <1>6
    <3>2. QED
      BY <1>2, <1>6, <2>1, <3>1 DEF Holds
  <2>2. CASE IsFree(p) /\ p # page
    <3>1. PICK i \in 1 .. Len(free) : free[i] = p
      BY <2>2 DEF IsFree
    <3>2. i # Len(free)
      BY <1>3, <2>2, <3>1 DEF page, Back
    <3>3. i \in 1 .. Len(free') /\ free'[i] = p
      BY <1>3, <1>4, <3>1, <3>2
    <3>4. QED
      BY <3>3 DEF IsFree
  <2>3. CASE \E r \in active : Holds(r, p)
    <3>1. PICK r \in active : Holds(r, p)
      BY <2>3
    <3>2. PICK i \in 1 .. Len(pages[r]) : pages[r][i] = p
      BY <3>1 DEF Holds
    <3>3. i \in 1 .. Len(pages'[r]) /\ pages'[r][i] = p
      <4>1. CASE r = s
        <5>1. i \in 1 .. k /\ Len(pages'[r]) = k + 1
          BY <1>6, <3>2, <4>1
        <5>2. pages'[r][i] = pages[r][i]
          BY <1>6, <4>1, <5>1
        <5>3. QED
          BY <1>3, <3>2, <5>1, <5>2
      <4>2. CASE r # s
        <5>1. pages'[r] = pages[r]
          BY <1>1, <1>6, <4>2 DEF TypeOK
        <5>2. QED
          BY <3>2, <5>1
      <4>3. QED
        BY <4>1, <4>2
    <3>4. QED
      BY <1>2, <3>1, <3>3 DEF Holds
  <2>4. QED
    BY <1>1, <2>1, <2>2, <2>3 DEF NothingLeaked
<1>12. WasteBounded'
  <2>1. tokens[s] = k * PageTokens
    <3>1. /\ tokens[s] \in Nat /\ k * PageTokens \in Nat
          /\ tokens[s] <= k * PageTokens /\ tokens[s] >= k * PageTokens
      BY <1>1, <1>2, <1>3, GeometryAssumption DEF TypeOK, WasteBounded, PageFull
    <3>2. QED
      BY <3>1
  <2>2. (k + 1) * PageTokens = k * PageTokens + PageTokens /\ PageTokens \in Nat \ {0}
    BY <1>3, GeometryAssumption
  <2>3. /\ tokens'[s] <= (k + 1) * PageTokens
        /\ (k + 1) * PageTokens < tokens'[s] + PageTokens
    <3>1. tokens[s] \in Nat
      BY <1>1, <1>2 DEF TypeOK
    <3>2. QED
      BY <1>6, <2>1, <2>2, <3>1
  <2>4. \A r \in active \ {s} : /\ tokens'[r] = tokens[r] /\ pages'[r] = pages[r]
    BY <1>1, <1>6 DEF TypeOK
  <2>5. QED
    BY <1>1, <1>2, <1>6, <2>3, <2>4 DEF WasteBounded
<1>13. QED
  BY <1>8, <1>10, <1>11, <1>12 DEF IInv

\* A sequence that ends gives its pages back, each once.
LEMMA EndIInv ==
  ASSUME IInv, NEW s \in Seqs, End(s)
  PROVE  IInv'
<1>1. TypeOK /\ NoPageShared /\ NothingLeaked /\ WasteBounded
  BY DEF IInv
<1>2. /\ s \in active /\ free' = Given(free, pages[s]) /\ active' = active \ {s}
      /\ pages' = [pages EXCEPT ![s] = <<>>] /\ tokens' = [tokens EXCEPT ![s] = 0]
  BY DEF End, Given
<1>3. /\ free \in Seq(Pages) /\ pages[s] \in Seq(Pages)
      /\ \A i, j \in 1 .. Len(free) : free[i] = free[j] => i = j
      /\ \A i, j \in 1 .. Len(pages[s]) : pages[s][i] = pages[s][j] => i = j
      /\ \A i \in 1 .. Len(free), j \in 1 .. Len(pages[s]) : free[i] # pages[s][j]
  BY <1>1, <1>2 DEF TypeOK, NoPageShared, IsFree
<1>4. /\ free' \in Seq(Pages)
      /\ \A i, j \in 1 .. Len(free') : free'[i] = free'[j] => i = j
      /\ \A i \in 1 .. Len(free') : \/ \E j \in 1 .. Len(free) : free'[i] = free[j]
                                    \/ \E j \in 1 .. Len(pages[s]) : free'[i] = pages[s][j]
      /\ \A j \in 1 .. Len(free) : \E i \in 1 .. Len(free') : free'[i] = free[j]
      /\ \A j \in 1 .. Len(pages[s]) : \E i \in 1 .. Len(free') : free'[i] = pages[s][j]
  <2>1. Merged(free', free, pages[s], Pages)
    BY <1>2, <1>3, GiveBack
  <2>2. QED
    BY <2>1 DEF Merged
<1>5. /\ pages' \in [Seqs -> Seq(Pages)] /\ tokens' \in [Seqs -> 0 .. ContextLimit]
      /\ \A r \in active' : /\ r \in active /\ r # s
                            /\ pages'[r] = pages[r] /\ tokens'[r] = tokens[r]
  BY <1>1, <1>2, GeometryAssumption DEF TypeOK
<1>6. TypeOK'
  BY <1>1, <1>2, <1>4, <1>5 DEF TypeOK
<1>7. NoPageShared'
  <2>1. ASSUME NEW r \in active', NEW i \in 1 .. Len(pages'[r])
        PROVE  \A j \in 1 .. Len(free') : free'[j] # pages'[r][i]
    <3>1. i \in 1 .. Len(pages[r]) /\ pages'[r][i] = pages[r][i] /\ r \in active /\ r # s
      BY <1>5, <2>1
    <3>2. \A j \in 1 .. Len(free) : free[j] # pages[r][i]
      BY <1>1, <3>1 DEF NoPageShared, IsFree
    <3>3. \A j \in 1 .. Len(pages[s]) : pages[s][j] # pages[r][i]
      BY <1>1, <1>2, <3>1 DEF NoPageShared
    <3>4. QED
      BY <1>4, <3>1, <3>2, <3>3
  <2>2. ASSUME NEW q \in active', NEW r \in active', NEW i \in 1 .. Len(pages'[q]),
               NEW j \in 1 .. Len(pages'[r]), pages'[q][i] = pages'[r][j]
        PROVE  q = r /\ i = j
    BY <1>1, <1>5, <2>2 DEF NoPageShared
  <2>3. QED
    BY <1>4, <2>1, <2>2 DEF NoPageShared, IsFree
<1>8. NothingLeaked'
  <2> SUFFICES ASSUME NEW p \in Pages
               PROVE  IsFree(p)' \/ \E r \in active' : Holds(r, p)'
    BY DEF NothingLeaked, Pages
  <2>1. CASE IsFree(p) \/ Holds(s, p)
    <3>1. \E i \in 1 .. Len(free') : free'[i] = p
      <4>1. CASE IsFree(p)
        BY <1>4, <4>1 DEF IsFree
      <4>2. CASE Holds(s, p)
        BY <1>4, <4>2 DEF Holds
      <4>3. QED
        BY <2>1, <4>1, <4>2
    <3>2. QED
      BY <3>1 DEF IsFree
  <2>2. CASE \E r \in active \ {s} : Holds(r, p)
    BY <1>2, <1>5, <2>2 DEF Holds
  <2>3. QED
    BY <1>1, <2>1, <2>2 DEF NothingLeaked
<1>9. WasteBounded'
  BY <1>1, <1>5 DEF WasteBounded
<1>10. QED
  BY <1>6, <1>7, <1>8, <1>9 DEF IInv

\* Every step keeps the accounts.
LEMMA StepIInv ==
  ASSUME IInv, ~MayRebegin, [Next]_vars
  PROVE  IInv'
<1>1. CASE UNCHANGED vars
  BY <1>1 DEF vars, IInv, TypeOK, NoPageShared, NothingLeaked, WasteBounded, IsFree,
              Holds, Pages
<1>2. CASE Next
  <2>1. \A s \in Seqs, n \in 0 .. ContextLimit : Begin(s, n) => s \notin active
    BY DEF Begin
  <2>2. QED
    BY <1>2, <2>1, BeginIInv, AppendInPageIInv, AppendNewPageIInv, EndIInv DEF Next
<1>3. QED
  BY <1>1, <1>2

\* The accounts hold in every state.
LEMMA Invariant == ~MayRebegin /\ Spec => []IInv
<1> SUFFICES ASSUME ~MayRebegin PROVE Spec => []IInv
  OBVIOUS
<1>1. ASSUME IInv, [Next]_vars PROVE IInv'
  BY <1>1, StepIInv
<1>2. QED
  BY <1>1, InitIInv, PTL DEF Spec

\* The type invariant, as long as no active sequence is begun again.
THEOREM TypeCorrect == ~MayRebegin /\ Spec => []TypeOK
<1>1. IInv => TypeOK
  BY DEF IInv
<1>2. QED
  BY <1>1, Invariant, PTL

\* Every page has one owner: no two sequences, not the free list and a sequence, not nobody.
THEOREM PagesAccountedHolds == ~MayRebegin /\ Spec => []PagesAccounted
<1>1. IInv => PagesAccounted
  BY DEF IInv, PagesAccounted
<1>2. QED
  BY <1>1, Invariant, PTL

\* A sequence wastes less than one page.
THEOREM WasteBoundedHolds == ~MayRebegin /\ Spec => []WasteBounded
<1>1. IInv => WasteBounded
  BY DEF IInv
<1>2. QED
  BY <1>1, Invariant, PTL

-----------------------------------------------------------------------------
(* Tokens stay where they were written.                                    *)

\* A table that keeps its first entries keeps the places of the tokens on them.
LEMMA SamePlace ==
  ASSUME IInv, NEW s \in active, NEW t \in 0 .. (tokens[s] - 1),
         \A i \in 1 .. Len(pages[s]) : pages'[s][i] = pages[s][i]
  PROVE  Place(s, t)' = Place(s, t)
<1> DEFINE k == Len(pages[s])
           i == t \div PageTokens
<1>1. s \in Seqs /\ k \in Nat /\ t \in Nat /\ t < k * PageTokens
  <2>1. tokens[s] \in Nat /\ k \in Nat /\ PageTokens \in Nat /\ tokens[s] <= k * PageTokens
        /\ k * PageTokens \in Nat /\ s \in Seqs
    BY GeometryAssumption DEF IInv, TypeOK, WasteBounded
  <2> HIDE DEF k
  <2>2. QED
    BY <2>1
<1>2. i \in 0 .. (k - 1)
  <2> HIDE DEF k
  <2>1. QED
    BY <1>1, PageIndex
<1> HIDE DEF i
<1>3. i + 1 \in 1 .. k
  BY <1>1, <1>2
<1>4. pages'[s][i + 1] = pages[s][i + 1]
  BY <1>3
<1>5. QED
  BY <1>4 DEF Place, i

\* No step moves a token already placed.
LEMMA StepKeepsPlaces ==
  ASSUME IInv, ~MayRebegin, [Next]_vars, NEW s \in active \cap active',
         NEW t \in 0 .. (tokens[s] - 1)
  PROVE  Place(s, t)' = Place(s, t)
<1>1. SUFFICES \A i \in 1 .. Len(pages[s]) : pages'[s][i] = pages[s][i]
  BY SamePlace
<1>2. s \in active /\ s \in Seqs /\ pages \in [Seqs -> Seq(Pages)]
  BY DEF IInv, TypeOK
<1>3. ASSUME NEW r \in Seqs, NEW n \in 0 .. ContextLimit, Begin(r, n)
      PROVE  pages'[s] = pages[s]
  <2>1. r # s /\ \E p : pages' = [pages EXCEPT ![r] = p]
    BY <1>2, <1>3 DEF Begin
  <2>2. QED
    BY <1>2, <2>1
<1>4. ASSUME NEW r \in Seqs, AppendInPage(r) PROVE pages'[s] = pages[s]
  BY <1>4 DEF AppendInPage
<1>5. ASSUME NEW r \in Seqs, AppendNewPage(r)
      PROVE  \A i \in 1 .. Len(pages[s]) : pages'[s][i] = pages[s][i]
  <2>1. pages' = [pages EXCEPT ![r] = Append(pages[r], Back(free))]
    BY <1>5 DEF AppendNewPage
  <2>2. CASE r # s
    BY <1>2, <2>1, <2>2
  <2>3. CASE r = s
    <3>1. pages'[s] = Append(pages[s], Back(free)) /\ pages[s] \in Seq(Pages)
      BY <1>2, <2>1, <2>3
    <3>2. QED
      BY <3>1
  <2>4. QED
    BY <2>2, <2>3
<1>6. ASSUME NEW r \in Seqs, End(r) PROVE pages'[s] = pages[s]
  <2>1. r # s /\ pages' = [pages EXCEPT ![r] = <<>>]
    BY <1>6 DEF End
  <2>2. QED
    BY <1>2, <2>1
<1>7. CASE UNCHANGED vars
  BY <1>7 DEF vars
<1>8. QED
  BY <1>3, <1>4, <1>5, <1>6, <1>7 DEF Next

\* Nothing another sequence does, and no growth of its own, moves a token.
THEOREM TokensStayHolds == ~MayRebegin /\ Spec => TokensStay
<1> SUFFICES ASSUME ~MayRebegin PROVE Spec => TokensStay
  OBVIOUS
<1> DEFINE Stay == \A s \in active \cap active' : \A t \in 0 .. (tokens[s] - 1) :
                     Place(s, t)' = Place(s, t)
<1>1. ASSUME IInv, [Next]_vars PROVE [Stay]_vars
  BY <1>1, StepKeepsPlaces
<1>2. QED
  BY <1>1, Invariant, PTL DEF Spec, TokensStay
=============================================================================
