------------------------------- MODULE VramPlan -------------------------------
(***************************************************************************)
(* The memory planner, crates/moearc-engine/src/memory.rs: how many        *)
(* experts stay on the card and how much context is kept beside them, and  *)
(* the rounding of that to llama.cpp's whole blocks.  Everything here is a *)
(* function of its arguments.  Sizes are in any unit; a footprint is       *)
(*   [dense, expert, total, active, kv]                                    *)
(* (bytes of dense weights, of one expert, the number of experts, how many *)
(* of them one token activates, bytes of KV per token).  The headroom is   *)
(* the policy's fraction, in per cent.  The rationale is left out.         *)
(***************************************************************************)
EXTENDS Integers

CONSTANTS
  PageTokens,      \* tokens in a KV page
  MinContext,      \* the policy's least context, in tokens
  HeadroomPercent  \* of free memory

PlanAssumption ==
  /\ PageTokens \in Nat \ {0} /\ MinContext \in Nat
  /\ HeadroomPercent \in 0 .. 100

None == -1     \* an Option that is not there
Largest == -1  \* Context::Largest; any other request is a number of tokens

Lesser(a, b) == IF a <= b THEN a ELSE b
Greater(a, b) == IF a >= b THEN a ELSE b
Clamp(x, lo, hi) == Greater(lo, Lesser(x, hi))
CeilDiv(a, b) == (a + b - 1) \div b

PagesFor(tokens) == CeilDiv(tokens, PageTokens)
MinPages == PagesFor(MinContext)
Reserve(free) == CeilDiv(free * HeadroomPercent, 100)

ValidModel(m) ==
  /\ m.total # 0 /\ m.active # 0 /\ m.active <= m.total
  /\ m.expert # 0 /\ m.kv # 0

Usable(free, m) == free - Reserve(free) - m.dense
PageBytes(m) == m.kv * PageTokens
FloorBytes(m) == m.expert * m.active
ExpertCap(m, cap) ==
  Greater(IF cap = None THEN m.total ELSE Lesser(cap, m.total), m.active)

\* The KV pages left beside r experts.
PagesBeside(free, m, r) == (Usable(free, m) - m.expert * r) \div PageBytes(m)

\* Experts first: all that is left once the pages the bias promises are set aside.
Promised(bias, want) ==
  IF bias = "context" /\ want # Largest THEN Greater(PagesFor(want), MinPages)
  ELSE MinPages
Greedy(free, m, cap, bias, want) ==
  LET left == Greater(0, Usable(free, m) - PageBytes(m) * Promised(bias, want))
  IN Clamp(left \div m.expert, m.active, ExpertCap(m, cap))

\* Experts given up one by one until the pages needed are there, or the floor is met.
Yielded(free, m, resident, need) ==
  LET enough == {r \in m.active .. resident : PagesBeside(free, m, r) >= need}
  IN IF enough = {} THEN m.active
     ELSE CHOOSE r \in enough : \A s \in enough : s <= r

Refused(why, achievable) == [ok |-> FALSE, why |-> why, achievable |-> achievable]
Allocated(m, resident, pages) ==
  [ok |-> TRUE, resident |-> resident, pages |-> pages,
   tokens |-> pages * PageTokens,
   committed |-> m.dense + m.expert * resident + PageBytes(m) * pages]

\* The allocation once its pages are known, and the last check on them.
Settled(m, resident, pages) ==
  IF pages < MinPages THEN Refused("context too small", pages * PageTokens)
  ELSE Allocated(m, resident, pages)

Reduced(free, m, fewer, need) ==
  IF PagesBeside(free, m, fewer) < need
  THEN Refused("context does not fit", PagesBeside(free, m, fewer) * PageTokens)
  ELSE Settled(m, fewer, need)
Beside(free, m, resident, have, bias, want) ==
  IF want = Largest THEN Settled(m, resident, have)
  ELSE IF PagesFor(want) <= have THEN Settled(m, resident, PagesFor(want))
  ELSE IF bias = "context" THEN Refused("context does not fit", have * PageTokens)
  ELSE Reduced(free, m, Yielded(free, m, resident, PagesFor(want)), PagesFor(want))
Placed(free, m, resident, bias, want) ==
  Beside(free, m, resident, PagesBeside(free, m, resident), bias, want)

Plan(free, m, cap, bias, want) ==
  LET usable == Usable(free, m) IN
  IF ~ValidModel(m) THEN Refused("invalid model", 0)
  ELSE IF usable < 0 THEN Refused("weights", 0)
  ELSE IF FloorBytes(m) > usable THEN Refused("active experts", 0)
  ELSE IF FloorBytes(m) + PageBytes(m) * MinPages > usable
       THEN Refused("context too small", PagesBeside(free, m, m.active) * PageTokens)
  ELSE Placed(free, m, Greedy(free, m, cap, bias, want), bias, want)

-----------------------------------------------------------------------------
(* llama.cpp keeps or offloads the experts of a whole block.               *)
GpuBlocks(resident, blocks, perBlock) == Lesser(resident \div perBlock, blocks)

LlamaSplit(alloc, blocks, perBlock) ==
  [ok |-> TRUE, ncmoe |-> blocks - GpuBlocks(alloc.resident, blocks, perBlock),
   ctx |-> alloc.tokens]

\* A split, or why there is none; the geometry must multiply out.
Rounded(alloc, m, blocks, perBlock) ==
  IF ~alloc.ok THEN alloc
  ELSE IF blocks = 0 \/ perBlock = 0 \/ blocks * perBlock # m.total
       THEN Refused("invalid model", 0)
  ELSE LlamaSplit(alloc, blocks, perBlock)
PlanLlama(free, m, blocks, perBlock, cap, want) ==
  Rounded(Plan(free, m, cap, "experts", want), m, blocks, perBlock)

-----------------------------------------------------------------------------
(* What an allocation must satisfy, stated without the planner.            *)
Feasible(free, m, cap, want, r, pages) ==
  /\ r \in m.active .. ExpertCap(m, cap)
  /\ pages >= MinPages /\ (want # Largest => pages = PagesFor(want))
  /\ m.dense + m.expert * r + PageBytes(m) * pages <= free - Reserve(free)

\* The planner refuses exactly when nothing feasible exists; what it grants is
\* feasible and no feasible allocation keeps more experts, nor more pages beside them.
IsBest(free, m, cap, want, maxPages) ==
  LET out == Plan(free, m, cap, "experts", want)
      feasible == {f \in (0 .. m.total) \X (0 .. maxPages) :
                     Feasible(free, m, cap, want, f[1], f[2])}
  IN IF ~out.ok THEN feasible = {}
     ELSE /\ <<out.resident, out.pages>> \in feasible
          /\ \A f \in feasible :
               f[1] < out.resident \/ (f[1] = out.resident /\ f[2] <= out.pages)

\* A refusal that names an achievable context means it: asking for that succeeds.
IsHonest(free, m, cap, bias, want) ==
  LET out == Plan(free, m, cap, bias, want)
  IN ~out.ok /\ out.why = "context does not fit" =>
       Plan(free, m, cap, bias, out.achievable).ok

\* Which way the bias points does not matter to what is allocated (fit.rs:648-660).
BiasIsMoot(free, m, cap, want) ==
  LET byExperts == Plan(free, m, cap, "experts", want)
      byContext == Plan(free, m, cap, "context", want)
  IN byExperts.ok = byContext.ok /\ (byExperts.ok => byExperts = byContext)
==============================================================================
