----------------------------------- MODULE Tui -----------------------------------
(***************************************************************************)
(* The interface: the reducer of crates/moearc-cli/src/tui/model.rs, its   *)
(* runtime in tui/mod.rs and the host budget of moearc-engine's            *)
(* host_budget.rs.  One thread performs the pending effects, polls for a   *)
(* key and a frame, then applies every message in order.  What an effect   *)
(* reads of the interface it reads when it is performed; what the machine  *)
(* answers is chosen where the answer is applied.  A fit or a tuning is    *)
(* what it was computed from, <<device, card, context>>.  The spinner, the *)
(* help overlay, the vitals panel and the text of a field are left out.    *)
(***************************************************************************)
EXTENDS Integers, Sequences

CONSTANTS
  Absent,            \* an Option that is None
  Openings,          \* [what, card, ctx, bytes, keys]: the command, its model, --ctx,
                     \* --host-budget, and the keys that will be pressed
  Reports,           \* device reports: sequences of [name, target]
  Catalogs,          \* catalogues: sequences of cards [id, bytes, local]
  Hosts,             \* host reports: [available, free]
  Transfers,         \* [resume, total, perTick]
  Rungs,             \* CONTEXT_LADDER
  ReservePercent, GiB

ItemsOf(lists) == UNION {{l[i] : i \in DOMAIN l} : l \in lists}

\* Lists are lists, bytes and tokens are counted, and an Option that is None is no value.
TuiInputs ==
  /\ Reports \subseteq Seq(ItemsOf(Reports)) /\ Catalogs \subseteq Seq(ItemsOf(Catalogs))
  /\ Rungs \in Seq(ItemsOf({Rungs})) /\ Rungs # <<>>
  /\ Hosts \subseteq [available : Nat, free : Nat]
  /\ Transfers \subseteq [resume : Nat, total : Nat, perTick : Nat]
  /\ \A o \in Openings : o.bytes # Absent => o.bytes \in Nat
  /\ ReservePercent \in Nat /\ GiB \in Nat \ {0}

VARIABLES
  keyboard, turn, pending, inbox,
  screen, report, device_row, models, fits, tunings, model_row, editing, typed,
  download, serving, ctx_request, host, budget, budget_request, placements, status, quit

loop == <<keyboard, turn, pending, inbox>>
plans == <<fits, tunings>>
ram == <<host, budget, budget_request, placements>>
rows == <<device_row, model_row>>
facts == <<report, models, plans, ram, status>>
forms == <<screen, rows, editing, typed>>
tuiVars == <<loop, facts, forms, download, serving, ctx_request, quit>>

-----------------------------------------------------------------------------
\* host_budget.rs: what a budget may be, and what it makes of a model.
Smaller(a, b) == IF a < b THEN a ELSE b
Larger(a, b) == IF a > b THEN a ELSE b
RoundUp(n, d) == (n + d - 1) \div d
CeilingOf(memory) == memory.available - RoundUp(memory.available * ReservePercent, 100)
DefaultBudget(memory) ==
  [bytes |-> CeilingOf(memory), memory |-> memory, source |-> "default"]
Requested(memory, want) ==
  [bytes |-> Smaller(want, CeilingOf(memory)), memory |-> memory,
   source |-> IF want > CeilingOf(memory) THEN "clamped" ELSE "requested"]
MovedTo(b, want) ==
  [b EXCEPT !.bytes = Smaller(want, CeilingOf(b.memory)), !.source = "requested"]
StepBytes(b) == Larger(RoundUp(CeilingOf(b.memory) \div 32, GiB), 1) * GiB

Place(card, b, free) ==
  LET inRam == Smaller(card.bytes, b.bytes) IN
  IF ~card.local /\ card.bytes > free THEN [tier |-> "won't fit", ram |-> 0, disk |-> 0]
  ELSE [tier |-> IF inRam = card.bytes THEN "ram" ELSE "pages", ram |-> inRam,
        disk |-> card.bytes - inRam]

\* fit.rs: the rung that covers a context, the last one when none does.
LadderIndex(c) ==
  LET covering == {i \in 2 .. Len(Rungs) : c # Absent => Rungs[i] >= c} IN
  IF c = Absent THEN 1
  ELSE IF covering = {} THEN Len(Rungs)
  ELSE CHOOSE i \in covering : \A j \in covering : i <= j
LadderStep(c, by) == Rungs[Larger(1, Smaller(LadderIndex(c) + by, Len(Rungs)))]

-----------------------------------------------------------------------------
\* What is derived, and from what.
Primary(r) ==
  LET targets == {i \in 1 .. Len(r) : r[i].target} IN
  IF targets = {} THEN Absent ELSE r[CHOOSE i \in targets : \A j \in targets : i <= j]
Device(r) == IF r = Absent THEN Absent ELSE Primary(r)
FitsOf(d, cards, c) ==
  IF d = Absent THEN <<>> ELSE [i \in 1 .. Len(cards) |-> <<d, cards[i], c>>]
PlacementsOf(b, h, cards) ==
  IF b = Absent \/ h = Absent THEN <<>>
  ELSE [i \in 1 .. Len(cards) |-> Place(cards[i], b, h.free)]

\* What a transfer and a served model are to the interface.
Downloads == [plan : Transfers, done : Nat, cancelled : BOOLEAN]
Cards == ItemsOf(Catalogs) \cup {o.card : o \in Openings}
Contexts == ItemsOf({Rungs}) \cup {o.ctx : o \in Openings}
Servings ==
  [card : Cards,
   fit : {<<Device(r), card, c>> : r \in Reports, card \in Cards, c \in Contexts}]

TuiAssumption == TuiInputs /\ Absent \notin Downloads \cup Servings

RecomputeFits ==
  /\ fits' = FitsOf(Device(report'), models', ctx_request')
  /\ tunings' = FitsOf(Device(report'), models', ctx_request')
RecomputePlacements == placements' = PlacementsOf(budget', host', models')

ScreensOf(d, s) ==
  <<"devices", "models">> \o (IF d = Absent THEN <<>> ELSE <<"download">>)
                          \o (IF s = Absent THEN <<>> ELSE <<"serving">>)
Screens == ScreensOf(download, serving)
Wrapped(at, by, len) == (at + by + len) % len

-----------------------------------------------------------------------------
(* mod.rs: opening, and the effects.                                       *)
TuiOpens(o) ==
  /\ turn = "perform" /\ inbox = <<>> /\ keyboard = o.keys
  /\ pending = <<<<"detect">>>> \o
       (CASE o.what = "pull" -> <<<<"download">>>>
          [] o.what = "serve" -> <<<<"serve", o.card>>>>
          [] OTHER -> <<>>)
  /\ screen = IF o.what \in {"ls", "info"} THEN "models" ELSE "devices"
  /\ ctx_request = o.ctx /\ budget_request = o.bytes
  /\ report = Absent /\ models = <<>> /\ fits = <<>> /\ tunings = <<>>
  /\ device_row = 0 /\ model_row = 0 /\ editing = FALSE /\ typed = FALSE
  /\ download = Absent /\ serving = Absent /\ host = Absent /\ budget = Absent
  /\ placements = <<>> /\ status = Absent /\ quit = FALSE
TuiInit == \E o \in Openings : TuiOpens(o)

Performed(answers) ==
  /\ turn = "perform" /\ ~quit /\ pending # <<>>
  /\ pending' = Tail(pending) /\ inbox' = inbox \o answers
  /\ UNCHANGED <<keyboard, turn, forms, facts, download, serving, ctx_request, quit>>

PerformDetect ==
  /\ pending # <<>> /\ Head(pending)[1] = "detect"
  /\ Performed(<<<<"devices">>, <<"catalog">>, <<"host">>, <<"skipped">>>>)

PerformDownload ==
  /\ pending # <<>> /\ Head(pending)[1] = "download"
  /\ Performed(<<<<"transfer">>>>)

PerformServe ==
  /\ pending # <<>> /\ Head(pending)[1] = "serve"
  /\ LET card == Head(pending)[2] IN
     \/ Performed(<<<<"failed", "failed">>>>)
     \/ Device(report) = Absent /\ Performed(<<<<"failed", "no_device">>>>)
     \/ Device(report) # Absent
        /\ LET fit == <<Device(report), card, ctx_request>> IN
           Performed(<<<<"serving", [card |-> card, fit |-> fit]>>>>)

\* The frame is drawn; a key or the end of a frame may have come meanwhile.  (The first
\* form, a mutant's, polls before the effects are performed.)
Polled ==
  /\ turn = "perform" /\ ~quit
  /\ \E key, tick \in BOOLEAN :
       inbox' = inbox \o (IF key THEN <<<<"key">>>> ELSE <<>>)
                      \o (IF tick THEN <<<<"tick">>>> ELSE <<>>)
  /\ inbox' # <<>>
  /\ turn' = "update"
  /\ UNCHANGED <<keyboard, pending, forms, facts, download, serving, ctx_request, quit>>
PollEarly == Polled
Poll == pending = <<>> /\ Polled

-----------------------------------------------------------------------------
(* model.rs: update, one message.                                          *)
Delivered(what) ==
  /\ turn = "update" /\ inbox # <<>> /\ Head(inbox)[1] = what
  /\ inbox' = Tail(inbox)
  /\ turn' = IF Tail(inbox) = <<>> THEN "perform" ELSE "update"
  /\ UNCHANGED keyboard
Quietly == UNCHANGED <<pending, quit>>

Failed(why) ==
  /\ status' = why
  /\ UNCHANGED <<forms, report, models, plans, download, serving, ctx_request, ram>>
UpdateFailed == Delivered("failed") /\ Failed(Head(inbox)[2]) /\ Quietly

UpdateDetected ==
  /\ Delivered("devices") /\ Quietly
  /\ \/ Failed("failed")
     \/ /\ report' \in Reports /\ device_row' = 0
        /\ UNCHANGED <<screen, models, model_row, editing, typed, download, serving,
                       ctx_request, ram, status>>
        /\ RecomputeFits

UpdateCatalog ==
  /\ Delivered("catalog") /\ Quietly
  /\ \/ Failed("failed")
     \/ /\ models' \in Catalogs /\ model_row' = 0
        /\ UNCHANGED <<screen, report, device_row, editing, typed, download, serving,
                       ctx_request, host, budget, budget_request, status>>
        /\ RecomputeFits /\ RecomputePlacements

UpdateHost ==
  /\ Delivered("host") /\ Quietly
  /\ \/ Failed("failed")
     \/ /\ host' \in Hosts
        /\ budget' = IF budget # Absent THEN Requested(host', budget.bytes)
                     ELSE IF budget_request # Absent THEN Requested(host', budget_request)
                     ELSE DefaultBudget(host')
        /\ UNCHANGED <<forms, report, models, plans, download, serving, ctx_request,
                       budget_request, status>>
        /\ RecomputePlacements

\* Files that could not be read, when there are any.
UpdateSkipped ==
  /\ Delivered("skipped") /\ Quietly
  /\ \/ Failed("failed")
     \/ UNCHANGED <<forms, facts, download, serving, ctx_request>>

UpdateTransferReady ==
  /\ Delivered("transfer") /\ Quietly
  /\ \/ Failed("failed")
     \/ /\ \E t \in Transfers :
             download' = [plan |-> t, done |-> t.resume, cancelled |-> FALSE]
        /\ screen' = "download" /\ status' = Absent
        /\ UNCHANGED <<report, models, plans, rows, editing, typed, serving, ctx_request, ram>>

UpdateServing ==
  /\ Delivered("serving") /\ Quietly
  /\ serving' = Head(inbox)[2] /\ screen' = "serving" /\ status' = Absent
  /\ UNCHANGED <<report, models, plans, rows, editing, typed, download, ctx_request, ram>>

\* advance_download: one frame's bytes, never past the end.
Advanced(d) ==
  IF d.cancelled THEN d
  ELSE [d EXCEPT !.done = Smaller(d.done + d.plan.perTick, d.plan.total)]
UpdateTick ==
  /\ Delivered("tick") /\ Quietly
  /\ download' = IF download = Absent THEN Absent ELSE Advanced(download)
  /\ UNCHANGED <<forms, facts, serving, ctx_request>>

-----------------------------------------------------------------------------
(* on_key and on_key_editing.                                              *)
Pressed(key) == Delivered("key") /\ key \in keyboard
Ask(effect) == pending' = Append(pending, effect) /\ UNCHANGED quit
Selected == models[model_row + 1]
OnModels == screen = "models" /\ model_row < Len(models)

\* Ctrl-C whatever has the focus, q outside the field.
KeyQuit ==
  /\ Pressed("ctrl-c") \/ (Pressed("q") /\ ~editing)
  /\ quit' = TRUE
  /\ UNCHANGED <<pending, forms, facts, download, serving, ctx_request>>

\* The field is left with Esc or Enter; every other key is text.
KeyEditing ==
  /\ editing
  /\ \/ Pressed("esc") /\ editing' = FALSE /\ typed' = FALSE /\ Quietly
     \/ /\ Pressed("enter") /\ editing' = FALSE /\ typed' = FALSE
        /\ IF typed THEN Ask(<<"download">>) ELSE Quietly
     \/ /\ \E key \in keyboard \ {"esc", "enter", "ctrl-c"} : Pressed(key)
        /\ typed' \in BOOLEAN /\ UNCHANGED editing /\ Quietly
  /\ UNCHANGED <<screen, facts, rows, download, serving, ctx_request>>

\* Tab and back-tab go round the tabs there are, a digit goes to one of them.
KeyScreen ==
  /\ ~editing /\ Quietly
  /\ LET at == CHOOSE i \in 1 .. Len(Screens) + 1 : i > Len(Screens) \/ Screens[i] = screen
         here == IF at > Len(Screens) THEN 0 ELSE at - 1
     IN \/ Pressed("tab") /\ screen' = Screens[Wrapped(here, 1, Len(Screens)) + 1]
        \/ Pressed("back-tab") /\ screen' = Screens[Wrapped(here, -1, Len(Screens)) + 1]
  /\ UNCHANGED <<facts, rows, editing, typed, download, serving, ctx_request>>

KeyDigit ==
  /\ ~editing /\ Quietly
  /\ \E n \in 1 .. 4 :
       /\ Pressed(<<"1", "2", "3", "4">>[n])
       /\ screen' = IF n <= Len(Screens) THEN Screens[n] ELSE screen
  /\ UNCHANGED <<facts, rows, editing, typed, download, serving, ctx_request>>

KeyBudget ==
  /\ ~editing /\ Quietly
  /\ \E key \in {"-", "+", "0", "m"} :
       /\ Pressed(key)
       /\ budget' = IF budget = Absent THEN Absent
                    ELSE MovedTo(budget,
                      CASE key = "-" -> Larger(budget.bytes - StepBytes(budget), 0)
                        [] key = "+" -> budget.bytes + StepBytes(budget)
                        [] key = "0" -> 0
                        [] key = "m" -> CeilingOf(budget.memory))
  /\ UNCHANGED <<forms, report, models, plans, download, serving, ctx_request, host,
                 budget_request, status>>
  /\ IF budget = Absent THEN UNCHANGED placements ELSE RecomputePlacements

KeyContext ==
  /\ ~editing /\ Quietly
  /\ \/ Pressed("[") /\ ctx_request' = LadderStep(ctx_request, -1)
     \/ Pressed("]") /\ ctx_request' = LadderStep(ctx_request, 1)
  /\ UNCHANGED <<forms, report, models, download, serving, ram, status>>
  /\ RecomputeFits

KeyMove ==
  /\ ~editing /\ Quietly
  /\ \E by \in {-1, 1} :
       /\ Pressed(IF by = 1 THEN "down" ELSE "up")
       /\ device_row' = IF screen = "devices" /\ report # Absent /\ report # <<>>
                       THEN Wrapped(device_row, by, Len(report)) ELSE device_row
       /\ model_row' = IF screen = "models" /\ models # <<>>
                      THEN Wrapped(model_row, by, Len(models)) ELSE model_row
  /\ UNCHANGED <<screen, facts, editing, typed, download, serving, ctx_request>>

\* Devices: r drops the report and the fits and detects again.
KeyRescan ==
  /\ ~editing /\ screen = "devices" /\ Pressed("r")
  /\ report' = Absent /\ fits' = <<>> /\ Ask(<<"detect">>)
  /\ UNCHANGED <<forms, models, tunings, download, serving, ctx_request, ram, status>>

\* Models: / opens the field; d, s and Enter ask for the selected model.
KeyField ==
  /\ ~editing /\ screen = "models" /\ Pressed("/") /\ editing' = TRUE /\ Quietly
  /\ UNCHANGED <<screen, facts, rows, typed, download, serving, ctx_request>>

KeyModel ==
  /\ ~editing /\ OnModels
  /\ \/ /\ Pressed("d") \/ (Pressed("enter") /\ ~Selected.local)
        /\ Ask(<<"download">>)
     \/ /\ Pressed("s") \/ (Pressed("enter") /\ Selected.local)
        /\ Ask(<<"serve", Selected>>)
  /\ UNCHANGED <<forms, facts, download, serving, ctx_request>>

\* Enter and Esc between the screens.
KeyLeave ==
  /\ ~editing /\ Quietly
  /\ \/ screen = "devices" /\ Pressed("enter") /\ screen' = "models"
     \/ screen = "models" /\ Pressed("esc") /\ screen' = "devices"
     \/ screen = "download" /\ (Pressed("esc") \/ Pressed("enter")) /\ screen' = "models"
     \/ screen = "serving" /\ Pressed("esc") /\ screen' = "models"
  /\ UNCHANGED <<facts, rows, editing, typed, download, serving, ctx_request>>

KeyCancel ==
  /\ ~editing /\ screen = "download" /\ Pressed("x") /\ Quietly
  /\ download' = [download EXCEPT !.cancelled = TRUE]
  /\ UNCHANGED <<forms, facts, serving, ctx_request>>

KeyStop ==
  /\ ~editing /\ screen = "serving" /\ Pressed("s") /\ Quietly
  /\ serving' = Absent /\ screen' = "models"
  /\ UNCHANGED <<facts, rows, editing, typed, download, ctx_request>>

\* A key that is bound to nothing here.
Bound(key) ==
  \/ editing
  \/ key \in {"ctrl-c", "q", "tab", "back-tab", "1", "2", "3", "4", "-", "+", "0", "m",
              "[", "]", "up", "down"}
  \/ screen = "devices" /\ key \in {"r", "enter"}
  \/ screen = "models" /\ (key \in {"/", "esc"} \/ (OnModels /\ key \in {"d", "s", "enter"}))
  \/ screen = "download" /\ key \in {"x", "esc", "enter"}
  \/ screen = "serving" /\ key \in {"s", "esc"}
KeyIgnored ==
  /\ \E key \in keyboard : ~Bound(key) /\ Pressed(key)
  /\ UNCHANGED <<pending, forms, facts, download, serving, ctx_request, quit>>

Key ==
  \/ KeyQuit \/ KeyEditing \/ KeyScreen \/ KeyDigit \/ KeyBudget \/ KeyContext \/ KeyMove
  \/ KeyRescan \/ KeyField \/ KeyModel \/ KeyLeave \/ KeyCancel \/ KeyStop \/ KeyIgnored
Update ==
  \/ UpdateDetected \/ UpdateCatalog \/ UpdateHost \/ UpdateSkipped \/ UpdateTransferReady
  \/ UpdateServing \/ UpdateFailed \/ UpdateTick \/ Key
TuiNext == PerformDetect \/ PerformDownload \/ PerformServe \/ Poll \/ Update

-----------------------------------------------------------------------------
(* Properties.                                                             *)

\* What is on screen was computed from what is on screen beside it: the fits from the
\* device, the catalogue and the dial of now, the placements from the budget and the
\* machine of now, through rescans, failed detections and keys in any order ("a stale
\* fit is a wrong answer that looks authoritative", model.rs:98-99).  The tunings are
\* as fresh only while there is a report: r clears the fits and not the tunings.
PlansAreCurrent ==
  /\ fits = FitsOf(Device(report), models, ctx_request)
  /\ report # Absent => tunings = fits
  /\ placements = PlacementsOf(budget, host, models)

\* No cursor, tab, field or budget points at what is not there any more: the screen is
\* a tab there is, the field has the focus on the models screen only, whatever answers
\* come between two keys, and the budget is one of the machine as last measured.
NothingDangles ==
  /\ \E i \in DOMAIN Screens : Screens[i] = screen
  /\ editing => screen = "models"
  /\ model_row < Larger(Len(models), 1)
  /\ report # Absent => device_row < Larger(Len(report), 1)
  /\ budget # Absent => budget.memory = host /\ budget.bytes <= CeilingOf(host)

\* Nobody is told there is no device to serve on while the interface knows of one
\* ("serving screen | moearc serve <model>", cli.rs:15).
NoDeviceIsTrue ==
  turn = "update" /\ Head(inbox) = <<"failed", "no_device">> => Device(report) = Absent
==============================================================================
