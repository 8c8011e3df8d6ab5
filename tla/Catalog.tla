-------------------------------- MODULE Catalog --------------------------------
(***************************************************************************)
(* Which model a name means: the catalogue of crates/moearc-cli            *)
(* (catalog.rs), scanned by one command that lists the models and again by *)
(* the next one, which is given a name, and the file moearc-model's pull   *)
(* picks of a repository (pull.rs).  The directory and the repository are  *)
(* edited in between, and during a scan too.                               *)
(*                                                                         *)
(* A name is a sequence of the parts its dashes separate, in lower case; a *)
(* file is [stem, upper, place] where upper tells it from its namesake in  *)
(* lower case and place is its place in the order of the paths.  What a    *)
(* file holds is [kind, quant, bytes], kind one of "moe", "dense",         *)
(* "broken".  A want is [text, ext]: a name as typed, with the extension   *)
(* or without; a selector is [exact, text].                                *)
(***************************************************************************)
EXTENDS Integers, Sequences, FiniteSetsExt, Functions

CONSTANTS
  Files, Contents, Directories,  \* what may be in the directory, and what is at first
  MaxEdits,                      \* bound on what changes
  Wants,                         \* names typed from memory
  Repositories, Selectors        \* what may be in a repository, and what is asked of it

VARIABLES
  dir, edits,            \* the directory and how often it was edited
  cpc,                   \* where the command is
  paths, cards, skipped, \* its scan
  listed,                \* what the command before it listed, with what the files held
  want, got,             \* resolve
  repo, chosen           \* pull: the repository and the file that was chosen

scan == <<paths, cards, skipped>>
catalogVars == <<dir, edits, cpc, scan, listed, want, got, repo, chosen>>

NoCard == [is |-> "none", file |-> {}]
Found(file) == [is |-> "found", file |-> {file}]
Error(what) == [is |-> what, file |-> {}]

CatalogInit ==
  /\ dir \in Directories /\ edits = 0
  /\ cpc \in {"list", "select"} /\ paths = <<>> /\ cards = <<>> /\ skipped = <<>>
  /\ listed = <<>> /\ want = {} /\ got = NoCard
  /\ repo \in Repositories /\ chosen = NoCard
  /\ cpc = "select" => dir = << >>
  /\ cpc = "list" => repo = CHOOSE r \in Repositories : TRUE

\* The elements of a finite set, each after those that come before it.
InOrder(set, before) ==
  [i \in 1 .. Cardinality(set) |->
     CHOOSE e \in set : Cardinality({f \in set : <<f, e>> \in before}) = i - 1]

\* What the directory holds, and what the paths are ordered by.
CatalogAssumption ==
  /\ \A f \in Files : f.stem \in Seq(Range(f.stem)) /\ f.place \in Nat
  /\ \A f, g \in Files : f.place = g.place => f = g
  /\ \A c \in Contents : c.bytes \in Nat
  /\ \A d \in Directories : DOMAIN d \subseteq Files /\ IsFiniteSet(DOMAIN d)
  /\ \A d \in Directories : \A f \in DOMAIN d : d[f].bytes \in Nat

-----------------------------------------------------------------------------
(* The directory and the Hub.                                              *)
Edit ==
  /\ edits < MaxEdits /\ edits' = edits + 1
  /\ cpc = "ask" \/ (cpc = "read" /\ paths # <<>>)
  /\ \/ \E f \in DOMAIN dir : dir' = [g \in DOMAIN dir \ {f} |-> dir[g]]
     \/ \E f \in Files, c \in Contents :
          dir' = [g \in DOMAIN dir \cup {f} |-> IF g = f THEN c ELSE dir[g]]
  /\ UNCHANGED <<cpc, scan, listed, want, got, repo, chosen>>

Publish ==
  /\ edits < MaxEdits /\ cpc = "confirm" /\ edits' = edits + 1
  /\ repo' \in Repositories
  /\ UNCHANGED <<dir, cpc, scan, listed, want, got, chosen>>

-----------------------------------------------------------------------------
(* A scan: the paths, each file's header, and the handles.                 *)
Earlier(files) == {p \in files \X files : p[1].place < p[2].place}

ListPaths ==
  /\ cpc = "list"
  /\ paths' = InOrder(DOMAIN dir, Earlier(DOMAIN dir))
  /\ cards' = <<>> /\ skipped' = <<>> /\ cpc' = "read"
  /\ UNCHANGED <<dir, edits, listed, want, got, repo, chosen>>

\* A file that is gone, cut short or dense is named among the skipped.
ReadCard ==
  /\ cpc = "read" /\ paths # <<>>
  /\ LET f == Head(paths) IN
     IF f \in DOMAIN dir /\ dir[f].kind = "moe"
     THEN /\ cards' = Append(cards, [id |-> f.stem, file |-> f, holds |-> dir[f]])
          /\ UNCHANGED skipped
     ELSE skipped' = Append(skipped, f) /\ UNCHANGED cards
  /\ paths' = Tail(paths)
  /\ UNCHANGED <<dir, edits, cpc, listed, want, got, repo, chosen>>

Tag(id) == id[Len(id)]
Untagged(id) == SubSeq(id, 1, Len(id) - 1)
\* The handle without a last part that names the measured quantisation.
WithoutQuantTag(card) ==
  IF Len(card.id) > 1 /\ Tag(card.id) = card.holds.quant THEN Untagged(card.id) ELSE card.id

\* A handle is shortened when no other card claims the shorter one.
Claimed(all, id) == Cardinality({i \in DOMAIN all : WithoutQuantTag(all[i]) = id})
ShortenUnclaimed(all) ==
  [i \in DOMAIN all |-> [all[i] EXCEPT !.id = WithoutQuantTag(all[i])]]
ShortenHandles(all) ==
  [i \in DOMAIN all |->
     IF Claimed(all, WithoutQuantTag(all[i])) = 1
     THEN [all[i] EXCEPT !.id = WithoutQuantTag(all[i])] ELSE all[i]]

\* Largest first, and then by name.
Bigger(set) ==
  {p \in set \X set :
     \/ p[1].holds.bytes > p[2].holds.bytes
     \/ p[1].holds.bytes = p[2].holds.bytes /\ p[1].file.place < p[2].file.place}
Sorted(all) == InOrder(Range(all), Bigger(Range(all)))

Shorten ==
  /\ cpc = "read" /\ paths = <<>>
  /\ cards' = ShortenHandles(Sorted(cards))
  /\ IF want = {} THEN listed' = cards' /\ cpc' = "ask"
     ELSE cpc' = "resolve" /\ UNCHANGED listed
  /\ UNCHANGED <<dir, edits, paths, skipped, want, got, repo, chosen>>

\* The next command is given a listed handle, or whatever was typed.
Ask ==
  /\ cpc = "ask"
  /\ \E w \in Wants \cup {[text |-> c.id, ext |-> FALSE] : c \in Range(listed)} :
       want' = {w}
  /\ cpc' = "list"
  /\ UNCHANGED <<dir, edits, scan, listed, got, repo, chosen>>

Mentions(id, text) ==
  \E i \in 0 .. (Len(id) - Len(text)) : SubSeq(id, i + 1, i + Len(text)) = text
Named(card, w) == IF w.ext THEN card.file.stem = w.text ELSE card.id = w.text

\* Exactly, the first of them; by a part, the only one.
Resolve ==
  /\ cpc = "resolve"
  /\ \E w \in want :
     LET exact == {i \in DOMAIN cards : Named(cards[i], w)}
         hits == {i \in DOMAIN cards : ~w.ext /\ Mentions(cards[i].id, w.text)} IN
     got' = CASE exact # {} -> Found(cards[Min(exact)].file)
              [] exact = {} /\ Cardinality(hits) = 1 -> Found(cards[Min(hits)].file)
              [] exact = {} /\ hits = {} -> Error("no model")
              [] OTHER -> Error("several")
  /\ cpc' = "done"
  /\ UNCHANGED <<dir, edits, scan, listed, want, repo, chosen>>

-----------------------------------------------------------------------------
(* pull: the file a selector means, and whether the Hub has it.            *)
Hits(selector) == {f \in repo : Mentions(f, selector.text)}

ResolveFilename ==
  /\ cpc = "select"
  /\ \E s \in Selectors :
       /\ want' = {s}
       /\ chosen' = CASE s.exact -> Found(s.text)
                      [] ~s.exact /\ repo = {} -> Error("no files")
                      [] ~s.exact /\ repo # {} /\ Hits(s) = {} -> Error("not found")
                      [] ~s.exact /\ \E f \in repo : Hits(s) = {f} -> [is |-> "found", file |-> Hits(s)]
                      [] OTHER -> Error("ambiguous")
  /\ cpc' = IF chosen'.is = "found" THEN "confirm" ELSE "done"
  /\ UNCHANGED <<dir, edits, scan, listed, got, repo>>

\* Its size and identity are asked for under that very path.
PathsInfo ==
  /\ cpc = "confirm"
  /\ chosen' = IF chosen.file \subseteq repo THEN chosen ELSE Error("not found")
  /\ cpc' = "done"
  /\ UNCHANGED <<dir, edits, scan, listed, want, got, repo>>

CatalogNext ==
  \/ Edit \/ Publish \/ ListPaths \/ ReadCard \/ Shorten \/ Ask \/ Resolve
  \/ ResolveFilename \/ PathsInfo

-----------------------------------------------------------------------------
(* Properties.                                                             *)
\* Two things make handles collide all the same: names that differ only in case, and a name
\* whose tag follows the same tag.
Twins(all) == \E i, j \in DOMAIN all : i < j /\ all[i].file.stem = all[j].file.stem
Nested(all) ==
  \E i, j \in DOMAIN all : /\ Len(all[i].file.stem) > 1
                           /\ Untagged(all[i].file.stem) = all[j].file.stem
                           /\ Tag(all[j].file.stem) = all[j].holds.quant
Plain(all) == ~Twins(all) /\ ~Nested(all)

\* No two cards answer to one handle (catalog.rs:211-219).
HandlesAreDistinct ==
  cpc \in {"ask", "resolve"} /\ Plain(cards) =>
    \A i, j \in DOMAIN cards : cards[i].id = cards[j].id => i = j

\* A handle that was listed means the same file to the next command, or an error, as long as
\* the file is there.  Two things may take it over: a file of that very name, and, once the
\* file's handle has been shortened since, one whose handle the old one is a part of
\* (catalog.rs:118-145).
HandlesKeepTheirFile ==
  cpc = "done" /\ got.is = "found" /\ Plain(cards) /\ Plain(listed) =>
    \A w \in want, i \in DOMAIN listed, c, d \in Range(cards) :
      /\ got.file = {d.file} /\ ~w.ext /\ listed[i].id = w.text
      /\ c.file = listed[i].file /\ c.holds = listed[i].holds
      => \/ d = c \/ d.file.stem = w.text
         \/ Len(c.id) < Len(w.text) /\ Mentions(d.id, w.text)

\* What a selector picks is the only file it could mean, and is there to be had
\* (pull.rs:858-875).
NothingIsGuessed ==
  chosen.is = "found" =>
    \A s \in want, f \in chosen.file :
      /\ s.exact => f = s.text
      /\ ~s.exact /\ cpc = "confirm" /\ edits = 0 => Hits(s) = {f}
      /\ cpc = "done" => f \in repo

NamesAreKept == HandlesAreDistinct /\ HandlesKeepTheirFile /\ NothingIsGuessed
==============================================================================
