-------------------------------- MODULE Startup --------------------------------
(***************************************************************************)
(* moearc-server from its arguments to its answers: which tokenizer, which *)
(* chat template and which generator main finds beside a model, what it    *)
(* says of them, and which requests reach the generator at all.            *)
(*                                                                         *)
(* A file says whose it is: "model" for the one whose weights are served,  *)
(* "other" for another.  Texts, vocabularies and regular expressions are   *)
(* names; a vocabulary also has a size.                                    *)
(***************************************************************************)
EXTENDS Integers, FiniteSetsExt, SequencesExt

CONSTANTS
  None,
  Launches,     \* command line, build and disk of the processes that may start
  Asked,        \* the requests clients send
  Families,     \* the pre-tokenizer families of PRE_TOKENIZER_REGEXES
  ModelSize,    \* the logits of the weights
  MaxArrayLen   \* MAX_ARRAY_LEN

VARIABLES
  launch,
  stage,        \* what main is about to do; "serving" or "failed" at last
  tokenizer, template, backend,   \* what it has chosen; None before
  said,         \* what the operator was told
  answer        \* the last request and its response

startup == <<launch, stage, tokenizer, template, backend, said, answer>>

\* Whose a template may be; one that does not compile is nobody's.
Templates == {None, "model", "other", "broken"}

\* A model is a file with a header of its own, which may hold no template of another
\* model, or a directory.
StartupAssumption ==
  /\ None \notin Asked
  /\ \A l \in Launches :
       /\ l.template \in Templates /\ l.require \in BOOLEAN
       /\ l.tokenizer # None => l.tokenizer.kind \in {"json", "gguf", "directory"}
       /\ l.model # None =>
            /\ l.model.kind \in {"gguf", "directory"} /\ l.model.header.of = "model"
            /\ l.model.jinja \in Templates /\ l.model.config \in Templates \cup {"unreadable"}
            /\ Len(l.model.header.entries) \in Nat
            /\ DOMAIN l.model.header.entries = 1 .. Len(l.model.header.entries)
            /\ \A i \in DOMAIN l.model.header.entries :
                 l.model.header.entries[i].key = "template" =>
                   l.model.header.entries[i].value \in {"model", "broken"}

-----------------------------------------------------------------------------
(* The header of a GGUF as this crate reads it (gguf.rs).                  *)

\* A file is the magic, a version, the number of entries it declares and those it
\* holds: a key, what went wrong reading it or "ok", and a value.
HeaderError(f) ==
  CASE ~f.magic -> "BadMagic"
    [] f.magic /\ f.version \notin 2 .. 3 -> "BadVersion"
    [] f.magic /\ f.version \in 2 .. 3 /\ f.declared > MaxArrayLen -> "ImplausibleLength"
    [] OTHER ->
         LET bad == {i \in DOMAIN f.entries : f.entries[i].read # "ok"}
         IN IF bad # {} THEN f.entries[Min(bad)].read
            ELSE IF Len(f.entries) < f.declared THEN "Io" ELSE "ok"

\* Of two entries with one key the last stays.
Entries(f, key) == {i \in DOMAIN f.entries : f.entries[i].key = key}
Has(f, key) == Entries(f, key) # {}
Get(f, key) == IF Has(f, key) THEN f.entries[Max(Entries(f, key))].value ELSE None

-----------------------------------------------------------------------------
(* tokenize.rs.                                                            *)

EosNames == <<"im_end", "endoftext", "eot_id", "/s", "end_of_text">>
FirstId(vocabulary, names) ==
  LET found == {i \in DOMAIN names : names[i] \in vocabulary}
  IN IF found = {} THEN None ELSE names[Min(found)]

Error(why) == [of |-> "error", source |-> why]

\* from_tokenizer_json.
FromJson(json) ==
  IF ~json.valid THEN Error("tokenizer.json")
  ELSE [of |-> json.of, source |-> "json", size |-> json.size, split |-> json.of,
        eos |-> FirstId(json.vocabulary, EosNames)]

\* from_gguf: only byte-level BPE, and the family of its splits by name.
FromGguf(f) ==
  IF HeaderError(f) # "ok" THEN Error(HeaderError(f))
  ELSE IF Get(f, "model") # "gpt2" THEN Error("not_bpe")
  ELSE IF ~Has(f, "tokens") \/ ~Has(f, "merges") THEN Error("no_vocabulary")
  ELSE [of |-> f.of, source |-> "gguf", size |-> Get(f, "tokens"),
        split |-> IF Get(f, "pre") \in Families THEN f.of ELSE "gpt-2",
        eos |-> Get(f, "eos")]

Fixture == [of |-> "fixture", source |-> "fixture", size |-> ModelSize + 1, split |-> "fixture",
            eos |-> "im_end"]

\* load_for_model, at the path of the model or the one given instead: a
\* tokenizer.json beside a GGUF is preferred to what is in it.
LoadForModel(path) ==
  CASE path.kind = "json" -> FromJson(path.json)
    [] path.kind = "directory" /\ path.sibling = None -> Error("no_tokenizer")
    [] path.kind # "json" /\ path.sibling # None -> FromJson(path.sibling)
    [] path.kind = "gguf" /\ path.sibling = None -> FromGguf(path.header)

-----------------------------------------------------------------------------
(* chat.rs.                                                                *)

ChatMl == [of |-> "guess", source |-> "FallbackChatMl"]
Compiled(of, source) ==
  IF of = "broken" THEN Error("template") ELSE [of |-> of, source |-> source]

\* discover: the model's own header, then files beside it, then ChatML.  A header
\* that cannot be read is passed over in silence.
Discover(path) ==
  CASE path.kind = "gguf" /\ HeaderError(path.header) = "ok" /\ Has(path.header, "template") ->
         Compiled(Get(path.header, "template"), "Gguf")
    [] OTHER ->
         IF path.jinja # None THEN Compiled(path.jinja, "JinjaFile")
         ELSE IF path.config \notin {None, "unreadable"} THEN Compiled(path.config, "TokenizerConfig")
         ELSE ChatMl

-----------------------------------------------------------------------------
(* main.                                                                   *)

Fatal == stage' = "failed" /\ UNCHANGED <<tokenizer, template, backend, said>>
Kept == UNCHANGED <<launch, answer>>

\* --tokenizer, else the model, else the fixture.
ChooseTokenizer ==
  /\ stage = "tokenizer" /\ Kept
  /\ LET path == IF launch.tokenizer # None THEN launch.tokenizer ELSE launch.model
         t == IF path = None THEN Fixture ELSE LoadForModel(path)
     IN IF t.of = "error" THEN Fatal
        ELSE /\ stage' = "template" /\ tokenizer' = t
             /\ said' = IF t.split = "gpt-2" THEN said \cup {"unknown_family"} ELSE said
             /\ UNCHANGED <<template, backend>>

\* --chat-template, else the model's, whatever tokenizer was chosen.
ChooseTemplate ==
  /\ stage = "template" /\ Kept
  /\ LET t == IF launch.template # None THEN Compiled(launch.template, "JinjaFile")
              ELSE IF launch.model # None THEN Discover(launch.model) ELSE ChatMl
     IN IF t.of = "error" THEN Fatal
        ELSE stage' = "engine" /\ template' = t /\ UNCHANGED <<tokenizer, backend, said>>

Engine == [name |-> "llama.cpp", stub |-> FALSE, size |-> ModelSize]
Stub == [name |-> "echo", stub |-> TRUE, size |-> tokenizer.size]

HasEngine == launch.built /\ launch.model # None /\ launch.model.kind # "directory"
Chosen(g) == stage' = "bind" /\ backend' = g /\ UNCHANGED <<tokenizer, template>>

\* The engine's thread reports a model, or why there is none; or it dies first.
EngineLoads ==
  /\ stage = "engine" /\ HasEngine /\ launch.model.kind = "gguf" /\ Kept
  /\ Chosen(Engine) /\ UNCHANGED said

EngineUnavailable ==
  /\ stage = "engine" /\ HasEngine /\ Kept
  /\ IF launch.require THEN Fatal
     ELSE Chosen(Stub) /\ said' = said \cup {"engine_unavailable"}

NoEngine ==
  /\ stage = "engine" /\ ~HasEngine /\ Kept
  /\ IF launch.require THEN Fatal ELSE Chosen(Stub) /\ UNCHANGED said

\* ServerState::new takes the stop token from the tokenizer.
StopTokens == {tokenizer.eos} \ {None}
VocabMismatch == tokenizer.size # backend.size

\* The banner, once the address is bound.
Banner ==
  {tokenizer.source, template.source, backend.name}
    \cup (IF backend.stub THEN {"STUB"} ELSE {})
    \cup (IF VocabMismatch THEN {"mismatch"} ELSE {})

Bind ==
  /\ stage = "bind" /\ Kept
  /\ stage' = "serving" /\ said' = said \cup Banner
  /\ UNCHANGED <<tokenizer, template, backend>>
BindFails == stage = "bind" /\ Kept /\ Fatal

-----------------------------------------------------------------------------
(* routes.rs.                                                              *)

\* A request is refused by name, or run once for its one prompt.
Answer(r) ==
  CASE ~r.parses -> [status |-> 400, runs |-> 0]
    [] r.parses /\ r.n \notin {None, 1} -> [status |-> 400, runs |-> 0]
    [] r.parses /\ r.n \in {None, 1} /\ r.prompts # 1 -> [status |-> 400, runs |-> 0]
    [] r.parses /\ r.n \in {None, 1} /\ r.prompts = 1 /\ r.rejected -> [status |-> 400, runs |-> 0]
    [] OTHER -> [status |-> 200, runs |-> 1]

\* /health says the same as the banner.
Health == [status |-> 200, runs |-> 0, stubbed |-> backend.stub, warns |-> VocabMismatch]

Ask ==
  /\ stage = "serving" /\ answer = None
  /\ \/ \E r \in Asked : answer' = [request |-> r, response |-> Answer(r)]
     \/ answer' = [request |-> None, response |-> Health]
  /\ UNCHANGED <<launch, stage, tokenizer, template, backend, said>>

Begins(launches) ==
  /\ launch \in launches /\ stage = "tokenizer"
  /\ tokenizer = None /\ template = None /\ backend = None /\ said = {} /\ answer = None

StartupInit == Begins(Launches)

StartupNext ==
  \/ ChooseTokenizer \/ ChooseTemplate \/ EngineLoads \/ EngineUnavailable \/ NoEngine
  \/ Bind \/ BindFails \/ Ask

-----------------------------------------------------------------------------
(* Properties.                                                             *)

\* A tokenizer.json of another model in the directory is taken for the model's.
Foreign == launch.model # None /\ launch.model.sibling # None /\ launch.model.sibling.of # "model"

OwnTemplate ==
  /\ launch.model.kind = "gguf" /\ HeaderError(launch.model.header) = "ok"
  /\ Has(launch.model.header, "template")

\* A server that answers is what its operator asked for, or says what it is not:
\* a stub never serves under --require-engine and never without the banner and /health
\* saying so; text is encoded with the vocabulary of the weights it is given to, unless
\* another was named or lies beside the model, and then a difference of size is told;
\* the template is the model's own or is called a fallback; and a request that asks for
\* more than one choice of one prompt reaches the generator not even once.
ServesWhatItSays ==
  stage = "serving" =>
    /\ launch.require => ~backend.stub
    /\ backend.stub = ("STUB" \in said)
    /\ ~backend.stub => launch.model # None
    /\ launch.model # None /\ launch.tokenizer = None /\ ~Foreign => tokenizer.of = "model"
    /\ tokenizer.of \in {"model", "other"} /\ tokenizer.split # tokenizer.of =>
         "unknown_family" \in said
    /\ ~backend.stub /\ tokenizer.size # ModelSize => "mismatch" \in said
    /\ launch.model # None /\ launch.template = None =>
         /\ OwnTemplate => template.of = "model"
         /\ launch.model.jinja # None => template.of # "guess"
    /\ template.of = "guess" => "FallbackChatMl" \in said
    /\ answer # None =>
         IF answer.request = None
           THEN answer.response.stubbed = backend.stub /\ answer.response.warns = ("mismatch" \in said)
           ELSE answer.response.runs > 0 =>
                  answer.request.prompts = 1 /\ answer.request.n \in {None, 1}
===============================================================================
