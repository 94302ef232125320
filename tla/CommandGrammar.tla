--------------------------- MODULE CommandGrammar ---------------------------
(***************************************************************************)
(* What the parser of crates/hyoui/src/cli.rs accepts, one definition per  *)
(* parse_* function.  A word is the sequence of its parts between "="      *)
(* signs, so split_eq is Head and Tail; a value is a word, and a set of    *)
(* values stands for the values a conversion accepts.  Values come from    *)
(* Sample, which holds one or two members of each class the conversions    *)
(* tell apart (a signed and a zero integer, a duration, a size, ...).      *)
(*                                                                         *)
(* A grammar has the options with a value and the values they accept, the  *)
(* flags, the flags that refuse "=value" (strict), the options whose value *)
(* can only follow "=" (inline) and those whose value may be absent        *)
(* (optional), whether the word after an option is its value whatever it   *)
(* is ("any") or only if it does not begin with "--" ("plain"), whether    *)
(* "--" ends the options, and whether --help is looked for before the      *)
(* words are parsed.                                                       *)
(***************************************************************************)
EXTENDS Naturals, Sequences, FiniteSets, TLC

W(S) == {<<s>> : s \in S}

Sample == W({"1", "-1", "0", "2s", "5g", "word", "/f", "rel", "id", "80x24", "1,1,2,2", ""})
            \cup {<<"k">>, <<"k", "v">>}

\* Values any String is good for, and the ones refused when empty.
AnyText == Sample
NonEmpty == Sample \ {<<"">>}

\* --index: an i32 other than 0.
Index == W({"1", "-1"})

\* parse_int: decimal digits only, within i32.
ParseInt == W({"0", "1"})

\* parse_size: two numbers around the first x or X.
ParseSize == W({"80x24"})

\* parse_duration_ms: a number always carries its unit.
ParseDuration == W({"2s"})

\* parse_max_bytes: a u64 with an optional binary suffix.
ParseMaxBytes == W({"0", "1", "5g"})

\* parse_screen_dump_rect: four u16 between commas.
ParseRect == W({"1,1,2,2"})

\* parse_tag_arg: a valid key, with or without "=value".
ParseTag == {<<"k">>, <<"k", "v">>}

\* validate_session_id: a UUID in canonical form, here "id".
SessionId == W({"id"})

\* normalize_signal_spec: a number, a short name or a SIG name.
SignalNames == {"SIGHUP", "SIGINT", "SIGQUIT", "SIGABRT", "SIGKILL", "SIGUSR1", "SIGUSR2",
                "SIGTERM", "SIGCONT", "SIGTSTP", "SIGCHLD"}
SignalSpec == W(SignalNames \cup {"1", "KILL"})

\* snapshot_component_from_normalized: Style and Scrollback are accepted as well.
SnapshotComponents == W({"cells", "cursor", "mode", "style", "scrollback", "windowsize",
                         "buffer", "sequenceno"})

\* parse_input_spec: <prefix>:<value>; a key, a pattern and hex digits may not be empty.
InputSpec == W({"text:x", "text:", "hex:1b", "file:/f", "paste:x", "key:Enter", "wait:x", "wait-idle:2s"})

None == <<>>

Grammar(valued, flags) ==
  [valued |-> valued, flags |-> flags, strict |-> {}, inline |-> {}, optional |-> {},
   eats |-> "plain", dashdash |-> FALSE, helpfirst |-> FALSE]

NoOptions == [o \in {} |-> {}]

\* parse_session_targeted: --socket and --index, then the command's own options.
Targeted(valued, flags) ==
  Grammar("--socket" :> AnyText @@ "--index" :> Index @@ valued, flags)

ParseRun ==
  [Grammar("--size" :> ParseSize @@ "--cols" :> ParseInt @@ "--rows" :> ParseInt
           @@ "--timeout" :> ParseDuration @@ "--idle-timeout" :> ParseDuration
           @@ "--until" :> AnyText @@ "--socket" :> AnyText
           @@ "--on-child-suspend" :> W({"notify", "auto-resume"})
           @@ "--tag" :> ParseTag @@ "--session-id" :> SessionId
           @@ "--scrollback-rows" :> ParseInt
           @@ "--debug-dump-server" :> NonEmpty @@ "--debug-dump-client" :> NonEmpty,
           {"--pty-stdin", "--detached", "--no-scrub-env", "--login"})
   EXCEPT !.strict = {"--pty-stdin", "--login"}, !.eats = "any", !.dashdash = TRUE,
          !.helpfirst = TRUE]

ParseAttach ==
  [Targeted("--mode" :> AnyText \cup W({"rw", "ro", "rw-no-leader"}) @@ "--debug-dump-client" :> NonEmpty, {"--quiet"})
   EXCEPT !.strict = {"--quiet"}, !.eats = "any"]

ParseList ==
  [Grammar("--tag" :> ParseTag @@ "--format" :> W({"plain", "jsonl"}), {})
   EXCEPT !.inline = {"--format"}, !.eats = "any", !.helpfirst = TRUE]

\* A word with one dash is a signal (-9, -KILL).
ShortSignals == {"-9", "-KILL"}

ParseKill ==
  [Targeted("--signal" :> SignalSpec @@ "--wait" :> ParseDuration,
            {"--all", "--no-terminate", "--kill-on-timeout"} \cup ShortSignals)
   EXCEPT !.optional = {"--wait"}, !.eats = "any", !.dashdash = TRUE]

ParseStatus == Targeted("--format" :> W({"plain", "json"}), {})

ParseSet == Targeted(NoOptions, {})

\* Mutant: --follow takes the next word as if it had a value.
ParseTailMutant ==
  Targeted("--since" :> ParseDuration @@ "--last" :> ParseInt @@ "--last-bytes" :> ParseInt
           @@ "--follow" :> AnyText,
           {"--strip", "--strip-ansi", "--since-strict"})

ParseTail ==
  Targeted("--since" :> ParseDuration @@ "--last" :> ParseInt @@ "--last-bytes" :> ParseInt,
           {"--follow", "--strip", "--strip-ansi", "--since-strict"})

ParseWait == Targeted("--timeout" :> ParseDuration @@ "--poll-interval" :> ParseDuration, {})

ParseScreenDump ==
  Targeted("--format" :> W({"ansi", "binary", "cbor", "text", "text/plain", "plain"})
           @@ "--layer" :> W({"visible", "scrollback", "both"})
           @@ "--rect" :> ParseRect @@ "--output" :> AnyText @@ "--timeout" :> ParseDuration, {})

ParseScreenSnapshot ==
  Targeted("--include" :> SnapshotComponents @@ "--format" :> W({"cbor", "json"})
           @@ "--output" :> AnyText @@ "--timeout" :> ParseDuration, {})

ParseInput ==
  Targeted("--timeout" :> ParseDuration @@ "--lock-token" :> NonEmpty
           @@ "--max-file-bytes" :> ParseInt @@ "--auto-lock-timeout-acquire" :> ParseDuration, {})

ParseLockAcquire == Targeted("--mode" :> W({"wait", "fail"}) @@ "--timeout" :> ParseDuration, {})

ParseLockRelease == Targeted("--token" :> NonEmpty, {})

ParseUnlock == Targeted("--token" :> NonEmpty, {})

ParseDetach == Targeted(NoOptions, {})

ParseUpgrade == Targeted("--binary" :> AnyText, {"--skip-version-check"})

ParseRecordStart ==
  Targeted("--output" :> W({"/f"}) @@ "--format" :> W({"jsonl", "raw"})
           @@ "--max-bytes" :> ParseMaxBytes @@ "--max-duration" :> ParseDuration \cup W({"0"})
           @@ "--input-secrecy" :> W({"record-all", "never-record-stdin"})
           @@ "--prompt-pattern" :> NonEmpty,
           {"--stdin", "--stdout", "--both"})

ParseRecordStop == Targeted("--id" :> ParseInt, {"--all"})

ParseRecordList == Targeted("--format" :> W({"table", "jsonl"}), {})

\* A command that takes no option but --help, wherever it stands.
Bare == [Grammar(NoOptions, {}) EXCEPT !.helpfirst = TRUE]

ParseConfigLeaf == Bare
ParseVersion == Bare
ParseCompletion == Grammar(NoOptions, {})

ParseWebPasskeyAdd ==
  [Grammar("--endpoint" :> NonEmpty @@ "--label" :> NonEmpty, {}) EXCEPT !.eats = "any"]
ParseWebPasskeyOther == Bare
ParseWebSessionLeaf == Bare

ParseWebDaemonRun ==
  [Grammar("--config" :> NonEmpty @@ "--listen" :> NonEmpty, {"--no-config"})
   EXCEPT !.strict = {"--no-config"}, !.eats = "any", !.dashdash = TRUE]

ParseWebDaemonAdd ==
  [Grammar("--config" :> NonEmpty @@ "--listen" :> NonEmpty @@ "--binary" :> NonEmpty, {})
   EXCEPT !.eats = "any", !.dashdash = TRUE]

ParseWebDaemonTarget(name) ==
  [Grammar(NoOptions, IF name = "log" THEN {"--all", "--follow"} ELSE {"--all"})
   EXCEPT !.strict = {"--all", "--follow"}]

ParseWebDaemonRemove == Grammar(NoOptions, {})
ParseWebDaemonList == Bare

ParseWebServiceRegister ==
  [Grammar("--binary" :> NonEmpty, {"--force"}) EXCEPT !.strict = {"--force"}, !.eats = "any"]
ParseWebServiceLog == [Grammar(NoOptions, {"--follow"}) EXCEPT !.strict = {"--follow"}]
ParseWebServiceOther == Bare

\* The namespaces: the subcommands each knows.  parse_args also knows tx, as reserved.
TopLevel == {"run", "attach", "list", "kill", "status", "set", "tail", "wait", "screen", "input",
             "lock", "unlock", "detach", "record", "web", "upgrade", "config", "version",
             "completion"}
ScreenSub == {"dump", "snapshot"}
LockSub == {"acquire", "release"}
RecordSub == {"start", "stop", "list"}
ConfigSub == {"path", "show"}
WebSub == {"daemon", "service", "passkey", "session"}
WebPasskeySub == {"add", "list", "remove"}
WebSessionSub == {"list", "remove"}
WebDaemonSub == {"run", "supervise", "add", "remove", "list", "start", "stop", "restart",
                 "status", "log"}
WebServiceSub == {"register", "unregister", "start", "stop", "restart", "status", "log"}

Namespace ==
  <<>> :> TopLevel @@ <<"screen">> :> ScreenSub @@ <<"lock">> :> LockSub
  @@ <<"record">> :> RecordSub @@ <<"config">> :> ConfigSub @@ <<"web">> :> WebSub
  @@ <<"web", "passkey">> :> WebPasskeySub @@ <<"web", "session">> :> WebSessionSub
  @@ <<"web", "daemon">> :> WebDaemonSub @@ <<"web", "service">> :> WebServiceSub

\* Every parser behind a leaf of the command tree (parse_args and the namespaces dispatch).
GrammarOf ==
  <<"run">> :> ParseRun @@ <<"attach">> :> ParseAttach @@ <<"list">> :> ParseList
  @@ <<"kill">> :> ParseKill @@ <<"status">> :> ParseStatus @@ <<"set">> :> ParseSet
  @@ <<"tail">> :> ParseTail @@ <<"wait">> :> ParseWait @@ <<"input">> :> ParseInput
  @@ <<"screen", "dump">> :> ParseScreenDump @@ <<"screen", "snapshot">> :> ParseScreenSnapshot
  @@ <<"lock", "acquire">> :> ParseLockAcquire @@ <<"lock", "release">> :> ParseLockRelease
  @@ <<"unlock">> :> ParseUnlock @@ <<"detach">> :> ParseDetach @@ <<"upgrade">> :> ParseUpgrade
  @@ <<"record", "start">> :> ParseRecordStart @@ <<"record", "stop">> :> ParseRecordStop
  @@ <<"record", "list">> :> ParseRecordList
  @@ [l \in {<<"config", c>> : c \in ConfigSub} |-> ParseConfigLeaf]
  @@ <<"version">> :> ParseVersion @@ <<"completion">> :> ParseCompletion
  @@ <<"web", "passkey", "add">> :> ParseWebPasskeyAdd
  @@ [l \in {<<"web", "passkey", c>> : c \in {"list", "remove"}} |-> ParseWebPasskeyOther]
  @@ [l \in {<<"web", "session", c>> : c \in WebSessionSub} |-> ParseWebSessionLeaf]
  @@ <<"web", "daemon", "run">> :> ParseWebDaemonRun @@ <<"web", "daemon", "add">> :> ParseWebDaemonAdd
  @@ <<"web", "daemon", "remove">> :> ParseWebDaemonRemove
  @@ [l \in {<<"web", "daemon", c>> : c \in {"supervise", "list"}} |-> ParseWebDaemonList]
  @@ [l \in {<<"web", "daemon", c>> : c \in {"start", "stop", "restart", "status", "log"}}
        |-> ParseWebDaemonTarget(l[3])]
  @@ <<"web", "service", "register">> :> ParseWebServiceRegister
  @@ <<"web", "service", "log">> :> ParseWebServiceLog
  @@ [l \in {<<"web", "service", c>> : c \in WebServiceSub \ {"register", "log"}}
        |-> ParseWebServiceOther]
=============================================================================
