----------------------------- MODULE Completion -----------------------------
(***************************************************************************)
(* The completion scripts of crates/hyoui-cli/src/completion.rs: what each *)
(* offers after a command.  An offer has the options that end the word     *)
(* (bare), the options with an argument the script leaves to the user      *)
(* (free), the ones whose arguments it lists (values), the ones it         *)
(* completes behind "=" in the same word (inline), and other words         *)
(* (words).  Descriptions are left out.                                    *)
(*                                                                         *)
(* How a shell reads its script is external: compgen -W offers the listed  *)
(* words and the script looks at the previous word for an argument; an     *)
(* _arguments spec --name=[..] is completed as --name=value; a complete -l *)
(* name -x or -r is completed as --name=value or --name value.             *)
(***************************************************************************)
EXTENDS CommandGrammar

Offer(bare, free, values) ==
  [bare |-> bare, free |-> free, values |-> values, inline |-> {}, words |-> {}]

Nothing == Offer({}, {}, NoOptions)

\* The two options every session command offers.
OnSession(bare, free, values) == Offer(bare, free \cup {"--socket", "--index"}, values)

SpecPrefixes == {"text:", "hex:", "file:", "paste:", "key:", "wait:", "wait-idle:"}

\* The subcommands a script lists; bash and fish look for the first plain word after each
\* namespace, zsh for the position.
Subcommands(top, web) ==
  <<>> :> top @@ <<"web">> :> web @@ <<"screen">> :> {"dump", "snapshot"}
  @@ <<"lock">> :> {"acquire", "release"} @@ <<"record">> :> {"start", "stop", "list"}
  @@ <<"config">> :> {"path", "show"} @@ <<"web", "passkey">> :> {"add", "list", "remove"}
  @@ <<"web", "session">> :> {"list", "remove"}
  @@ <<"web", "daemon">> :> {"run", "supervise", "add", "remove", "list", "start", "stop",
                             "restart", "status", "log"}
  @@ <<"web", "service">> :> {"register", "unregister", "start", "stop", "restart", "status", "log"}

------------------------------------------------------------------------------
(* bash *)

BashSubcommands ==
  Subcommands({"run", "attach", "list", "kill", "status", "set", "tail", "wait", "screen", "input",
               "lock", "unlock", "detach", "record", "web", "upgrade", "config", "version",
               "completion"}, {"daemon", "service", "passkey", "session"})

BashScreen ==
  <<"screen", "dump">> :>
    OnSession({}, {"--rect", "--output", "--timeout"},
              "--format" :> {"ansi", "binary", "cbor", "text/plain"}
              @@ "--layer" :> {"visible", "scrollback", "both"})
  @@ <<"screen", "snapshot">> :>
    OnSession({}, {"--output", "--timeout"},
              "--include" :> {"cells", "cursor", "mode", "windowsize", "buffer", "sequenceno"}
              @@ "--format" :> {"cbor", "json"})

BashLock ==
  <<"lock", "acquire">> :> OnSession({}, {"--timeout"}, "--mode" :> {"wait", "fail"})
  @@ <<"lock", "release">> :> OnSession({}, {"--token"}, NoOptions)

\* Mutant: the script still offers a secrecy mode the parser no longer knows.
BashRecordMutant ==
  <<"record", "start">> :>
    OnSession({"--stdin", "--stdout", "--both"},
              {"--output", "--max-bytes", "--max-duration", "--prompt-pattern"},
              "--format" :> {"jsonl", "raw"}
              @@ "--input-secrecy" :> {"record-all", "redact-after-prompt"})
  @@ <<"record", "stop">> :> OnSession({"--all"}, {"--id"}, NoOptions)
  @@ <<"record", "list">> :> OnSession({}, {}, "--format" :> {"table", "jsonl"})

BashRecord ==
  <<"record", "start">> :>
    OnSession({"--stdin", "--stdout", "--both"},
              {"--output", "--max-bytes", "--max-duration", "--prompt-pattern"},
              "--format" :> {"jsonl", "raw"}
              @@ "--input-secrecy" :> {"record-all", "never-record-stdin"})
  @@ <<"record", "stop">> :> OnSession({"--all"}, {"--id"}, NoOptions)
  @@ <<"record", "list">> :> OnSession({}, {}, "--format" :> {"table", "jsonl"})

\* --config and --listen / --binary exclude each other; --listen needs --no-config.
BashDaemonAdd(seen) ==
  Offer({}, IF "--config" \in seen THEN {}
            ELSE IF seen \cap {"--listen", "--binary"} # {} THEN {"--listen", "--binary"}
            ELSE {"--listen", "--binary", "--config"}, NoOptions)

BashDaemonRun(seen) ==
  IF "--no-config" \in seen THEN Offer({}, {"--listen"}, NoOptions)
  ELSE IF "--config" \in seen THEN Nothing
  ELSE Offer({"--no-config"}, {"--config"}, NoOptions)

BashDaemonTarget ==
  [l \in {<<"web", "daemon", c>> : c \in {"start", "stop", "restart", "status"}}
     |-> Offer({"--all"}, {}, NoOptions)]
  @@ <<"web", "daemon", "log">> :> Offer({"--all", "--follow"}, {}, NoOptions)

BashPasskeyAdd == Offer({}, {"--endpoint", "--label"}, NoOptions)

BashService ==
  <<"web", "service", "register">> :> Offer({"--force"}, {"--binary"}, NoOptions)
  @@ <<"web", "service", "log">> :> Offer({"--follow"}, {}, NoOptions)

BashInput ==
  [OnSession({}, {"--timeout", "--lock-token", "--max-file-bytes", "--auto-lock-timeout-acquire"}, NoOptions)
   EXCEPT !.words = SpecPrefixes]

BashRun ==
  [Offer({"--detached", "--pty-stdin", "--login", "--no-scrub-env"},
         {"--socket", "--debug-dump-server", "--debug-dump-client", "--session-id", "--tag",
          "--timeout", "--idle-timeout", "--until", "--size", "--cols", "--rows", "--scrollback-rows"},
         "--on-child-suspend" :> {"notify", "auto-resume"})
   EXCEPT !.words = {"--"}]

BashCompletion == [Nothing EXCEPT !.words = {"bash", "zsh", "fish"}]

BashAttachListKill ==
  <<"attach">> :> OnSession({"--quiet"}, {"--debug-dump-client"}, "--mode" :> {"rw", "ro", "rw-no-leader"})
  @@ <<"list">> :> [Offer({}, {"--tag"}, "--format" :> {"plain", "jsonl"}) EXCEPT !.inline = {"--format"}]
  @@ <<"kill">> :> OnSession({"--all", "--wait", "--kill-on-timeout", "--no-terminate"}, {},
                             "--signal" :> SignalNames)

BashSession ==
  <<"status">> :> OnSession({}, {}, "--format" :> {"plain", "json"})
  @@ <<"set">> :> [OnSession({}, {}, NoOptions) EXCEPT !.words = {"on-child-suspend="}]
  @@ <<"tail">> :> OnSession({"--follow", "--strip-ansi", "--since-strict"}, {"--since", "--last-bytes"}, NoOptions)
  @@ <<"wait">> :> OnSession({}, {"--timeout", "--poll-interval"}, NoOptions)
  @@ <<"unlock">> :> OnSession({}, {"--token"}, NoOptions)
  @@ <<"detach">> :> OnSession({}, {}, NoOptions)
  @@ <<"upgrade">> :> OnSession({"--skip-version-check"}, {"--binary"}, NoOptions)

BashTable ==
  BashScreen @@ BashLock @@ BashRecord @@ BashDaemonTarget @@ BashService @@ BashAttachListKill @@ BashSession
  @@ <<"web", "passkey", "add">> :> BashPasskeyAdd @@ <<"input">> :> BashInput @@ <<"run">> :> BashRun
  @@ <<"completion">> :> BashCompletion

\* _hyoui: a leaf without an arm of its own offers --help alone.
BashOffer(path, seen) ==
  CASE path = <<"web", "daemon", "add">> -> BashDaemonAdd(seen)
    [] path = <<"web", "daemon", "run">> -> BashDaemonRun(seen)
    [] path \in DOMAIN BashTable -> BashTable[path]
    [] OTHER -> Nothing

------------------------------------------------------------------------------
(* zsh *)

ZshSubcommands ==
  Subcommands({"run", "attach", "list", "kill", "status", "set", "tail", "wait", "screen", "input",
               "lock", "unlock", "detach", "record", "web", "upgrade", "config", "version",
               "completion"}, {"daemon", "service", "passkey", "session"})

ZshAttachListKill ==
  <<"attach">> :> OnSession({"--quiet"}, {"--debug-dump-client"}, "--mode" :> {"rw", "ro", "rw-no-leader"})
  @@ <<"list">> :> Offer({}, {"--tag"}, "--format" :> {"plain", "jsonl"})
  @@ <<"kill">> :> OnSession({"--all", "--kill-on-timeout", "--no-terminate"}, {"--wait"},
                             "--signal" :> SignalNames)
  @@ <<"completion">> :> [Nothing EXCEPT !.words = {"bash", "zsh", "fish"}]

ZshSession ==
  <<"status">> :> OnSession({}, {}, "--format" :> {"plain", "json"})
  @@ <<"set">> :> [OnSession({}, {}, NoOptions) EXCEPT !.words = {"on-child-suspend="}]
  @@ <<"tail">> :> OnSession({"--follow", "--strip-ansi", "--since-strict"}, {"--since", "--last-bytes"}, NoOptions)
  @@ <<"wait">> :> OnSession({}, {"--timeout", "--poll-interval"}, NoOptions)
  @@ <<"unlock">> :> OnSession({}, {"--token"}, NoOptions)
  @@ <<"detach">> :> OnSession({}, {}, NoOptions)
  @@ <<"upgrade">> :> OnSession({"--skip-version-check"}, {"--binary"}, NoOptions)

ZshScreen ==
  <<"screen", "dump">> :>
    OnSession({}, {"--rect", "--output", "--timeout"},
              "--format" :> {"ansi", "binary", "cbor", "text/plain"}
              @@ "--layer" :> {"visible", "scrollback", "both"})
  @@ <<"screen", "snapshot">> :>
    OnSession({}, {"--output", "--timeout"},
              "--include" :> {"cells", "cursor", "mode", "windowsize", "buffer", "sequenceno"}
              @@ "--format" :> {"cbor", "json"})

ZshLock ==
  <<"lock", "acquire">> :> OnSession({}, {"--timeout"}, "--mode" :> {"wait", "fail"})
  @@ <<"lock", "release">> :> OnSession({}, {"--token"}, NoOptions)

ZshRecord ==
  <<"record", "start">> :>
    OnSession({"--stdin", "--stdout", "--both"},
              {"--output", "--max-bytes", "--max-duration", "--prompt-pattern"},
              "--format" :> {"jsonl", "raw"}
              @@ "--input-secrecy" :> {"record-all", "never-record-stdin"})
  @@ <<"record", "stop">> :> OnSession({"--all"}, {"--id"}, NoOptions)
  @@ <<"record", "list">> :> OnSession({}, {}, "--format" :> {"table", "jsonl"})

ZshService ==
  <<"web", "service", "register">> :> Offer({"--force"}, {"--binary"}, NoOptions)
  @@ <<"web", "service", "log">> :> Offer({"--follow"}, {}, NoOptions)

ZshDaemonAdd(seen) ==
  Offer({}, (IF "--config" \in seen THEN {} ELSE {"--listen", "--binary"})
            \cup (IF seen \cap {"--listen", "--binary"} # {} THEN {} ELSE {"--config"}), NoOptions)

ZshDaemonRun(seen) ==
  IF "--no-config" \in seen THEN Offer({"--no-config"}, {"--listen"}, NoOptions)
  ELSE IF "--config" \in seen THEN Nothing
  ELSE Offer({"--no-config"}, {"--config"}, NoOptions)

ZshDaemonTarget ==
  [l \in {<<"web", "daemon", c>> : c \in {"start", "stop", "restart", "status"}}
     |-> Offer({"--all"}, {}, NoOptions)]
  @@ <<"web", "daemon", "log">> :> Offer({"--all", "--follow"}, {}, NoOptions)

ZshPasskeyAdd == Offer({}, {"--endpoint", "--label"}, NoOptions)

ZshInput ==
  [OnSession({}, {"--timeout", "--lock-token", "--max-file-bytes", "--auto-lock-timeout-acquire"}, NoOptions)
   EXCEPT !.words = SpecPrefixes]

ZshRun ==
  Offer({"--detached", "--pty-stdin", "--login", "--no-scrub-env"},
        {"--socket", "--debug-dump-server", "--debug-dump-client", "--session-id", "--tag",
         "--timeout", "--idle-timeout", "--until", "--size", "--cols", "--rows", "--scrollback-rows"},
        "--on-child-suspend" :> {"notify", "auto-resume"})

ZshTable ==
  ZshAttachListKill @@ ZshSession @@ ZshScreen @@ ZshLock @@ ZshRecord @@ ZshService @@ ZshDaemonTarget
  @@ <<"web", "passkey", "add">> :> ZshPasskeyAdd @@ <<"input">> :> ZshInput @@ <<"run">> :> ZshRun

ZshOffer(path, seen) ==
  CASE path = <<"web", "daemon", "add">> -> ZshDaemonAdd(seen)
    [] path = <<"web", "daemon", "run">> -> ZshDaemonRun(seen)
    [] path \in DOMAIN ZshTable -> ZshTable[path]
    [] OTHER -> Nothing

------------------------------------------------------------------------------
(* fish *)

FishSubcommands ==
  Subcommands({"run", "attach", "list", "kill", "status", "set", "tail", "wait", "screen", "input",
               "lock", "unlock", "detach", "record", "web", "upgrade", "config", "version",
               "completion"}, {"daemon", "service", "passkey", "session"})

FishRun ==
  <<"run">> :>
    Offer({"--detached", "--pty-stdin", "--login", "--no-scrub-env"},
          {"--socket", "--timeout", "--idle-timeout", "--until", "--size", "--cols", "--rows",
           "--scrollback-rows", "--session-id", "--tag", "--debug-dump-server", "--debug-dump-client"},
          "--on-child-suspend" :> {"notify", "auto-resume"})
  @@ <<"completion">> :> [Nothing EXCEPT !.words = {"bash", "zsh", "fish"}]

FishSession ==
  <<"attach">> :> OnSession({"--quiet"}, {"--debug-dump-client"}, "--mode" :> {"rw", "ro", "rw-no-leader"})
  @@ <<"list">> :> Offer({}, {"--tag"}, "--format" :> {"plain", "jsonl"})
  @@ <<"kill">> :> OnSession({"--all", "--kill-on-timeout", "--no-terminate"}, {"--wait"},
                             "--signal" :> SignalNames)
  @@ <<"status">> :> OnSession({}, {}, "--format" :> {"plain", "json"})
  @@ <<"set">> :> [OnSession({}, {}, NoOptions) EXCEPT !.words = {"on-child-suspend="}]
  @@ <<"tail">> :> OnSession({"--follow", "--strip-ansi", "--since-strict"}, {"--since", "--last-bytes"}, NoOptions)
  @@ <<"wait">> :> OnSession({}, {"--timeout", "--poll-interval"}, NoOptions)

FishScreenInputLock ==
  <<"screen", "dump">> :>
    OnSession({}, {"--rect", "--output", "--timeout"},
              "--format" :> {"ansi", "binary", "cbor", "text/plain"}
              @@ "--layer" :> {"visible", "scrollback", "both"})
  @@ <<"screen", "snapshot">> :>
    OnSession({}, {"--output", "--timeout"},
              "--include" :> {"cells", "cursor", "mode", "windowsize", "buffer", "sequenceno"}
              @@ "--format" :> {"cbor", "json"})
  @@ <<"input">> :>
    [OnSession({}, {"--timeout", "--lock-token", "--max-file-bytes", "--auto-lock-timeout-acquire"}, NoOptions)
     EXCEPT !.words = SpecPrefixes]
  @@ <<"lock", "acquire">> :> OnSession({}, {"--timeout"}, "--mode" :> {"wait", "fail"})
  @@ <<"lock", "release">> :> OnSession({}, {"--token"}, NoOptions)
  @@ <<"unlock">> :> OnSession({}, {"--token"}, NoOptions)
  @@ <<"detach">> :> OnSession({}, {}, NoOptions)

\* __hyoui_seen_opt gates the options of web daemon add and run.
FishWeb(seen) ==
  <<"web", "passkey", "add">> :> Offer({}, {"--endpoint", "--label"}, NoOptions)
  @@ [l \in {<<"web", "daemon", c>> : c \in {"start", "stop", "restart", "status"}}
        |-> Offer({"--all"}, {}, NoOptions)]
  @@ <<"web", "daemon", "log">> :> Offer({"--all", "--follow"}, {}, NoOptions)
  @@ <<"web", "daemon", "add">> :>
    Offer({}, (IF "--config" \in seen THEN {} ELSE {"--listen", "--binary"})
              \cup (IF seen \cap {"--listen", "--binary"} # {} THEN {} ELSE {"--config"}), NoOptions)
  @@ <<"web", "daemon", "run">> :>
    Offer(IF "--config" \in seen THEN {} ELSE {"--no-config"},
          IF "--no-config" \in seen THEN {"--listen"} ELSE {"--config"}, NoOptions)
  @@ <<"web", "service", "register">> :> Offer({"--force"}, {"--binary"}, NoOptions)
  @@ <<"web", "service", "log">> :> Offer({"--follow"}, {}, NoOptions)

FishUpgradeRecord ==
  <<"upgrade">> :> OnSession({"--skip-version-check"}, {"--binary"}, NoOptions)
  @@ <<"record", "start">> :>
    OnSession({"--stdin", "--stdout", "--both"},
              {"--output", "--max-bytes", "--max-duration", "--prompt-pattern"},
              "--format" :> {"jsonl", "raw"}
              @@ "--input-secrecy" :> {"record-all", "never-record-stdin"})
  @@ <<"record", "stop">> :> OnSession({"--all"}, {"--id"}, NoOptions)
  @@ <<"record", "list">> :> OnSession({}, {}, "--format" :> {"table", "jsonl"})

FishOffer(path, seen) ==
  LET table == FishRun @@ FishSession @@ FishScreenInputLock @@ FishWeb(seen) @@ FishUpgradeRecord
  IN  IF path \in DOMAIN table THEN table[path] ELSE Nothing
==============================================================================
