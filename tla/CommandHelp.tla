----------------------------- MODULE CommandHelp -----------------------------
(***************************************************************************)
(* What the help texts of crates/hyoui/src/cli.rs (the usage_* functions)  *)
(* tell a user, one definition per text: the options with the values the   *)
(* placeholder stands for, the flags, the options written only as          *)
(* --name=VALUE (inline) or --name[=VALUE] (optional), and the positional   *)
(* forms: own when the line itself names the session, other when an option *)
(* or the environment does; dashes says that "--" comes before them.       *)
(***************************************************************************)
EXTENDS CommandGrammar

\* The placeholders.
PATH == W({"/f"})
DUR == W({"2s"})
INDEX == W({"1", "-1"})
NUM == W({"0", "1"})
TEXT == W({"word"})
UUID == W({"id"})
TAG == {<<"k">>, <<"k", "v">>}

Help(valued, flags, own, other) ==
  [valued |-> valued, flags |-> flags, own |-> own, other |-> other, inline |-> {}, optional |-> {},
   dashes |-> FALSE]

\* "<session-id> [options]", "--index=<N> [options]", "--socket=<path> [options]".
HelpTargeted(valued, flags) ==
  Help("--socket" :> PATH @@ "--index" :> INDEX @@ valued, flags, {<<<<"id">>>>}, {<<>>})

HelpPlain(valued, flags, forms) == Help(valued, flags, {}, forms)

UsageRun ==
  [HelpPlain("--size" :> W({"80x24"}) @@ "--cols" :> NUM @@ "--rows" :> NUM @@ "--timeout" :> DUR
             @@ "--idle-timeout" :> DUR @@ "--until" :> TEXT @@ "--socket" :> PATH
             @@ "--session-id" :> UUID @@ "--tag" :> {<<"k", "v">>}
             @@ "--on-child-suspend" :> W({"notify", "auto-resume"}) @@ "--scrollback-rows" :> NUM
             @@ "--debug-dump-server" :> PATH @@ "--debug-dump-client" :> PATH,
             {"--detached", "--pty-stdin", "--login", "--no-scrub-env"},
             {<<>>, <<<<"word">>>>, <<<<"word">>, <<"--help">>>>})
   EXCEPT !.inline = {"--on-child-suspend"}, !.dashes = TRUE]

UsageAttach ==
  HelpTargeted("--mode" :> W({"rw", "ro", "rw-no-leader"}) @@ "--debug-dump-client" :> PATH, {"--quiet"})

UsageList ==
  [HelpPlain("--tag" :> TAG @@ "--format" :> W({"plain", "jsonl"}), {}, {<<>>})
   EXCEPT !.inline = {"--format"}]

UsageKill ==
  [HelpTargeted("--signal" :> W({"SIGKILL", "KILL", "1"}) @@ "--wait" :> DUR,
                {"--all", "--kill-on-timeout", "--no-terminate", "-9", "-KILL"})
   EXCEPT !.optional = {"--wait"}]

UsageStatus == HelpTargeted("--format" :> W({"plain", "json"}), {})

KeyValue == <<"on-child-suspend", "auto-resume">>
UsageSet ==
  [HelpTargeted(NoOptions, {}) EXCEPT !.own = {<<<<"id">>, KeyValue>>}, !.other = {<<KeyValue>>}]

UsageTail ==
  HelpTargeted("--since" :> DUR @@ "--last-bytes" :> NUM @@ "--last" :> NUM,
               {"--follow", "--strip-ansi", "--strip", "--since-strict"})

\* Any text is a pattern, a session id too.
UsageWait ==
  [HelpTargeted("--timeout" :> DUR @@ "--poll-interval" :> DUR, {})
   EXCEPT !.own = {<<<<"id">>, <<"word">>>>}, !.other = {<<<<"word">>>>, <<<<"id">>>>}]

UsageScreenDump ==
  HelpTargeted("--format" :> W({"ansi", "binary", "cbor", "text/plain", "text", "plain"})
               @@ "--layer" :> W({"visible", "scrollback", "both"}) @@ "--rect" :> W({"1,1,2,2"})
               @@ "--output" :> PATH @@ "--timeout" :> DUR, {})

UsageScreenSnapshot ==
  HelpTargeted("--include" :> W({"cells", "cursor", "mode", "windowsize", "buffer", "sequenceno"})
               @@ "--format" :> W({"cbor", "json"}) @@ "--output" :> PATH @@ "--timeout" :> DUR, {})

\* <spec>...: one or more, here at most two.
SPECS == LET one == W({"text:x", "hex:1b", "key:Enter", "wait-idle:2s"})
         IN  {<<s>> : s \in one} \cup {<<s, t>> : s, t \in one}
UsageInput ==
  [HelpTargeted("--timeout" :> DUR @@ "--lock-token" :> TEXT @@ "--max-file-bytes" :> NUM
                @@ "--auto-lock-timeout-acquire" :> DUR, {})
   EXCEPT !.own = {<<<<"id">>>> \o s : s \in SPECS}, !.other = SPECS]

UsageLockAcquire == HelpTargeted("--mode" :> W({"wait", "fail"}) @@ "--timeout" :> DUR, {})
UsageLockRelease == HelpTargeted("--token" :> TEXT, {})
UsageUnlock == HelpTargeted("--token" :> TEXT, {})
UsageDetach == HelpTargeted(NoOptions, {})

UsageUpgrade ==
  [HelpTargeted("--binary" :> PATH, {"--skip-version-check"})
   EXCEPT !.inline = {"--socket", "--index", "--binary"}]

UsageRecordStart ==
  [HelpTargeted("--output" :> PATH @@ "--format" :> W({"jsonl", "raw"}) @@ "--max-bytes" :> W({"0", "5g"})
                @@ "--max-duration" :> DUR \cup W({"0"})
                @@ "--input-secrecy" :> W({"record-all", "never-record-stdin"})
                @@ "--prompt-pattern" :> TEXT,
                {"--stdin", "--stdout", "--both"})
   EXCEPT !.inline = {"--format"}]

UsageRecordStop == HelpTargeted("--id" :> NUM, {"--all"})
UsageRecordList == HelpTargeted("--format" :> W({"table", "jsonl"}), {})

UsageConfigPath == HelpPlain(NoOptions, {}, {<<>>})
UsageConfigShow == HelpPlain(NoOptions, {}, {<<>>})
UsageVersion == HelpPlain(NoOptions, {}, {<<>>})
UsageCompletion == HelpPlain(NoOptions, {}, {<<<<s>>>> : s \in {"bash", "zsh", "fish"}})

UsageWebPasskeyAdd == HelpPlain("--endpoint" :> TEXT @@ "--label" :> TEXT, {}, {<<>>})
UsageWebPasskeyList == HelpPlain(NoOptions, {}, {<<>>})
UsageWebPasskeyRemove == HelpPlain(NoOptions, {}, {<<<<"word">>>>})
UsageWebSessionList == HelpPlain(NoOptions, {}, {<<>>})
UsageWebSessionRemove == HelpPlain(NoOptions, {}, {<<<<"word">>>>})

UsageWebDaemonRun ==
  HelpPlain("--config" :> PATH @@ "--listen" :> TEXT, {"--no-config"}, {<<>>, <<<<"word">>>>})
UsageWebDaemonAdd ==
  HelpPlain("--listen" :> TEXT @@ "--binary" :> PATH @@ "--config" :> PATH, {}, {<<<<"word">>>>})
UsageWebDaemonRemove == HelpPlain(NoOptions, {}, {<<<<"word">>>>})
UsageWebDaemonSupervise == HelpPlain(NoOptions, {}, {<<>>})
UsageWebDaemonList == HelpPlain(NoOptions, {}, {<<>>})
UsageWebDaemonStart == HelpPlain(NoOptions, {"--all"}, {<<>>, <<<<"word">>>>})
UsageWebDaemonStop == HelpPlain(NoOptions, {"--all"}, {<<>>, <<<<"word">>>>})
UsageWebDaemonRestart == HelpPlain(NoOptions, {"--all"}, {<<>>, <<<<"word">>>>})
UsageWebDaemonStatus == HelpPlain(NoOptions, {"--all"}, {<<>>, <<<<"word">>>>})
UsageWebDaemonLog == HelpPlain(NoOptions, {"--all", "--follow"}, {<<>>, <<<<"word">>>>})

UsageWebServiceRegister ==
  [HelpPlain("--binary" :> PATH, {"--force"}, {<<>>}) EXCEPT !.inline = {"--binary"}]
UsageWebServiceUnregister == HelpPlain(NoOptions, {}, {<<>>})
UsageWebServiceStart == HelpPlain(NoOptions, {}, {<<>>})
UsageWebServiceStop == HelpPlain(NoOptions, {}, {<<>>})
UsageWebServiceRestart == HelpPlain(NoOptions, {}, {<<>>})
UsageWebServiceStatus == HelpPlain(NoOptions, {}, {<<>>})
UsageWebServiceLog == HelpPlain(NoOptions, {"--follow"}, {<<>>})

\* The subcommands the help of each namespace lists.
UsageTop == {"run", "attach", "list", "kill", "status", "set", "tail", "wait", "screen", "input",
             "lock", "unlock", "detach", "record", "web", "upgrade", "config", "version", "completion"}
UsageScreen == {"dump", "snapshot"}
UsageLock == {"acquire", "release"}
UsageRecord == {"start", "stop", "list"}
UsageConfig == {"path", "show"}
UsageWeb == {"daemon", "service", "passkey", "session"}
UsageWebPasskey == {"add", "list", "remove"}
UsageWebSession == {"list", "remove"}
UsageWebDaemon == {"run", "supervise", "add", "remove", "list", "start", "stop", "restart", "status", "log"}
UsageWebService == {"register", "unregister", "start", "stop", "restart", "status", "log"}

HelpNamespace ==
  <<>> :> UsageTop @@ <<"screen">> :> UsageScreen @@ <<"lock">> :> UsageLock
  @@ <<"record">> :> UsageRecord @@ <<"config">> :> UsageConfig @@ <<"web">> :> UsageWeb
  @@ <<"web", "passkey">> :> UsageWebPasskey @@ <<"web", "session">> :> UsageWebSession
  @@ <<"web", "daemon">> :> UsageWebDaemon @@ <<"web", "service">> :> UsageWebService

\* usage: which text a topic prints.
HelpOf ==
  <<"run">> :> UsageRun @@ <<"attach">> :> UsageAttach @@ <<"list">> :> UsageList
  @@ <<"kill">> :> UsageKill @@ <<"status">> :> UsageStatus @@ <<"set">> :> UsageSet
  @@ <<"tail">> :> UsageTail @@ <<"wait">> :> UsageWait @@ <<"input">> :> UsageInput
  @@ <<"screen", "dump">> :> UsageScreenDump @@ <<"screen", "snapshot">> :> UsageScreenSnapshot
  @@ <<"lock", "acquire">> :> UsageLockAcquire @@ <<"lock", "release">> :> UsageLockRelease
  @@ <<"unlock">> :> UsageUnlock @@ <<"detach">> :> UsageDetach @@ <<"upgrade">> :> UsageUpgrade
  @@ <<"record", "start">> :> UsageRecordStart @@ <<"record", "stop">> :> UsageRecordStop
  @@ <<"record", "list">> :> UsageRecordList
  @@ <<"config", "path">> :> UsageConfigPath @@ <<"config", "show">> :> UsageConfigShow
  @@ <<"version">> :> UsageVersion @@ <<"completion">> :> UsageCompletion
  @@ <<"web", "passkey", "add">> :> UsageWebPasskeyAdd
  @@ <<"web", "passkey", "list">> :> UsageWebPasskeyList
  @@ <<"web", "passkey", "remove">> :> UsageWebPasskeyRemove
  @@ <<"web", "session", "list">> :> UsageWebSessionList
  @@ <<"web", "session", "remove">> :> UsageWebSessionRemove
  @@ <<"web", "daemon", "run">> :> UsageWebDaemonRun @@ <<"web", "daemon", "add">> :> UsageWebDaemonAdd
  @@ <<"web", "daemon", "remove">> :> UsageWebDaemonRemove
  @@ <<"web", "daemon", "supervise">> :> UsageWebDaemonSupervise
  @@ <<"web", "daemon", "list">> :> UsageWebDaemonList
  @@ <<"web", "daemon", "start">> :> UsageWebDaemonStart
  @@ <<"web", "daemon", "stop">> :> UsageWebDaemonStop
  @@ <<"web", "daemon", "restart">> :> UsageWebDaemonRestart
  @@ <<"web", "daemon", "status">> :> UsageWebDaemonStatus
  @@ <<"web", "daemon", "log">> :> UsageWebDaemonLog
  @@ <<"web", "service", "register">> :> UsageWebServiceRegister
  @@ <<"web", "service", "unregister">> :> UsageWebServiceUnregister
  @@ <<"web", "service", "start">> :> UsageWebServiceStart
  @@ <<"web", "service", "stop">> :> UsageWebServiceStop
  @@ <<"web", "service", "restart">> :> UsageWebServiceRestart
  @@ <<"web", "service", "status">> :> UsageWebServiceStatus
  @@ <<"web", "service", "log">> :> UsageWebServiceLog
==============================================================================
