----------------------------- MODULE CommandLine -----------------------------
(***************************************************************************)
(* A user writes command lines, following either the help texts or the     *)
(* completion of a shell, and hyoui parses them.  u is what the user has   *)
(* written and means: options with their values, and positional words; p   *)
(* is what the parser of the leaf has made of the same words, fed one at a *)
(* time (a parser looks at most one word ahead, for the value of an        *)
(* option, which is p.want).  Enter ends a line and starts the next one.   *)
(***************************************************************************)
EXTENDS CommandHelp

C == INSTANCE Completion

CONSTANTS Guides,       \* what the user follows: "help", "bash", "zsh", "fish"
          MaxOptions    \* bound on the options of one line

VARIABLES by, inside, path, u, p, verdict

lineVars == <<by, inside, path, u, p, verdict>>

NoLine ==
  [given |-> {}, pos |-> <<>>, want |-> "", raw |-> FALSE, state |-> "words", apart |-> FALSE]

\* What became of the last line, until the next one begins.
NoVerdict == [out |-> "none", documented |-> FALSE, twice |-> FALSE, apart |-> FALSE]

LineInit ==
  /\ by \in Guides
  /\ inside \in BOOLEAN          \* HYOUI_SESSION_ID is set and not empty
  /\ path = <<>>
  /\ u = NoLine
  /\ p = NoLine
  /\ verdict = NoVerdict

OptionsOf(l) == {g[1] : g \in l.given}

------------------------------------------------------------------------------
(* The parser *)

Refuse(l) == [l EXCEPT !.state = "error"]

Take(g, l, o, v) ==
  IF v \in g.valued[o]
  THEN [l EXCEPT !.given = @ \cup {<<o, v>>}, !.want = ""]
  ELSE Refuse(l)

\* The words that begin with "--".
Long == (UNION {DOMAIN GrammarOf[x].valued \cup GrammarOf[x].flags : x \in DOMAIN GrammarOf}
           \ ShortSignals) \cup {"--", "--help"}

\* One word that is an option's name, alone or with "=value".
TakeOption(g, l, w) ==
  LET o == Head(w)
      twice == o \in ShortSignals /\ OptionsOf(l) \cap (ShortSignals \cup {"--signal"}) # {}
  IN  CASE o \in g.flags ->
             IF (Len(w) > 1 /\ o \in g.strict) \/ twice
             THEN Refuse(l) ELSE [l EXCEPT !.given = @ \cup {<<o, None>>}]
        [] o \in DOMAIN g.valued /\ Len(w) > 1 -> Take(g, l, o, Tail(w))
        [] o \in g.optional /\ Len(w) = 1 -> [l EXCEPT !.given = @ \cup {<<o, None>>}]
        [] o \in g.inline /\ Len(w) = 1 -> Refuse(l)
        [] o \in DOMAIN g.valued -> [l EXCEPT !.want = o]
        [] OTHER -> Refuse(l)

\* The loop of a parse_* function on its next word.
Feed(g, l, w) ==
  CASE g.helpfirst /\ ~l.raw /\ w \in W({"--help", "-h"}) -> [l EXCEPT !.state = "help"]
    [] l.state # "words" -> l
    [] l.raw -> [l EXCEPT !.pos = Append(@, w)]
    [] l.want # "" ->
         IF g.eats = "plain" /\ Head(w) \in Long THEN Refuse(l) ELSE Take(g, l, l.want, w)
    [] g.dashdash /\ w = <<"--">> -> [l EXCEPT !.raw = TRUE]
    [] w \in W({"--help", "-h"}) -> [l EXCEPT !.state = "help"]
    [] Head(w) \in Long \cup ShortSignals -> TakeOption(g, l, w)
    [] OTHER -> [l EXCEPT !.pos = Append(@, w)]

Has(l, S) == OptionsOf(l) \cap S # {}

\* The end of parse_session_targeted.
TargetChecks(l) ==
  CASE Len(l.pos) = 0 -> Has(l, {"--socket", "--index"}) \/ inside
    [] Len(l.pos) = 1 -> l.pos[1] \in SessionId /\ ~Has(l, {"--index"})
    [] OTHER -> FALSE

\* The end of parse_attach: no session by default, and the id is not looked at.
AttachChecks(l) ==
  CASE Len(l.pos) = 0 -> Has(l, {"--socket", "--index"})
    [] Len(l.pos) = 1 -> ~Has(l, {"--index"})
    [] OTHER -> FALSE

KillChecks(l) ==
  /\ Has(l, {"--all"}) => ~Has(l, {"--socket", "--index", "--no-terminate"}) /\ l.pos = <<>>
  /\ ~(Has(l, {"--wait"}) /\ Has(l, {"--no-terminate"}))
  /\ Has(l, {"--kill-on-timeout"}) => Has(l, {"--wait"})
  /\ Has(l, {"--all"}) \/ TargetChecks(l)

\* parse_set: one key=value and at most one session id, in any order.
SetChecks(l) ==
  LET Words(n) == SelectSeq(l.pos, LAMBDA w : Len(w) = n)
  IN  Len(Words(2)) = 1 /\ TargetChecks([l EXCEPT !.pos = Words(1)])

\* The end of parse_wait: the pattern is the last positional word.
WaitChecks(l) ==
  LET n == Len(l.pos)
      named == Has(l, {"--socket", "--index"})
  IN  /\ n = (IF named \/ (inside /\ n < 2) THEN 1 ELSE 2)
      /\ n = 2 => l.pos[1] \in SessionId
      /\ l.pos[n] # <<"">>

\* The end of parse_input: which word is the session id, and that every other is a spec.
InputChecks(l) ==
  LET named == Has(l, {"--socket", "--index"})
      first == ~named /\ l.pos # <<>> /\ l.pos[1] \in SessionId
      specs == IF first THEN Tail(l.pos) ELSE l.pos
  IN  /\ named \/ first \/ inside
      /\ specs # <<>>
      /\ \A i \in DOMAIN specs : specs[i] \in InputSpec

RunChecks(l) == l.pos # <<>> \/ Has(l, {"--login"})

TailChecks(l) == TargetChecks(l) /\ (Has(l, {"--since-strict"}) => Has(l, {"--since"}))

RecordStartChecks(l) ==
  /\ TargetChecks(l)
  /\ Has(l, {"--output"})
  /\ Cardinality(OptionsOf(l) \cap {"--stdin", "--stdout", "--both"}) <= 1
  /\ <<"--format", <<"raw">>>> \in l.given => Has(l, {"--stdin", "--stdout"})

RecordStopChecks(l) == TargetChecks(l) /\ ~(Has(l, {"--id"}) /\ Has(l, {"--all"}))

DaemonRunChecks(l) ==
  /\ Cardinality(OptionsOf(l) \cap {"--config", "--no-config"}) + Len(l.pos) = 1
  /\ Has(l, {"--listen"}) => Has(l, {"--no-config"})

DaemonAddChecks(l) ==
  Len(l.pos) = 1 /\ ~(Has(l, {"--config"}) /\ Has(l, {"--listen", "--binary"}))

DaemonTargetChecks(name, l) ==
  \/ Len(l.pos) = 1 /\ ~Has(l, {"--all"})
  \/ l.pos = <<>> /\ (Has(l, {"--all"}) \/ name \in {"status", "log"})

\* What parse_args returns for a whole line: a command that runs, or help or an error.
Outcome(x, l) ==
  LET daemon == Len(x) = 3 /\ x[2] = "daemon"
      checks ==
        CASE x = <<"run">> -> RunChecks(l)
          [] x = <<"attach">> -> AttachChecks(l)
          [] x = <<"kill">> -> KillChecks(l)
          [] x = <<"set">> -> SetChecks(l)
          [] x = <<"wait">> -> WaitChecks(l)
          [] x = <<"input">> -> InputChecks(l)
          [] x = <<"tail">> -> TailChecks(l)
          [] x = <<"record", "start">> -> RecordStartChecks(l)
          [] x = <<"record", "stop">> -> RecordStopChecks(l)
          [] "--socket" \in DOMAIN GrammarOf[x].valued /\ x \notin {<<"run">>} -> TargetChecks(l)
          [] daemon /\ x[3] = "run" -> DaemonRunChecks(l)
          [] daemon /\ x[3] = "add" -> DaemonAddChecks(l)
          [] daemon /\ x[3] \in {"start", "stop", "restart", "status", "log"} -> DaemonTargetChecks(x[3], l)
          [] x = <<"completion">> -> Len(l.pos) = 1 /\ l.pos[1] \in W({"bash", "zsh", "fish"})
          [] x = <<"web", "passkey", "add">> -> l.pos = <<>> /\ Has(l, {"--endpoint"})
          [] Len(x) = 3 /\ x[3] = "remove" -> Len(l.pos) = 1
          [] OTHER -> l.pos = <<>>
  IN  IF l.state = "help" THEN "help"
      ELSE IF l.state = "words" /\ l.want = "" /\ checks THEN "run"
      ELSE "refused"

------------------------------------------------------------------------------
(* The user *)

\* What the guide offers after the words written so far.
Offered ==
  CASE by = "bash" -> C!BashOffer(path, OptionsOf(u))
    [] by = "zsh" -> C!ZshOffer(path, OptionsOf(u))
    [] by = "fish" -> C!FishOffer(path, OptionsOf(u))
    [] OTHER -> C!Nothing

Valued ==
  IF by = "help" THEN DOMAIN HelpOf[path].valued
  ELSE Offered.free \cup DOMAIN Offered.values

Flags == IF by = "help" THEN HelpOf[path].flags \cup HelpOf[path].optional ELSE Offered.bare

\* The values of an option: what the help's placeholder stands for, or what the shell lists.
ValuesOf(o) ==
  IF by # "help" /\ o \in DOMAIN Offered.values THEN W(Offered.values[o])
  ELSE HelpOf[path].valued[o]

\* fish completes the value as a word of its own also for two options whose value the
\* parser reads only behind "=" (complete -x): list --format and kill --wait.
FishSeparately == {<<<<"list">>, "--format">>, <<<<"kill">>, "--wait">>}

Inline(o) ==
  CASE by = "help" -> TRUE
    [] by = "bash" -> o \in Offered.inline
    [] OTHER -> TRUE

Separate(o) ==
  CASE by = "help" -> o \notin HelpOf[path].inline \cup HelpOf[path].optional
    [] by = "bash" -> o \notin Offered.inline
    [] by = "zsh" -> FALSE
    [] OTHER -> TRUE

Subs ==
  CASE by = "bash" -> C!BashSubcommands[path]
    [] by = "zsh" -> C!ZshSubcommands[path]
    [] by = "fish" -> C!FishSubcommands[path]
    [] OTHER -> HelpNamespace[path]

AtLeaf == path \in DOMAIN HelpOf
Writing == AtLeaf /\ u.want = "" /\ ~u.raw
Unused(o) == o = "--tag" \/ o \notin OptionsOf(u)
Parse(w) == p' = Feed(GrammarOf[path], p, w)

TypeSubcommand(s) ==
  /\ ~AtLeaf
  /\ s \in Subs
  /\ path' = Append(path, s)
  /\ p' = IF s \in Namespace[path] THEN p ELSE Refuse(p)
  /\ verdict' = NoVerdict
  /\ UNCHANGED <<by, inside, u>>

TypeFlag(o) ==
  /\ Writing
  /\ o \in Flags /\ Unused(o)
  /\ Cardinality(u.given) < MaxOptions
  /\ o \in ShortSignals => ~Has(u, ShortSignals \cup {"--signal"})
  /\ u' = [u EXCEPT !.given = @ \cup {<<o, None>>}]
  /\ Parse(<<o>>)
  /\ UNCHANGED <<by, inside, path, verdict>>

TypeInline(o, v) ==
  /\ Writing
  /\ o \in Valued /\ Unused(o) /\ Inline(o) /\ v \in ValuesOf(o)
  /\ Cardinality(u.given) < MaxOptions
  /\ u' = [u EXCEPT !.given = @ \cup {<<o, v>>}]
  /\ Parse(<<o>> \o v)
  /\ UNCHANGED <<by, inside, path, verdict>>

TypeOption(o) ==
  /\ Writing
  /\ o \in Valued /\ Unused(o) /\ Separate(o)
  /\ Cardinality(u.given) < MaxOptions
  /\ u' = [u EXCEPT !.want = o,
                    !.apart = @ \/ (by = "fish" /\ <<path, o>> \in FishSeparately)]
  /\ Parse(<<o>>)
  /\ UNCHANGED <<by, inside, path, verdict>>

TypeValue(v) ==
  /\ AtLeaf
  /\ u.want # ""
  /\ v \in ValuesOf(u.want)
  /\ u' = [u EXCEPT !.given = @ \cup {<<u.want, v>>}, !.want = ""]
  /\ Parse(v)
  /\ UNCHANGED <<by, inside, path, verdict>>

TypeDashes ==
  /\ Writing
  /\ HelpOf[path].dashes
  /\ u' = [u EXCEPT !.raw = TRUE]
  /\ Parse(<<"--">>)
  /\ UNCHANGED <<by, inside, path, verdict>>

Forms == HelpOf[path].own \cup HelpOf[path].other

TypePositional(w) ==
  /\ AtLeaf
  /\ u.want = ""
  /\ HelpOf[path].dashes => u.raw
  /\ \E f \in Forms : Len(f) > Len(u.pos) /\ SubSeq(f, 1, Len(u.pos) + 1) = Append(u.pos, w)
  /\ u' = [u EXCEPT !.pos = Append(@, w)]
  /\ Parse(w)
  /\ UNCHANGED <<by, inside, path, verdict>>

\* The line names its session by --socket and once more.
Twice ==
  Has(u, {"--socket"}) /\ (Has(u, {"--index"}) \/ u.pos \in HelpOf[path].own)

\* What the help says of a whole line: a form, one target, and the exclusions in the texts.
Documented ==
  LET h == HelpOf[path]
      N(S) == Has(u, S)
      named == Cardinality(OptionsOf(u) \cap {"--socket", "--index"})
  IN  /\ \/ h.own = {} /\ u.pos \in h.other
         \/ h.own # {} /\ u.pos \in h.own /\ named = 0
         \/ h.own # {} /\ u.pos \in h.other /\ \/ named = 1
                                               \/ named = 0 /\ (inside \/ N({"--all"})) /\ path # <<"attach">>
      /\ path = <<"run">> => u.pos # <<>> \/ N({"--login"})
      /\ path = <<"kill">> =>
           /\ N({"--all"}) => named = 0 /\ u.pos = <<>>
           /\ N({"--kill-on-timeout"}) => N({"--wait"})
           /\ N({"--no-terminate"}) => ~N({"--all", "--wait"})
      /\ path = <<"tail">> => (N({"--since-strict"}) => N({"--since"}))
      /\ path = <<"record", "start">> =>
           /\ N({"--output"})
           /\ Cardinality(OptionsOf(u) \cap {"--stdin", "--stdout", "--both"}) <= 1
           /\ <<"--format", <<"raw">>>> \in u.given => N({"--stdin", "--stdout"})
      /\ path = <<"record", "stop">> =>
           /\ ~(N({"--id"}) /\ N({"--all"}))
           /\ u.pos = <<>> /\ named = 0 => inside
      /\ path = <<"web", "passkey", "add">> => N({"--endpoint"})
      /\ path = <<"web", "daemon", "run">> =>
           \/ u.pos # <<>> /\ u.given = {}
           \/ u.pos = <<>> /\ OptionsOf(u) = {"--config"}
           \/ u.pos = <<>> /\ N({"--no-config"}) /\ OptionsOf(u) \subseteq {"--no-config", "--listen"}
      /\ path = <<"web", "daemon", "add">> => ~(N({"--config"}) /\ N({"--listen", "--binary"}))
      /\ Len(path) = 3 /\ path[2] = "daemon" /\ "--all" \in h.flags =>
           /\ u.pos # <<>> => ~N({"--all"})
           /\ u.pos = <<>> /\ ~N({"--all"}) => path[3] \in {"status", "log"}

Enter ==
  /\ AtLeaf
  /\ u.want = ""
  /\ verdict' = [out |-> Outcome(path, p), documented |-> Documented, twice |-> Twice,
                 apart |-> u.apart]
  /\ path' = <<>> /\ u' = NoLine /\ p' = NoLine
  /\ UNCHANGED <<by, inside>>

LineNext ==
  \/ \E s \in UNION {Namespace[x] : x \in DOMAIN Namespace} : TypeSubcommand(s)
  \/ AtLeaf /\ \E o \in Flags : TypeFlag(o)
  \/ AtLeaf /\ \E o \in Valued : \E v \in ValuesOf(o) : TypeInline(o, v)
  \/ AtLeaf /\ \E o \in Valued : TypeOption(o)
  \/ AtLeaf /\ u.want # "" /\ \E v \in ValuesOf(u.want) : TypeValue(v)
  \/ TypeDashes
  \/ AtLeaf /\ \E f \in Forms : \E i \in DOMAIN f : TypePositional(f[i])
  \/ Enter

LineSpec == LineInit /\ [][LineNext]_lineVars

------------------------------------------------------------------------------
(* Properties *)

\* The parser has made of the words what the user meant by them.
Agree == p.state = "words" /\ p.want = u.want /\ p.given = u.given /\ p.pos = u.pos /\ p.raw = u.raw

\* Words written as the help says are read as meant: no option is unknown, no value is
\* refused, none is taken for another word (cli.rs, the usage_* and parse_* functions).
\* The lines that run are the ones the help describes, save that the parser also takes a
\* line that names its session twice where one name is --socket (cli.rs, after each
\* loop), and that fish writes two values apart (FishSeparately).
HelpFollowed ==
  /\ by = "help" => Agree
  /\ verdict.documented => verdict.out = "run" \/ verdict.apart
  /\ verdict.out = "run" => verdict.documented \/ verdict.twice \/ verdict.apart

\* Words offered by the bash, zsh or fish script, with the values the help describes where
\* the script leaves them to the user, are read as meant (completion.rs), on every line
\* but those on which fish has written the value of list --format or kill --wait as a
\* word of its own.
CompletionFollowed == by # "help" /\ ~u.apart => Agree

\* "The subcommand / option / enum-value surface is kept in sync with the parser"
\* (completion.rs:10): the words of all three scripts, without exception, are read as
\* meant.
ScriptsInSync == by # "help" => Agree

=============================================================================
