---------------------------- MODULE CommandLine ----------------------------
(***************************************************************************)
(* How YaSh builds a command from its tokens: the grammar of               *)
(* shell_bison.yy with the state that its actions leave in globals.  The   *)
(* parser is LALR(1) with default reductions, so a token that does not fit *)
(* where a command could end makes the parser reduce, and run, the command *)
(* before it reports the error.  The same globals are worked on by the tab *)
(* key, whenever the scanner asks for a new line.                          *)
(*                                                                         *)
(* Files are opened with success; `source` and the directories of pushd    *)
(* and popd are not part of this module.                                   *)
(***************************************************************************)
EXTENDS Naturals, Sequences, SequencesExt

CONSTANTS
    Plain,     \* words without wildcards
    Quoted,    \* words in quotes
    Glob,      \* each word with wildcards, and the names it matches, in order
    Names,     \* what the names tab looks for may match: sequences of names
    PathDirs,  \* the number of directories in PATH
    Aliases,   \* the aliases that are set: names and texts, as words
    Operators, \* the redirection operators that are typed
    MaxCmds,   \* bound: commands of a line, with those left over
    MaxArgs    \* bound: words of a command

Patterns == DOMAIN Glob
Words == Plain \cup Quoted \cup Patterns
FlagWords == {"fg", "bg", "pushd"}
Modes == {"in", "out", "err", "append", "bg", "time"}
Scans == {"line", "in", "quote", "backtick"}

ASSUME GlobAssumption == \A p \in Patterns : Glob[p] \in Seq(STRING)
ASSUME QuotedAssumption == Quoted \cap Patterns = {}
ASSUME NamesAssumption == Names \subseteq Seq(STRING)
ASSUME AliasesAssumption == \A a \in Aliases : a[2] \in Seq(STRING)
ASSUME OperatorsAssumption == Operators \subseteq {"<", ">", ">>", ">&", ">>&"}
ASSUME BoundAssumption == {PathDirs, MaxCmds, MaxArgs} \subseteq Nat

VARIABLES
    at,      \* how far the parser is in the current line
    timed,   \* the line began with `time`
    scan,    \* the scanner: at the beginning of a line, in it, or at the end of one in
             \* the middle of a text in quotes or in backticks
    flags,   \* the globals fg, bg and pushd: those that are set
    args,    \* currentSimpleCommand->arguments, until it is inserted
    cmds,    \* currentCommand.simpleCommands
    mods,    \* which of inSet, outSet, errSet, append, background, m_time are set
    wc,      \* currentCommand.wc_collector
    expand,  \* currentCommand.m_expand
    alias,   \* currentCommand.m_aliases
    typed,   \* what was typed since the last execute(), or in this line, and why, if
             \* there is a reason, something else may be executed
    left,    \* names were left in the collector by tab or fg
    ran      \* what the last step has executed

parserVars == <<at, timed, scan, flags, args>>
commandVars == <<cmds, mods, wc, expand, alias>>
vars == <<parserVars, commandVars, typed, left, ran>>

Nothing == [cmds |-> <<>>, mods |-> {}, quoted |-> FALSE, why |-> "none"]
Odd(reason) == [Nothing EXCEPT !.why = reason]
NoRun == [cmds |-> <<>>, mods |-> {}, typed |-> Odd("idle")]

Modifiers == [op \in {"<", ">", ">>", ">&", ">>&"} |->
                 CASE op = "<" -> {"in"}
                   [] op = ">" -> {"out"}
                   [] op = ">>" -> {"out", "append"}
                   [] op = ">&" -> {"out", "err"}
                   [] op = ">>&" -> {"out", "err", "append"}]
Ops == DOMAIN Modifiers

Init == /\ at = "start" /\ timed = FALSE /\ scan = "line" /\ flags = {} /\ args = <<>>
        /\ cmds = <<>> /\ mods = {} /\ wc = <<>> /\ expand = TRUE /\ alias = <<>>
        /\ typed = Nothing /\ left = FALSE /\ ran = NoRun

-----------------------------------------------------------------------------
(* What the actions of the grammar are made of.                            *)

\* SimpleCommand::insertArgument: what it adds to the arguments for s
Inserted(s) == IF s \in DOMAIN alias THEN alias[s] ELSE <<s>>

\* [mutant] the names come with the directory they were found in
InsertedWithDirectory(ss) == [i \in 1 .. Len(ss) |-> "./" \o ss[i]]

InsertedAll(ss) == FlattenSeq([i \in 1 .. Len(ss) |-> Inserted(ss[i])])

\* wildcard_expand collects names or, without a wildcard, inserts the word.
Collects(w) == w \in Patterns /\ expand

\* [mutant] a quoted word turns wildcards off for good
ClearKeepsExpand == /\ cmds' = <<>> /\ mods' = {} /\ UNCHANGED expand

\* Command::clear
Clear == cmds' = <<>> /\ mods' = {} /\ expand' = TRUE

\* Command::execute of the commands cs, when t was typed.  One without a word is
\* compared to "cd" all the same, which ends the shell.
Run(cs, next, t) ==
    /\ ran' = [cmds |-> cs, mods |-> mods, typed |-> t]
    /\ IF <<>> \in ToSet(cs) THEN at' = "crashed" /\ UNCHANGED <<cmds, mods, expand>>
                             ELSE at' = next /\ Clear

\* ... of a command that is complete
Execute(cs, next) == Run(cs, next, typed) /\ typed' = IF at' = "crashed" THEN typed ELSE Nothing

Idle == ran' = NoRun

\* What is typed is recorded for as long as it should be what is executed.
Record(t) == typed' = IF typed.why = "none" THEN t ELSE typed
Spoilt(reason) == IF typed.why = "none" THEN Odd(reason) ELSE typed
Spoil(reason) == typed' = Spoilt(reason)

-----------------------------------------------------------------------------
(* The parser.                                                             *)

\* A whole command is read, so that the parser may reduce it without a look at
\* what follows.
Complete == at \in {"word", "args", "mods", "amp"}

\* The tokens that may follow
Accepted ==
    CASE at = "start" -> {"WORD", "NEWLINE", "TIME", "ALIAS", "POPD"}
      [] at = "time" -> {"WORD", "NEWLINE"}
      [] at = "and" -> {"WORD", "NEWLINE", "TIME"}
      [] at \in {"timed", "pipe"} \cup Ops -> {"WORD"}
      [] at \in {"word", "args"} -> {"WORD", "PIPE", "NEWLINE", "ANDAND"} \cup Ops
                                     \cup (IF timed THEN {} ELSE {"AMPERSAND"})
      [] at = "mods" -> {"NEWLINE", "ANDAND"} \cup Ops
                         \cup (IF timed THEN {} ELSE {"AMPERSAND"})
      [] at = "amp" -> {"NEWLINE", "ANDAND"}
      [] OTHER -> {}

\* What the scanner can find next: a text in quotes ends in a word.
Scanned(t) == scan = "quote" => t = "WORD"

Token(t) == at \notin {"skip", "crashed"} /\ t \in Accepted /\ Scanned(t) /\ scan' = "in"

\* [mutant] the flag of a word that stands alone outlives it
CmdAndArgKeepsFlag == IF at = "word" /\ flags # {}
                      THEN [cmds |-> cmds, flags |-> flags]
                      ELSE [cmds |-> IF at \in {"word", "args"} THEN Append(cmds, args)
                                     ELSE cmds, flags |-> flags]

\* [mutant] a flag word alone is a command too
CmdAndArgInserts == [cmds |-> IF at \in {"word", "args"} THEN Append(cmds, args) ELSE cmds,
                     flags |-> {}]

\* cmd_and_arg, if it is still to be reduced: fg, bg or pushd alone acts at once
\* and inserts nothing, and the command is inserted otherwise.
CmdAndArg ==
    IF at = "word" /\ flags # {}
    THEN [cmds |-> cmds,
          flags |-> flags \ (IF "pushd" \in flags THEN {"pushd"}
                             ELSE IF "fg" \in flags THEN {"fg"} ELSE {"bg"})]
    ELSE [cmds |-> IF at \in {"word", "args"} THEN Append(cmds, args) ELSE cmds,
          flags |-> flags]

\* A quoted word turns wildcards off, for itself and for what follows, where it begins.
Lex(w) == /\ scan = "quote" => w \in Quoted
          /\ expand' = (expand /\ (w \notin Quoted \/ scan = "quote"))

\* What was typed: each word, and whether it is to be taken as it is
TypedWord(w, first) ==
    LET e == [w |-> w, lit |-> first \/ typed.quoted \/ w \notin Patterns]
    IN  [typed EXCEPT
            !.cmds = IF first THEN Append(@, <<e>>) ELSE Append(Front(@), Append(Last(@), e)),
            !.quoted = @ \/ w \in Quoted]

\* command_word: the first word of a simple command
CommandWord(w) ==
    /\ at \in {"start", "time", "timed", "and", "pipe"} /\ Token("WORD")
    /\ Len(cmds) < MaxCmds /\ Len(typed.cmds) < MaxCmds
    /\ at' = "word" /\ timed' = (at = "time" \/ (timed /\ at \in {"timed", "pipe"}))
    /\ mods' = IF at = "time" THEN mods \cup {"time"} ELSE mods
    /\ IF w \in FlagWords THEN flags' = flags \cup {w} /\ args' = <<>>
                          ELSE UNCHANGED flags /\ args' = Inserted(w)
    /\ Lex(w) /\ Record(TypedWord(w, TRUE)) /\ Idle
    /\ UNCHANGED <<cmds, wc, alias, left>>

\* argument: the word goes through wildcard_expand first, whatever it is for.
\* Without a flag, all names the collector holds become arguments.  The argument of
\* pushd goes through once more in pushDir, which leaves the collector empty, but for
\* the empty word, with which pushDir does nothing.
Expanded(w) ==
    LET own == IF Collects(w) THEN <<>> ELSE Inserted(w)
        names == IF Collects(w) THEN Glob[w] ELSE wc
        again == w # ""
    IN  IF flags = {}
        THEN /\ args' = args \o own \o InsertedAll(names) /\ wc' = <<>>
             /\ UNCHANGED flags /\ left' = FALSE
             /\ IF left /\ ~Collects(w) THEN Spoil("names") ELSE Record(TypedWord(w, FALSE))
        ELSE /\ \/ /\ flags \cap {"fg", "bg"} # {}
                   /\ args' = args \o own /\ wc' = names
                   /\ flags' = flags \ (IF "fg" \in flags THEN {"fg"} ELSE {"bg"})
                \/ /\ flags = {"pushd"}
                   /\ args' = args \o own \o (IF again THEN own ELSE <<>>)
                   /\ wc' = (IF again THEN <<>> ELSE names) /\ flags' = {}
             /\ left' = (wc' # <<>>) /\ Spoil("job")

Argument(w) ==
    /\ at \in {"word", "args"} /\ Token("WORD")
    /\ Len(args) < MaxArgs /\ (typed.why = "none" => Len(Last(typed.cmds)) < MaxArgs)
    /\ at' = "args"
    /\ Expanded(w) /\ Lex(w) /\ Idle
    /\ UNCHANGED <<timed, cmds, mods, alias>>

Pipe ==
    /\ Token("PIPE")
    /\ at' = "pipe" /\ cmds' = CmdAndArg.cmds /\ flags' = CmdAndArg.flags /\ args' = <<>>
    /\ Idle
    /\ UNCHANGED <<timed, mods, wc, expand, alias, typed, left>>

\* The operator of an io_modifier, and its file
Operator(op) ==
    /\ Token(op)
    /\ at' = op /\ cmds' = CmdAndArg.cmds /\ flags' = CmdAndArg.flags /\ args' = <<>>
    /\ Idle
    /\ UNCHANGED <<timed, mods, wc, expand, alias, typed, left>>

IoModifier(w) ==
    /\ at \in Ops /\ Token("WORD")
    /\ at' = "mods" /\ mods' = mods \cup Modifiers[at]
    /\ Record([typed EXCEPT !.mods = @ \cup Modifiers[at], !.quoted = @ \/ w \in Quoted])
    /\ Lex(w) /\ Idle
    /\ UNCHANGED <<timed, flags, args, cmds, wc, alias, left>>

Background ==
    /\ Token("AMPERSAND")
    /\ at' = "amp" /\ cmds' = CmdAndArg.cmds /\ flags' = CmdAndArg.flags /\ args' = <<>>
    /\ mods' = mods \cup {"bg"} /\ Record([typed EXCEPT !.mods = @ \cup {"bg"}])
    /\ Idle
    /\ UNCHANGED <<timed, wc, expand, alias, left>>

\* full_command: a command is executed at the newline that ends it, and at "&&"
\* before that is shifted.  After "&&" a newline executes what there is: nothing.
AndAnd ==
    /\ Token("ANDAND")
    /\ Execute(CmdAndArg.cmds, "and")
    /\ flags' = CmdAndArg.flags /\ args' = <<>> /\ timed' = FALSE
    /\ UNCHANGED <<wc, alias, left>>

EndOfLine ==
    /\ at \notin {"skip", "crashed"} /\ "NEWLINE" \in Accepted /\ Scanned("NEWLINE")
    /\ scan' = "line" /\ timed' = FALSE /\ args' = <<>>
    /\ IF Complete \/ at = "and"
       THEN Execute(CmdAndArg.cmds, "start") /\ flags' = CmdAndArg.flags
       ELSE at' = "start" /\ typed' = Odd(typed.why) /\ Idle /\ UNCHANGED <<flags, cmds, mods, expand>>
    /\ UNCHANGED <<wc, alias, left>>

\* `time`: at the start, where TIME NEWLINE is a command too, m_time is set when the
\* token after it comes.
Time ==
    /\ scan = "line" /\ Token("TIME")
    /\ IF at = "start" THEN at' = "time" /\ UNCHANGED <<timed, mods>>
       ELSE at' = "timed" /\ timed' = TRUE /\ mods' = mods \cup {"time"}
    /\ Record([typed EXCEPT !.mods = @ \cup {"time"}]) /\ Idle
    /\ UNCHANGED <<flags, args, cmds, wc, expand, alias, left>>

\* ALIAS WORD WORD: the name must end in "=".  The rest of the line is a command of
\* its own.  A text that is not one word is quoted, which turns wildcards off until the
\* next execute().
Alias(name, text) ==
    LET quoted == Len(text) # 1 IN
    /\ scan = "line" /\ Token("ALIAS")
    /\ alias' = [n \in DOMAIN alias \cup {name} |-> IF n = name THEN text ELSE alias[n]]
    /\ expand' = (expand /\ ~quoted)
    /\ IF quoted THEN Spoil("quote") ELSE UNCHANGED typed
    /\ Idle
    /\ UNCHANGED <<at, timed, flags, args, cmds, mods, wc, left>>

\* ... without "=", strdup is given what strchr has not found.
AliasUnset ==
    /\ scan = "line" /\ Token("ALIAS")
    /\ at' = "crashed" /\ Spoil("alias") /\ Idle
    /\ UNCHANGED <<timed, flags, args, commandVars, left>>

PopD ==
    /\ scan = "line" /\ Token("POPD") /\ Idle
    /\ UNCHANGED <<at, timed, flags, args, commandVars, typed, left>>

-----------------------------------------------------------------------------
(* Errors, comments, and the tab key.                                      *)

AnyToken == {"WORD", "NEWLINE", "PIPE", "ANDAND", "AMPERSAND", "TAB"} \cup Operators
              \cup (IF scan = "line" THEN {"TIME", "ALIAS", "POPD"} ELSE {})

\* What is left of the line in currentCommand: nothing if it was executed
LeftOver(cs, ms, e) == IF cs # <<>> \/ ms # {} \/ ~e THEN Spoil("error")
                       ELSE typed' = Odd(typed.why)

\* A token that cannot follow.  A command that was complete is executed first; `time`
\* is reduced first, too.  Then all tokens to the end of the line are discarded, and
\* currentCommand is left as it is.
SyntaxError(t) ==
    /\ at \notin {"skip", "crashed"} /\ t \in AnyToken \ Accepted /\ Scanned(t)
    /\ args' = <<>> /\ timed' = FALSE /\ scan' = IF t = "NEWLINE" THEN "line" ELSE "in"
    /\ LET next == IF t = "NEWLINE" THEN "start" ELSE "skip"
       IN  IF Complete
           THEN Execute(CmdAndArg.cmds, next) /\ flags' = CmdAndArg.flags
           ELSE /\ at' = next
                /\ mods' = IF at = "time" THEN mods \cup {"time"} ELSE mods
                /\ LeftOver(cmds, mods', expand) /\ Idle
                /\ UNCHANGED <<flags, cmds, expand>>
    /\ UNCHANGED <<wc, alias, left>>

\* A quoted word is scanned, though it is discarded.
Discard(quoted) ==
    /\ at = "skip" /\ (scan = "quote" => quoted)
    /\ scan' = "in" /\ expand' = (expand /\ (~quoted \/ scan = "quote"))
    /\ LeftOver(cmds, mods, expand') /\ Idle
    /\ UNCHANGED <<at, timed, flags, args, cmds, mods, wc, alias, left>>

\* error NEWLINE
Recover ==
    /\ at = "skip" /\ Scanned("NEWLINE")
    /\ at' = "start" /\ scan' = "line" /\ Idle
    /\ UNCHANGED <<timed, flags, args, commandVars, typed, left>>

\* "#" and the rest of the line, newline included: the parser does not see it end.
Comment ==
    /\ at # "crashed" /\ scan # "quote"
    /\ scan' = "line"
    /\ IF at = "start" THEN UNCHANGED typed ELSE Spoil("comment")
    /\ Idle
    /\ UNCHANGED <<at, timed, flags, args, commandVars, left>>

\* A text in quotes or in backticks goes over the end of a line: the scanner asks for
\* another in the middle of a command.  The quote has turned wildcards off by then.
OpenText(quoted) ==
    /\ at # "crashed" /\ scan \in {"line", "in"}
    /\ scan' = IF quoted THEN "quote" ELSE "backtick"
    /\ expand' = (expand /\ ~quoted)
    /\ IF at = "skip" THEN LeftOver(cmds, mods, expand') ELSE UNCHANGED typed
    /\ Idle
    /\ UNCHANGED <<at, timed, flags, args, cmds, mods, wc, alias, left>>

\* The tab key while a line is read: the files that match the last word on it, or, if
\* there are none, what matches in the last directory of PATH.  One name is put on
\* the line.  More than one file is listed, for which execute() is called with
\* whatever currentCommand holds; names of more than one program stay collected.  The
\* command that is being read loses its words, if the line is not its first.
Tab(files, programs) ==
    /\ at # "crashed" /\ scan # "in"
    /\ LET found == IF expand THEN files ELSE wc
           inPath == IF expand THEN programs ELSE found
           word == [i \in 1 .. IF expand THEN 0 ELSE IF found = <<>> THEN 1 + PathDirs ELSE 1
                       |-> "*"]
           mine(ss) == IF at \in {"word", "args"} THEN ss ELSE <<>>
           loses == scan # "line" /\ (at \in {"word", "args"} \/ Len(found) > 1)
           noted == IF loses THEN Spoilt("tab") ELSE typed
       IN  IF Len(found) > 1
           THEN /\ args' = mine(word \o Inserted("echo")) /\ wc' = <<>>
                /\ IF at = "start" /\ ~loses THEN Execute(cmds, at)
                                             ELSE Run(cmds, at, noted) /\ typed' = noted
           ELSE /\ args' = mine(word)
                /\ wc' = IF found = <<>> /\ PathDirs > 0 /\ Len(inPath) # 1 THEN inPath
                         ELSE <<>>
                /\ typed' = noted
                /\ Idle /\ UNCHANGED <<at, cmds, mods, expand>>
    /\ left' = (wc' # <<>>)
    /\ UNCHANGED <<timed, scan, flags, alias>>

-----------------------------------------------------------------------------
Next == \/ \E w \in Words : CommandWord(w) \/ Argument(w) \/ IoModifier(w)
        \/ Pipe \/ \E op \in Operators : Operator(op)
        \/ Background \/ AndAnd \/ EndOfLine \/ Time \/ PopD
        \/ \E a \in Aliases : Alias(a[1], a[2])
        \/ AliasUnset
        \/ \E t \in AnyToken : SyntaxError(t)
        \/ \E q \in BOOLEAN : Discard(q) \/ OpenText(q)
        \/ Recover \/ Comment
        \/ \E files, programs \in Names : Tab(files, programs)

Spec == Init /\ [][Next]_vars

-----------------------------------------------------------------------------
(* Properties.                                                             *)

\* What may be an argument
Items == Words \cup {"*", "echo"} \cup (UNION {ToSet(Glob[p]) : p \in Patterns})
           \cup (UNION {ToSet(names) : names \in Names})
           \cup (UNION {ToSet(a[2]) : a \in Aliases})
Args == Seq(Items)

Whys == {"none", "error", "comment", "job", "names", "quote", "alias", "tab"}
Places == {"start", "time", "timed", "word", "args", "pipe", "mods", "amp", "and", "skip",
           "crashed"} \cup Ops

\* Every variable keeps to its domain; an argument is a word or a name.
TypeOK ==
    /\ at \in Places
    /\ scan \in Scans
    /\ timed \in BOOLEAN /\ expand \in BOOLEAN /\ typed.quoted \in BOOLEAN
    /\ flags \subseteq FlagWords /\ mods \subseteq Modes
    /\ args \in Args /\ cmds \in Seq(Args) /\ wc \in Args
    /\ typed.why \in Whys
    /\ left \in BOOLEAN

\* The arguments that a typed word stands for
Meant(e) == IF e.lit THEN Inserted(e.w) ELSE InsertedAll(Glob[e.w])
MeantBy(es) == FlattenSeq([i \in 1 .. Len(es) |-> Meant(es[i])])
IsCommand(es) == es[1].w \notin FlagWords

\* The commands that typed ones stand for: fg, bg and pushd are none.
MeantCommands(cs) == FlattenSeq([i \in 1 .. Len(cs) |-> IF IsCommand(cs[i]) THEN <<MeantBy(cs[i])>>
                                                        ELSE <<>>])

\* What execute() runs is what was typed for it: the words of this command, each
\* expanded once, and its redirections, `&` and `time`, whatever was typed, failed
\* or completed before.  What may go wrong is in typed.why: a command that a
\* syntax error has left in currentCommand, a comment that swallows the end of the
\* line, the arguments of fg, bg and pushd, names that tab has left in the collector,
\* a tab on a line that goes on with a text in quotes or backticks, and the quotes in an
\* alias.  Wildcards after a quoted word of the command are off.
LineStandsAlone ==
    ran.typed.why = "none" =>
        /\ ran.cmds = MeantCommands(ran.typed.cmds)
        /\ ran.mods = ran.typed.mods

\* The flags fg, bg and pushd are set from the word that sets them to the token after
\* it, and never two of them: no later command is taken for the argument of an fg
\* that was typed before, in whatever way its line went wrong.
FlagsSettled == flags # {} => at \in {"word", "crashed"} /\ \E f \in FlagWords : flags = {f}

\* handle_builtins never meets a command without a word, which ends the shell, unless
\* something in typed.why has emptied it or an alias stands for nothing.
CommandsHaveWords ==
    at = "crashed" => typed.why # "none" \/ \E name \in DOMAIN alias : alias[name] = <<>>
=============================================================================
