# A TLA+ model of YaSh

YaSh is an interactive shell: a flex/bison grammar that runs commands as it
parses them, a line editor, and job control over POSIX processes. This
directory models the parts of it in which the order of things matters, checks
them with TLC and proves the central invariants with TLAPS. Paths below are
relative to the repository's sources (`src/command.cpp`); `PROJECT.json` maps each
definition to its lines.

## The system

There is one process, the shell, and one global object of each kind:
`Command::currentCommand` (the line being built, the job table, the directory
stack, the collector of wildcards), `currentSimpleCommand`, `reader` (the line
editor) and the flags `fg`, `bg`, `pushd` of the grammar. The scanner pulls
characters out of `reader` through `mygetc`; the parser's actions fill
`currentCommand` and, at NEWLINE or `&&`, call `execute()` in the middle of the parse.
A parse may begin inside another one: `source` and `.yashrc` call `yyparse` from
an action or from `main`, over the buffer of the same scanner. Concurrency comes
from outside: the forked children, the terminal driver that stops them, a second
YaSh at the other end of two pipes, other shells that append to the same history
file, programs that remove directories, and the detached threads that ctrl+k starts.

| Component | State | Operations | What is hard |
|---|---|---|---|
| Job control (`command.cpp`, `simple_command.cpp` `launch`, `main.cpp`, `shell_bison.yy` fg/bg) | process groups, terminal foreground group, `m_p_jobs`, `m_pgid`, `background` | `execute`, `send_to_foreground`, `bg`, `launch` in the child, `tty_raw_mode` | parent and child race for setpgid and tcsetpgrp; children stop, exit before they are adopted; SIGCHLD ignored changes waitpid |
| Pipelines and redirections (`command.cpp`, `simple_command.cpp`, `shell_bison.yy` io_modifier) | descriptor tables, `m_stdin/out/err`, `inSet/outSet/errSet`, `fdin/fdout/fdpipe` | `set_in_file`, `set_out_file`, `>&`, `execute`, `setup_process_io`, `save_io`, `resume_io`, `clear` | numbers are reused after close; a call fails in the middle; builtins redirect the shell itself |
| Line editor (`shell-readline.*`) | `_line`, `m_buff`, `m_current_line_copy`, `m_history`, `history_index`, search state, screen, ctrl+k threads, ctrl+l process | one handler for each key | text in two halves, one reversed; positions in two lists; threads without a lock; a process that is not waited for |
| Completion and wildcards (`handle_tab`, `wildcard.cpp`) | `wc_collector`, the line, `currentSimpleCommand` | tab, `wildcard_expand` | one global vector and one command are shared by the tab key and the grammar |
| Grammar (`shell_bison.yy`, `shell_flex.ll`, `insertArgument`) | `currentCommand`, `currentSimpleCommand`, the flags, aliases | the reductions, error recovery | what an error, a comment, a flag or a tab leaves behind for the next command |
| Line input and history file (`shell_flex.ll` mygetc, `shell-readline.hpp` get/setFile, `main.cpp`) | `yyin`, the scanner's buffer, nested parses, `m_history`, the file | `mygetc`, `operator()`, `get`, `setFile`, `.yashrc` | parses inside parses over one buffer; a failing write re-runs the line before; two shells append to one file |
| Directories (`handle_cd`, `handle_cl`, `pushDir`, `popDir`, `changedir`, `prompt`) | cwd, `PWD`, `m_dir_stack` | cd, cl, pushd, popd, the prompt | two copies of the working directory, brought together only at the prompt; directories go away |
| Command substitution (`shell_flex.ll` backticks) | two pipes, saved descriptors, a 1024 byte buffer, a second shell | the rule for backticks | write everything, then read: two full pipes; the end of a pipe with several writers |
| Utilities (`shell-utils.*`) | none | timeval arithmetic, `changedir`, `longest_substring`, `env_expand`, `printEvenly` | boundaries |
| Aliases and prompt | `m_aliases` | `setAlias`, `prompt` | an empty alias makes a command without a word |
| Listing commands, build files | none that matters | ls, grep, printenv, history, jobs | |

What makes each correct. Job control: the shell owns the terminal when it reads,
background jobs never do, the table names each job once, what is stopped can be
reached, every line ends. Pipelines: each command is wired as typed, nobody else
holds a pipe open, the shell keeps its own three descriptors and leaks none.
Editor: no key loses text away from the cursor, the whole text is submitted,
recalled positions stay in their lists, the screen shows the line. Grammar and
completion: what is executed is what was typed for it, and nothing of the line
before. Input: each line reaches the parser once, files in order; the history
file keeps what each shell wrote. Directories: a relative name leads where the
kernel would find it, popd leads back. Substitution: it ends, the scanner gets
the whole output, the shell has its descriptors back. Times: exact and rounded
right.

The hazards of the code, each at its line, are listed in `PROJECT.json` with
the properties that cover them.

## Modules

```
JobControl    <- MCJobControl (TLC),  JobControlProofs (TLAPS)
Pipeline      <- MCPipeline,          PipelineProofs
TextField (abstract) <==implements== LineEditor <- MCLineEditor, LineEditorProofs
CommandLine   <- MCCommandLine,       CommandLineProofs
Input         <- MCInput,             InputProofs
Directories   <- MCDirectories,       DirectoriesProofs
Subshell      <- MCSubshell,          SubshellProofs
Times            (functions, with their theorems)
```

How they meet: Input says which line the parser gets, CommandLine what commands
a line's tokens make, Pipeline and JobControl what `execute()` does with a command,
with its descriptors and with its processes. Each leaves the others' state out;
the places where the code mixes them are modelled on the side where they bite:
the tab key in LineEditor (line, screen) and in CommandLine (collector, arguments,
`execute()`), a failed `read()` as `Noise` of JobControl, `source` in Input only.

**JobControl** (`Command::execute`, `Command::send_to_foreground`, the fg and
bg actions of the grammar, `SimpleCommand::launch`, `read_line::tty_raw_mode`,
the signal set-up of `main`). A child goes through `start` (forked), `joined`
(its own setpgid done), `run` (exec called), `stop`, then `dead` (a zombie) or
`gone`. The group and the terminal rules are those of setpgid(2) and
tcsetpgrp(2): a group exists while it has a member, and joining or foregrounding
one that does not exist fails, unchecked, as in the code. `pc` follows the
shell: `prompt`, `read`, `loop`/`adopt` (one round of execute's loop), `wait`,
`reap` (the WNOHANG loop and `clear`), `fgwait`. An action is a piece of code
between two points at which a child can observe or disturb the shell: fork,
the parent's setpgid, the hand-over of the terminal, the wait.
SIGCHLD is ignored when interactive, so a child leaves no zombie and waitpid
fails once there is nobody left; in a script it is not, and a child stays until
collected. `Noise` is a failed `read()` in a background shell, which
`read_with_error` takes for a key.

**Pipeline** keeps whole descriptor tables, one of the shell and one of each
process of the line, with the rule that the lowest free number is given out.
`SetupIo`, `SaveIo`, `ResumeIo` are the three functions of `SimpleCommand` on
such a table. A simple command is of one of four kinds: forked (`ext`), a
builtin that succeeds, one that prints its usage before touching descriptors
(`usage`), and one that returns early after `setup_process_io` (`early`). `>&` is two
opens of one file, `RedirectErr` and then `RedirectOut`, each of which may fail alone.
`Faults` says which calls may fail and whether ambiguous redirections are
typed; with `both_forked`, `>&` is typed on lines whose builtins do not redirect the shell.

**LineEditor** has one action for each key handler. `line` is `_line`, `buff`
is `m_buff` read from the top, so the two halves concatenate to `Text`. The
process of ctrl+l (`ClearScreen`) is an action that interleaves with keys, and so are the
threads of ctrl+k, one for each time it is typed (`killers`). `Killer` is a round of one that nobody
disturbs. `Race` is what may happen without a lock, when `size()`, `top()`, `push()` and `pop()` of a
thread overlap with those of a key or of another thread: undefined behaviour, so that `m_buff` may hold
any characters that were about afterwards (`Stale` are those popped before), or the shell crashes. With
`Paced`, keys wait for the threads and nothing overlaps. `Tab` takes the word before the cursor, looks for
what begins with it (`Matching`), and completes one name or the longest common
part of several (`LongestCommon` is `longest_substring`). `RevSearch` is
REV_SEARCH_MODE. The screen is a row of characters with a cursor, written by the
same prints as the code does.

**TextField** is what an editor promises: insert at the cursor, remove a stretch
that ends there, move, recall, submit everything. `LineEditor` implements it with `text <- Text`,
`cur <- Len(line)`, `past <- hist`; the property is `EditsText`. It
is claimed of steps for which no thread is in the way (`Undisturbed`): of the rest the code promises nothing.

**CommandLine** is the grammar over tokens. `at` is where the LALR parser is,
with default reductions: at a token that does not fit, a command that is complete
is reduced, and so executed, before the error is reported. `CmdAndArg` is the
reduction of a command that is still open, `Expanded` the expansion of an argument
with its four outcomes for fg, bg, pushd and none. `Run` is `execute()` as the grammar
sees it: it takes `cmds` and `mods`, clears them and turns wildcards on again.
`typed` is a history variable: the words as they were typed since the last
`execute()`, or in `typed.why` the first reason for which something else may be
executed. `Tab` is the part of `handle_tab` that works on the parser's state. It may come whenever the
scanner asks for a line (`scan`): at the beginning of a command, after a comment, and in the middle of
one, when a text in quotes or in backticks goes over the end of its line (`OpenText`). Then it
drops the words typed so far, for which the reason is `"tab"`.

**Input** has a stack of parses (`stack`: who waits for each), the stream, and the
buffer in which the scanner has read ahead: whole blocks of a file, single lines
from `mygetc`. `Source` is `setFile` up to its `yyparse`, `Return` what follows after
it: `fclose(yyin)`, back to standard input, `yyrestart`. A typed line goes
`Enter` (operator() has read it), `WriteText`, `WriteNewline`, `Push` (m_history),
`Get`; the other shell writes at any moment between them. `Cooked` is the terminal
before `m_interactive` is set.

**Directories** keeps the directories that exist, the working directory as the
kernel sees it, `PWD` and the stack as texts. `Find` is a lookup from
the working directory, `Joined` the text that cd makes of PWD and a name,
`Target` what `changedir` makes of a text. `Prompt` is the only action that
sets PWD; `bol` says that nothing was executed since. `from` is a history
variable: where each entry of the stack should lead.

**Subshell** follows the descriptors of the shell through a substitution by number, the
two pipes by content, and the second YaSh by the lines it has read. `late` has an entry for each of
these: what the program that it leaves in the background, with the pipe open, still prints. They all
run at once (`PutsLate(i)`), so that the outputs of several come in any order. A "line" is a command up
to a newline or `&&`.

**Times** translates `operator-`, `difftimeval`, `addtimeval` and `timeval_to_secs`, not
the use that `execute()` makes of them (see Findings). It has no state; its theorems
take the place of a run.

## Runs

| Run | Checks | Shows |
|---|---|---|
| `JobControl_pipes` | `TypeOK`, `BackgroundKeepsOffTerminal`, `JobsAreDistinct` | lines of up to two processes, three pids, fg/bg/stops at any moment: a background job never owns the terminal, no group is in the table twice |
| `JobControl_single` | `PromptOwnsTerminal`, `StoppedIsListed` | lines of one process: the shell owns the terminal when it prompts; what is stopped can be reached |
| `JobControl_script` | `CommandReturns` | a script's lines all end |
| `Pipeline_lines` | `TypeOK`, `TableRestored`, `Wired`, `OnlyWriterHolds`, `LineReturns` | lines of up to three commands, builtins anywhere, `<` and `>`, nothing failing |
| `Pipeline_faults` | `StdIntact`, `Wired`, `ErrWired` | open, pipe, fork may fail, either open of `>&` alone, too; `>&` on lines whose builtins do not redirect |
| `Editor_history` | `TypeOK`, `RecallInBounds`, `EditsText` | recall, search with REV_SEARCH_MODE, `!`, ctrl+w, ctrl+l, tab, and two threads of ctrl+k, unlocked and as late as they like |
| `Editor_screen` | `ScreenFaithful`, `EditsText` | all keys but ctrl+w, ctrl+l, `!` and a tab inside the line, with the screen |
| `Editor_kill` | `KilledIsGone` | violated, see Findings |
| `CommandLine_lines` | `TypeOK`, `LineStandsAlone`, `FlagsSettled`, `CommandsHaveWords` | any tokens, errors, comments, aliases and tabs, inside open quotes, too: what is executed is what was typed for it, but for seven named reasons, and no flag outlives its word |
| `Input_lines` | `TypeOK`, `FilesRunInOrder`, `TypedLineIsRun`, `HistoryFileKeeps`, `EndsOnPurpose`, `TypedReachesParser` | lines typed or a script, sourced files (nested, missing, empty), a `.yashrc`, failing history writes, a second shell on the history file |
| `Directories_lines` | `TypeOK`, `BackWherePushed`, `RelativeFromHere`, `PopGoesThere` | cd, cl, pushd, popd with names and wildcards while directories go and come |
| `Subshell_texts` | `TypeOK`, `WholeOutput`, `Restored`, `Returns` | texts that fit the pipes and texts that do not, `exit` in the middle, two programs in the background at once, failing forks and too few descriptors |

Every property of a passing run has a mutant in `PROJECT.json`: an
operator marked `[mutant]` beside the definition it replaces, which makes TLC
find the property violated.

### Bounds

JobControl: three pids let a line of two meet a job in the background, or one job
be put into the table while two more lines run; groups and table entries meet
in pairs, so a third line is enough for each race. `MaxJobs = 2` bounds what
may be typed, not what the table can hold. Pids are used once, so a run ends
when they are used up. Symmetry over pids is used for invariants only, never with
liveness.

Pipeline: `MaxLen = 3` has a first, a middle and a last command. `MaxFd = 12`
fits a line of three with redirections; `Room` keeps a leak from filling the
table. These runs check deadlock.

LineEditor: `Editor_screen` has lines of 3 characters over a letter and the space,
enough for a word on each side of the cursor. `Editor_history` has lines of 2 over one letter:
the races make any of these of any other. ctrl+w is in that run only, where a word is
the whole of the line left of the cursor. `MaxKillers = 2` is two threads that
pop at once, and `Stale` the letter that may come back. `MaxHist = 2`
gives the position a first and a last value and one past them, and
`TwoFiles` gives tab no match and two that share a beginning. `Drawn = FALSE` drops
the screen where no property looks at it.

CommandLine: `MaxCmds = 2` and `MaxArgs = 2`. What goes wrong goes from one
command, or one word, to the next; a third adds nothing that a second does not
have. One word of each sort (a flag, a flag in quotes, a pattern that matches
two names, which is also the name of an empty alias), and the operator that sets
all redirections. The length of the input is not bounded.

Input: `Block = 2` and files of up to three lines, so that a read may end before,
at and after the line that sources another file; `MaxTyped = 3`, so that a line that
failed has one before and one after it; `MaxOther = 1` is two writes, which can
fall between the two of this shell.

Directories: four directories, one named like the one it is in (so that a name
taken from the wrong place may lead somewhere), a file that matches a wildcard,
a stack of three, one more than a wildcard can push at once. One directory is
removed at a time. The length of the session is not bounded.

Subshell: `Capacity = 2`, `BufferSize = 4`: a text and an output that fit, that fill
and that exceed each, one text that has more lines than the first pipe holds and little output, and
one with two programs in the background. `MaxFd = 9` leaves room for the descriptors of one substitution and
for one that is left, so that from the third of `MaxSubst = 5` substitutions on dup fails, and at the last one
the shell has no descriptor left for the pipes either.

Deadlock is not checked where the program may stop: pids used up
(JobControl), a crash (all of them), `exit` and the end of a script (Input), `MaxHist`
or `MaxTyped` reached, a writer that blocks for ever (Subshell, see Findings).

### Fairness

`JobControl!LiveSpec`: the shell is scheduled; a child that was forked
gets through `launch`; a process that is running ends some day (a stopped one
need not). `Noise` and the prompt are part of the shell. The user is not fair:
`CommandReturns` asks only that a line that was begun ends.
`Pipeline!LiveSpec`: the executor is scheduled and a process that has met the end
of its input exits, which is what a filter does. Nothing asks that a
reader sees its end early: that must follow from the closes.
`Input!LiveSpec`: the shell is scheduled. Nobody has to type, writes may fail for ever,
and a terminal need not end, so that `Return` is fair only while a file or a
script is read. `TypedReachesParser` asks that what was typed gets to the parser.
`Subshell!LiveSpec`: both shells are scheduled, and of the programs in the background
some goes on while any can; whether a blocked writer is released must follow from the reads. `Returns` claims that only where
one of the pipes cannot fill (`Fits`).

## What is proved

**JobControlProofs**: for every set of pids, either mode, every line length and size of the
table, `TypeCorrect` (`TypeOK`), `JobsStayDistinct` (`JobsAreDistinct`) and
`BackgroundStaysOffTerminal` (`BackgroundKeepsOffTerminal`), from `PidAssumption`
(the shell's pid and 0 are not children's), `ModeAssumption` and
`BoundAssumption`. The last is not inductive by itself, since a child that is
still in `launch` may hand the terminal to any group it was told. `IInv` adds that

- every group named by the table, the terminal, `m_pgid`, `pid` or fg's local is
  that of a process that has been forked (`Forked`), so that a new pid is a
  new group;
- between lines `m_pgid` is no child's group (`IdleHasNoGroup`);
- the group of the line being built is not in the table yet (`LineIsUnlisted`);
- while a background line is built, its group is off the terminal and no
  starting child that is not in the background wants it (`BackgroundLineOff`);
- the same of every job the table lists as running (`RunningJobsOff`).

Steps of children that neither fork nor enter the table share one lemma
(`ChildStep`); steps that leave the table alone share `KeepJobs`, those that add the line to
it `PushLine`; Fork, Adopt, fg and the return of fg have one each.

The second part of JobControlProofs: `PromptHasTerminal` (`PromptOwnsTerminal`) and `StoppedStaysListed`
(`StoppedIsListed`) under `MaxLen <= 1`: lines that fork one process at most. With
pipelines the first is false (see the findings); for lines of one process it holds
for all pids, both modes and a table of any size, from the same three assumptions.
`FrontInv` gives the first: once the process of a line is forked there is nothing left to
do (`OneAtATime`), the only process that will still take the terminal in `launch` is that of
the foreground line which the shell waits for (`GrabsInLine`), and until one is forked
the terminal is the shell's (`ShellInFront`). `GroupInv` gives the second: a process
is in, and will join, its own group or the shell's only (`OwnGroup`); `m_pgid` names a
child only while that child's line is in progress (`LineGroup`); and whoever leads a
group is listed, is the one fg waits for, or is the line's (`Reachable`).

**PipelineProofs**: `StdStaysIntact` (`StdIntact`), `StagesAreWired` (`Wired`), `ErrorsAreWired`
(`ErrWired`), `WritersAreAlone` (`OnlyWriterHolds`), `TypeCorrect` and, if nothing fails
(`Faults = {}`), `TableIsRestored` (`TableRestored`), for lines of any length and tables of
any size. `BoundAssumption` asks for twelve descriptors at least: the three standard ones and
the nine that a line needs at most, whatever its length (POSIX promises a process
twenty). The hypothesis `Sound` leaves out what the findings name: a builtin
that returns early, and a builtin that redirects the shell on a line with `>&`; without it the theorems are
false. The two opens of `>&` are two steps (`pc = "both"` between them), each of which may fail alone. `IInv` says where the numbers are:

- 0, 1 and 2 are the shell's own, and each of `m_stdin`, `m_stdout`, `m_stderr` is its
  default or has a number of its own (`ShellsOwn`, `OwnNumbers`);
- the number of a redirection is open on its file for as long as a stage still
  needs it (`Redirected`), and so are those of the stage's ends of pipes (`Reading`, `Writing`);
- the shell holds one write end at most, that of the stage it is about to close
  (`OneWriteEnd`), so that no child gets another one (`OwnWriteEnd`);
- without faults whatever is open is going to be used or closed (`Tidy`), and what the line needs
  is free or its own already (`Roomy`).

The number of the first stage's input is used again after a builtin has closed it, by the
read end of a later pipe; `m_stdin` still names it, and only because `clear()` comes
after all stages does that not close the pipe under its reader. `Redirected` therefore
asks for `m_stdin` no longer than until the first stage has run. The calls themselves are
lemmas about tables: `OpenTable`, `CloseTable`, `MoveTable`, and from them `SetupTable` and
`BuiltinTable`, which says that save, setup and resume leave a table as it was but for the
two numbers they close.

**SubshellProofs**: `StandardIsRestored` (`Restored`) and
`OutputIsWhole` (`WholeOutput`), for all texts,
capacities and table sizes, from `BoundAssumption` and `TextsAssumption`. Whether the
standard streams come back depends on how many descriptors are free when the substitution begins. The
invariant counts them: six free make room for two pipes and two copies; if
standard output could not be kept, there never were six, and never will be again (`Lost`);
if it was, enough is free for the next one (`Enough`), both copies are where the
locals say (`Saved`), and what is spent is one read end for each substitution (`FewSpent`).

For the output: `Merges(z, ss)` says that `z` is made of the outputs `ss[w]` of several
writers, each whole and in its order, and those of different ones in any. `Outputs` says at each moment that the
buffer and the pipe behind it are such a mixture of what the second shell (0) and
the program of each line that was read have printed, but for what each still has
to print (`Printing`). A unit that is printed goes from there to the end of the pipe (`PutsOutputs`,
`PutsLateOutputs`, with `MergesMore`), one that is read from the pipe to the buffer; a line that is read adds to
what is to be printed, and one more writer (`OutputMore`, from a lemma on `FlattenSeq`). `Together` adds that the second shell ends
only at `exit` or when all is written: the shell has given up the write end of the first
pipe then. So the end of file, which comes when nobody has the second pipe, finds nothing
left to be printed.

**LineEditorProofs**: `EditorEditsText` (`EditsText`), the refinement of TextField, with
`TypeCorrect` (`TypeOK`) and `RecallStaysInBounds` (`RecallInBounds`), for any keys, lines,
histories, directories and settings of REV_SEARCH_MODE, from the assumptions on the
constants. A step for which no thread of ctrl+k is in the way (`Undisturbed`) is a step of the text field or leaves it as it is: typing, `!` and
completing what several names have in common insert, backspace and ctrl+w cut left, delete, ctrl+d,
ctrl+delete and, if keys wait for it, each round of a thread of ctrl+k cut right, tab with one match replaces
the last word, the arrows recall or move, Enter submits. There is a lemma for each of these
(`InsertStep`, `CutLeftStep`, ...), and one for each group of keys that gives its case. `IInv` adds
`Positions`, and `FoundLines`: what a search found is in the history, where lines are only added, and
begins with what was searched for, newline at the end included; with `PrefixOfLine` this gives
`RecallInBounds`, and the first half is what makes a line found by a search a recall
in the abstract specification.

Its second part: `ScreenShowsLine` (`ScreenFaithful`), for lines and rows of any length. Its hypotheses
are those of the run `Editor_screen`: the screen is drawn, no key comes while a thread of
ctrl+k is at work, and ctrl+w, ctrl+l, `!` and a tab inside the line, which do break it (see
Findings), are not typed. `ScreenInv` says what is shown while such threads are at work: the
line up to the cursor, though the rest is still in `m_buff` (`ShownText`). Between two writes of a
handler the row is described by `Holds`: what is left of the cursor, and the column beyond which
nothing is; that column is reached by what is printed next (`ReprintShows`), and a blank
printed in the place of the last character is not to be seen (`BlanksUnseen`).

**CommandLineProofs**: `FlagsStaySettled`, for all words, patterns, aliases, operators and
bounds, without an assumption. That each flag is gone one token after it was set
is inductive; the proof is the case analysis over where the parser is, for
each reduction that sets or takes a flag.

Its second part: `LinesStandAlone` (`LineStandsAlone`), `NoCommandWithoutWord` (`CommandsHaveWords`) and
`TypeCorrect` (`TypeOK`), for commands and lines of any length, from the assumptions on the constants
(what a pattern matches, tab finds and an alias stands for are sequences of strings; the
operators are those of the grammar). The property speaks of the moment of `execute()`; the
invariant says at every token that what has been built is what has been typed (`Kept`): the
commands inserted are those that were ended, the arguments are those of the
last (`Built`), wildcards are off if and only if a quoted word was typed, and where a line
begins, is skipped or goes on after `&&` nothing is left of the one before
(`Fresh`). Nothing is claimed once there is a reason in `typed.why`, and the
proof shows that these reasons are all there are: each other step keeps `Kept`. What the
words stand for are concatenations (`FlattenSeq`), of which the proof needs that a word
more is an argument more (`FlattenAppend`, `MeantByAppend`, `CommandsAppend`), and
that one of them is empty only if its first is, for `CommandsHaveWords`.

**InputProofs**: `TypedLinesAreRun` (`TypedLineIsRun`), for all files, scripts and bounds. What
`get()` returns is the last of `m_history`, so the invariant has to say what that is
at each point between `operator()` and `get()`: the number of lines returned
and typed differ by at most the line under way (`InStep`), the lines typed carry their own
numbers (`Numbered`), the history holds only lines typed before or loaded
(`HistoryIsPast`), and between `Push` and `Get` its last is the line just typed unless
that failed (`PushedLast`).

The second part of InputProofs: `TypeCorrect` (`TypeOK`) and `EndsForAReason` (`EndsOnPurpose`), from
`FilesAssumption` (no file has the name of a stream or of what a line is; files and
scripts are sequences; .yashrc is one of the files) and `TerminalAssumption`.
That the shell does not end while it has its editor needs two facts of the
nested calls (`Reader`): a file is read only while the call in front is the one that opened
it, and standard input, if it is the terminal, is read line by line or is closed. The
crashes need that up to the first `source` in a file every one was typed by hand
(`SourcedByHand`), so that a null stream is read line by line, which does not touch it,
and the end of a file closes that file and not standard input.

Its third part: `FilesStayInOrder` (`FilesRunInOrder`), from the same and `BoundAssumption`.
The lines in the buffer follow each other up to where their stream has been read (`Contiguous`), and
what should follow the last line handed over is the first in the buffer or, if that is empty,
the first that the next read brings (`Pending`).

Its fourth part: `HistoryIsKept` (`HistoryFileKeeps`), from the same. What the other shell wrote is
counted unit by unit, and a line of this shell adds nothing to any count (`OthersKept`,
`CountMore`). The texts of this shell's lines increase, and that of the last is not in the file while
the editor is about to write it (`OwnInOrder`); once written, each text is there
(`OwnKept`). What is typed before main has its editor would not count, and needs no case: should
.yashrc not end the shell first, the terminal is closed before (`TerminalRead`).

**DirectoriesProofs**: `BackToWhereItWas` (`BackWherePushed`), for every tree, all texts, any
order of names and any depth, from `StartAssumption`, `RemovedAssumption` (the path
of a removed directory is not that of one that exists) and `BoundAssumption`. `IInv` adds
that the stack and what it should lead to have one length and turn together
(`Stacks`: pushd of a name, of a wildcard, and popd turn them in three ways), that
the shell is in a directory that exists or one that never exists
again (`SomewhereReal`), and that at the prompt of a terminal PWD is the
working directory unless that is gone (`PwdIsHere`). `TypeCorrect` (`TypeOK`) follows from
`IInv` and `Bounded`.

Its second part proves the two action properties: `PopLeadsThere` (`PopGoesThere`) and `NamesLeadFromHere`
(`RelativeFromHere`). They are about the steps of lookups, so `Find` is a recursive function on
the names of a text, and the proof goes along them: down from the root by
names other than `.` and `..` one gets to the directory or nowhere (`WalkDown`), and the names
from the root and from here lead to the same (`FindFromHere`). For this each directory that exists
has to lie in one that exists (`Nested`: only an empty one is removed), and each entry of
the stack to be a text (`Entries`). The assumptions say what a tree is (`TreeAssumption`: it holds
the directories above each of its directories, and `.` and `..` are not names in it) and what
is typed (`TextsAssumption`).

**Times**: `DifferenceExact`, `DiffTimevalExact`, `AddTimevalExact` and
`SecondsNearest`, for all times the kernel can hand out.

What a function that is defined by recursion computes (`Among`, the elements of a sequence that
are in a set, in LineEditor; `FlattenSeq` in CommandLine and Subshell; `Find` in Directories) is proved by the least number for which it
does not: the induction theorems of the library take an operator and cannot be cited, but that
`<` is well-founded on the numbers can, and `Climb` is what is needed of it.

Only model-checked is liveness, which the prover does not reach at all: `LineReturns`,
`CommandReturns`, `TypedReachesParser`, `Returns`. Each safety property that a passing run checks is
a theorem, but for `TypeOK` of Subshell. In no run and no theorem is there a word about a key that overlaps with a thread of
ctrl+k, but that the positions in the history stay in bounds.

## Findings

A violation that a run shows and a comment of the code contradicts:

- `Editor_kill`: "ctrl + k clears the remaining parts of the line"
  (`src/shell-readline.cpp:621`), but a detached thread does it, for which nobody waits. A letter,
  left, ctrl+k and Enter: the letter, gone from the screen, is submitted and in the history.

Seen with other settings of the constants, or while a passing property was being
stated. The properties except them by name or by the keys, kinds and
texts that a run does not have.

Jobs and pipelines:

- With nothing of its own forked, `execute()` calls
  `waitpid(0, ...)`, which waits for any child of the group: in a script, a
  builtin after `sleep 5 &` waits for the sleep. Interactively, a process stopped
  in the shell's own group, its stop already reported, blocks a later builtin
  for ever (`CommandReturns` with `Interactive = TRUE`).
- When the first process is gone before the second is forked, its group no longer
  exists, setpgid fails unchecked and the second process stays in the shell's group.
- `send_to_foreground` sends SIGCONT to one process, the leader; the rest of a stopped
  pipeline stays stopped. For a process that is in the shell's own group it signals, and waits
  for, the shell itself.
- `MaxLen = 2` violates `PromptOwnsTerminal`: a slow child takes the terminal after
  the shell has taken it back. The shell recovers through `Noise`.
- `cd a | cd b >& f`: `setup_process_io` in the shell closes
  the shared `m_stderr`, whose number then holds the saved standard input.
- `Kinds` with `"early"` violates `StdIntact`: the error returns of `handle_cd`
  (among them `cd old new` where `old` is not found) and `handle_unsetenv` skip
  `resume_io`, and the shell stays on the line's files.
- `Faults` with `"ambiguous"` violates `TableRestored`: the first of two
  redirections of a stream is left open.

Editor:

- Each ctrl+k starts a thread of its own, and nothing locks `m_buff` against it: undefined behaviour as
  soon as a key comes before it has ended.
- ctrl+w, ctrl+l and `!` violate `ScreenFaithful`: the rest is written one column
  off, the line is drawn before the clear, a swallowed or repeated character stays
  visible. A tab inside the line is not redrawn either.
- `!` followed by Enter takes a newline into the line; searching for such a line
  runs out of its string. Up and then Down shows the same line again, since the
  one moves the position after showing and the other before.
- delete pops an empty `m_current_line_copy`, and tab on an empty line with one file
  in the directory writes past an empty vector: undefined behaviour, modelled as a
  crash or, for delete, a size that wraps.

Grammar:

- A comment takes the newline with it, so that the next line goes on where the comment began.
  Its text is printed: `[.]+` (`src/shell_flex.ll:90`) ignores dots only.
- A syntax error leaves the commands and redirections read so far in
  `currentCommand`, and the next line runs them.
- The arguments of fg and bg stay in the command, and `pushd d` alone runs
  `d d`; `pushd` of a wildcard with nothing after it has no word and ends the shell.
- A tab on a line that a text in quotes or in backticks goes on to replaces
  `currentSimpleCommand` (`src/shell-readline.cpp:418`): the words typed so far are not run.
- Tab with several matching programs leaves their names in `wc_collector`, and the next
  argument without a wildcard brings them along.
- `alias x y`, without `=`, is strdup of a null pointer (`src/shell_bison.yy:79`). A quoted text
  of an alias leaves wildcards off for the command after it. An alias that stands for nothing
  ends the shell if it is the whole command.

Input:

- A line that could not be written to the history is not run: the one before it is, again.
- `source` in a file or a script loses the lines after it that had been read ahead.
  Of a file that does not exist, it leaves `yyin` null, which the next read of a
  block crashes on; at the end of a sourced file inside a script, standard
  input may be the stream that is closed.

Directories:

- After `&&`, in a script, and with a PROMPT of one's own, a relative name is
  resolved from a PWD that is old.
- popd never drops an entry that does not exist any more: it stays on top.
- pushd of a wildcard leaves the last match out, puts PWD at the bottom of the
  stack, does not ask whether it could go anywhere, and keeps the matches of `?` as relative
  names.

Substitution:

- Each one leaks a descriptor. At the limit, dup fails and the standard streams do not come back.
- An output of more than 1024 bytes overflows `buffer`. A text with more lines than the
  pipe holds blocks the writer if the second shell exits first, or blocks because the other pipe
  is full, which nobody reads as long as the shell writes.

Times:

- The user time of `time` uses `kidsb`, which is never set, and `selfb`, which was set
  twice. The branch of `operator-` that gives back is never taken.

## Not modelled, and abstractions

Jobs: process ids are not recycled; the job numbers printed to the user
(`m_job_map`) and the text of `jobs` are left out; so is the second
`setup_process_io` in the process that `cl` forks.

Terminal and editor: terminal writes succeed, the terminal is wider than the line, KEY_VERBOSE is off,
end of file on a terminal in raw mode does not occur. `getStashed` and `m_get_mode` 2,
which nothing sets, are left out.

Grammar: quoting, escapes, `~` and `${}` are data; `env_expand` and `tilde_expand` are functions of
characters without a state (the overrun of `env_expand` at `src/shell-utils.cpp:218` is for
a unit test). `Names` and `Glob` stand for the file system; hidden files and GLOB_PERIOD are
left out, and so is the layout of `printEvenly`.

Directories: no symbolic links and no permissions; setenv PWD and a cd inside a
pipeline are left out.

Substitution: the second shell is not ended by a signal, and programs in it do not
read the text themselves. `eval_to_buffer` is the output of pwd in Directories, where its `pipe` and
`fork` succeed (`src/command.cpp:350` does not ask).

The listing commands (ls, grep, printenv, history, jobs) only rewrite arguments or
print, in processes of their own.

## What would come next

`env_expand` over short strings against a reference definition.
