---------------------------- MODULE Directories ----------------------------
(***************************************************************************)
(* The working directory of YaSh: cd, cl, pushd and popd, the variable PWD *)
(* from which they complete relative names, and the prompt, the only place *)
(* that brings PWD up to date.  Directories are removed and made by other  *)
(* programs meanwhile.                                                     *)
(*                                                                         *)
(* A directory is its physical path, the sequence of names from the root;  *)
(* there are no symbolic links.  A text is a path as it is written, with   *)
(* "." and "..", from the root if it is absolute.                          *)
(***************************************************************************)
EXTENDS Naturals, Sequences, SequencesExt, FiniteSetsExt

CONSTANTS
    Tree,      \* the directories that may exist, the root among them
    Files,     \* the paths of other files, which stay
    Order,     \* all names, in the order in which glob() returns them
    Start,     \* where the shell is started
    Home,      \* the home directory of the user
    Words,     \* the texts that are typed
    MaxStack   \* bound: directories on the stack

VARIABLES
    dirs,      \* the directories that exist
    cwd,       \* the working directory, perhaps a removed one
    PWD,       \* the variable of the environment, a text
    stack,     \* m_dir_stack, texts
    bol,       \* a line begins: nothing was executed since the prompt
    refreshes, \* standard input is a terminal and PROMPT is unset: prompt() sets PWD
    from       \* the directory each entry of the stack should lead back to, if known

vars == <<dirs, cwd, PWD, stack, bol, refreshes, from>>

Absolute(d) == [abs |-> TRUE, names |-> d]
Relative(ns) == [abs |-> FALSE, names |-> ns]

\* What pwd says of a directory that was removed, and what no directory is called
Complaint == Relative(<<"pwd: error">>)

\* The two names that every directory has
IsDots(n) == n \in {".", ".."}

\* The path of a removed directory: no lookup leads there.
Removed(d) == Append(Front(d), Last(d) \o " (deleted)")
Nowhere == <<"nowhere">>
Unknown == <<"unknown">>

\* A directory lies in another one, from the root on, and is not called "." or "..".
ASSUME TreeAssumption ==
    /\ Tree \subseteq Seq(STRING) /\ Nowhere \notin Tree
    /\ \A d \in Tree : \A i \in 1 .. Len(d) :
           SubSeq(d, 1, i - 1) \in Tree /\ ~IsDots(d[i])
ASSUME TextsAssumption == Words \subseteq [abs : BOOLEAN, names : Seq(STRING)]
                          /\ Home \in Seq(STRING)
ASSUME StartAssumption == Start \in Tree /\ <<>> \in Tree
ASSUME RemovedAssumption == \A d \in Tree \ {<<>>} : Removed(d) \notin Tree
ASSUME BoundAssumption == MaxStack \in Nat

Init == /\ dirs = Tree /\ cwd = Start /\ PWD = Absolute(Start) /\ stack = <<>>
        /\ bol = TRUE /\ refreshes \in BOOLEAN /\ from = <<>>

-----------------------------------------------------------------------------
\* One name looked up in a directory
Lookup(d, n) == CASE d = Nowhere -> Nowhere
                  [] d # Nowhere /\ n = "." -> d
                  [] d # Nowhere /\ n = ".." ->
                         IF d = <<>> THEN d ELSE IF Front(d) \in dirs THEN Front(d) ELSE Nowhere
                  [] OTHER -> IF Append(d, n) \in dirs THEN Append(d, n) ELSE Nowhere

\* The directory that a text names for the kernel, one name after the other
Find(s) == LET walk[i \in 0 .. Len(s.names)] ==
                   IF i > 0 THEN Lookup(walk[i - 1], s.names[i])
                   ELSE IF s.abs THEN <<>> ELSE cwd
           IN  walk[Len(s.names)]

\* ... and for cd: what it adds to PWD
Joined(s) == IF s.abs THEN s ELSE [PWD EXCEPT !.names = @ \o s.names]

Empty == Relative(<<>>)

\* changedir: the text must name a directory for the kernel, and the shell goes to
\* what it names from PWD.  The empty text is the home directory.
Target(s) == CASE s = Empty -> Find(Absolute(Home))
               [] s # Empty /\ Find(s) = Nowhere -> Nowhere
               [] OTHER -> Find(Joined(s))

\* chdir: a directory that is not there leaves the shell where it is.
Goes(d) == cwd' = IF d \in dirs THEN d ELSE cwd

\* [mutant] cd leaves PWD with the directory it went to
CdSetsPWD(s) ==
    /\ Goes(Target(IF s = Empty THEN s ELSE Joined(s)))
    /\ PWD' = IF Target(s) = Nowhere THEN PWD ELSE Joined(s)
    /\ bol' = FALSE
    /\ UNCHANGED <<dirs, stack, refreshes, from>>

\* handle_cd without a word (or with "pwd"), and with one: PWD is set to where it went
\* and then set back in any case.
Cd(s) ==
    /\ Goes(Target(IF s = Empty THEN s ELSE Joined(s)))
    /\ bol' = FALSE
    /\ UNCHANGED <<dirs, PWD, stack, refreshes, from>>

\* ... with two: in the text of PWD, the first of the two is replaced once.
CdReplace(old, new) ==
    /\ \E i \in DOMAIN PWD.names :
           /\ PWD.names[i] = old /\ \A j \in 1 .. i - 1 : PWD.names[j] # old
           /\ Goes(Target([PWD EXCEPT !.names[i] = new]))
    /\ bol' = FALSE
    /\ UNCHANGED <<dirs, PWD, stack, refreshes, from>>

\* handle_cl: it goes there, if it can, and runs ls.
Cl(s) ==
    /\ s # Empty /\ Goes(Target(s)) /\ bol' = FALSE
    /\ UNCHANGED <<dirs, PWD, stack, refreshes, from>>

-----------------------------------------------------------------------------
(* The stack.                                                              *)

\* Where popd should lead to: here, if it is known that PWD says where that is
Here == IF bol /\ refreshes /\ cwd \in dirs THEN cwd ELSE Unknown

\* pushDir of a name without wildcards
PushD(s) ==
    /\ s # Empty /\ Len(stack) < MaxStack
    /\ Goes(Target(s))
    /\ IF Target(s) = Nowhere THEN UNCHANGED <<stack, from>>
       ELSE stack' = <<PWD>> \o stack /\ from' = <<Here>> \o from
    /\ bol' = FALSE
    /\ UNCHANGED <<dirs, PWD, refreshes>>

\* What matches all names of the directory d
Matches(d) == SelectSeq(Order, LAMBDA n : Append(d, n) \in dirs \cup Files)

\* pushDir of a wildcard, in a line that has a command after it (without, it ends the
\* shell: CommandLine): "*" is looked for in PWD, "?" where the shell is, and its names
\* stay relative.  The last match is left out; the directories go on top, and the
\* shell to the first, with PWD put at the bottom.
PushMatches(star) ==
    LET dir == IF star THEN Find(PWD) ELSE cwd
        found == Matches(dir)
        Text(n) == IF star THEN Joined(Relative(<<n>>)) ELSE Relative(<<n>>)
        IsDirectory(n) == Append(dir, n) \in dirs
        tops == IF found = <<>> THEN <<>> ELSE SelectSeq(Front(found), IsDirectory)
        stacked == [i \in 1 .. Len(tops) |-> Text(tops[i])] \o stack
    IN  /\ Len(tops) \in 0 .. MaxStack - Len(stack) /\ bol' = FALSE
        /\ IF found = <<>> \/ stacked = <<>> THEN UNCHANGED <<cwd, stack, from>>
           ELSE /\ Goes(Target(Head(stacked)))
                /\ stack' = Append(Tail(stacked), PWD)
                /\ from' = Append(Tail([i \in 1 .. Len(tops) |-> Unknown] \o from), Here)
        /\ UNCHANGED <<dirs, PWD, refreshes>>

\* [mutant] a directory that is not there any more is dropped
PopDDrops ==
    /\ bol /\ stack # <<>> /\ Goes(Target(Head(stack)))
    /\ stack' = Tail(stack) /\ from' = Tail(from)
    /\ bol' = FALSE
    /\ UNCHANGED <<dirs, PWD, refreshes>>

\* popDir: the entry that cannot be reached stays on top.
PopD ==
    /\ bol /\ stack # <<>>
    /\ Goes(Target(Head(stack)))
    /\ IF Target(Head(stack)) = Nowhere THEN UNCHANGED <<stack, from>>
       ELSE stack' = Tail(stack) /\ from' = Tail(from)
    /\ bol' = FALSE
    /\ UNCHANGED <<dirs, PWD, refreshes>>

-----------------------------------------------------------------------------
\* [mutant] the prompt shows the directory and leaves PWD as it is
PromptShows == bol' = TRUE /\ UNCHANGED <<dirs, cwd, PWD, stack, refreshes, from>>

\* prompt() at the end of the line: the output of pwd, its complaints included
Prompt ==
    /\ bol' = TRUE
    /\ PWD' = IF refreshes THEN IF cwd \in dirs THEN Absolute(cwd) ELSE Complaint ELSE PWD
    /\ UNCHANGED <<dirs, cwd, stack, refreshes, from>>

\* Another program removes an empty directory, one at a time, perhaps the one the
\* shell is in, and makes it again.
RemoveDirectory(d) ==
    /\ dirs = Tree /\ d \in dirs \ {<<>>} /\ \A e \in dirs \cup Files : e = <<>> \/ Front(e) # d
    /\ dirs' = dirs \ {d} /\ cwd' = IF cwd = d THEN Removed(d) ELSE cwd
    /\ UNCHANGED <<PWD, stack, bol, refreshes, from>>

MakeDirectory == dirs' = Tree /\ UNCHANGED <<cwd, PWD, stack, bol, refreshes, from>>

Next == \/ \E s \in Words : Cd(s) \/ Cl(s) \/ PushD(s)
        \/ \E old, new \in ToSet(Order) : CdReplace(old, new)
        \/ \E star \in BOOLEAN : PushMatches(star)
        \/ PopD \/ Prompt \/ MakeDirectory
        \/ \E d \in Tree : RemoveDirectory(d)

Spec == Init /\ [][Next]_vars

-----------------------------------------------------------------------------
(* Properties.                                                             *)

\* PWD stays absolute, but for the complaint of a pwd that failed, though cd and
\* changedir take their texts apart and join them again; the shell is in a
\* directory that exists or in one that was removed under it.
TypeOK ==
    /\ dirs \subseteq Tree
    /\ cwd \in dirs \cup {Removed(d) : d \in Tree \ {<<>>}}
    /\ PWD \in {Absolute(d) : d \in Tree} \cup {Complaint}
    /\ Len(from) = Len(stack) /\ Len(stack) <= MaxStack
    /\ {bol, refreshes} \subseteq BOOLEAN

\* What the stack remembers: an entry that a pushd at the beginning of a line has
\* added is the directory the shell was in then, wherever other pushd and popd, with
\* and without wildcards, have moved it and whatever is removed and made since.
\* After `&&` it may be another one: PWD is then what it was when the line began.
BackWherePushed == \A i \in 1 .. Len(stack) : from[i] # Unknown => stack[i] = Absolute(from[i])

\* At the prompt of a terminal, PWD is no worse than the kernel: a relative name
\* leads where the kernel finds it from the working directory, and a name that
\* leads nowhere leaves the shell where it is.  In the rest of a line, in a script and
\* with a PROMPT of one's own, names are taken from where PWD was read last.
RelativeFromHere ==
    [][\A s \in Words :
           bol /\ refreshes /\ cwd \in dirs /\ s # Empty /\ (Cd(s) \/ Cl(s) \/ PushD(s)) =>
               Goes(Find(s))]_vars

\* popd takes a directory off the stack only when the shell has gone there: no entry
\* is lost to a directory that is gone for the moment.
PopGoesThere ==
    [][Len(stack') < Len(stack) => /\ cwd' \in dirs /\ stack' = Tail(stack)
                                   /\ (Head(from) # Unknown => cwd' = Head(from))]_vars
=============================================================================
