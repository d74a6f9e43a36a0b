----------------------------- MODULE CommandLine -----------------------------
(***************************************************************************)
(* The command line of the client: the commands of client/commands with    *)
(* their arguments, CommandParser_Parse, which finds the command, and      *)
(* ArgsParser_Parse, which gives values to its arguments; with the grammar *)
(* they implement.  A command line is the sequence of its tokens, without  *)
(* the name of the program.                                                *)
(***************************************************************************)
EXTENDS Integers, Sequences, FiniteSets

CONSTANT Dashed   \* the tokens that begin with '-'

NoPosition == -1   \* ARG_POSITION_NONE

Option(short, full) == [forms |-> {short, full}, required |-> FALSE, position |-> NoPosition]
Positional == [forms |-> {}, required |-> TRUE, position |-> 0]

WorkspaceOption == Option("-w", "--workspace")
NameOption      == Option("-n", "--name")

Command_HealthCheck     == [prefix |-> <<"healthcheck">>, args |-> <<>>]
Command_WorkspaceInit   == [prefix |-> <<"workspace", "init">>, args |-> <<NameOption>>]
Command_WorkspaceDelete == [prefix |-> <<"workspace", "delete">>, args |-> <<WorkspaceOption>>]
Command_WorkspaceList   == [prefix |-> <<"workspace", "list">>, args |-> <<>>]
Command_TaskNew    == [prefix |-> <<"task", "new">>, args |-> <<Positional, WorkspaceOption>>]
Command_TaskGet    == [prefix |-> <<"task", "get">>, args |-> <<Positional, WorkspaceOption>>]
Command_TaskList   == [prefix |-> <<"task", "list">>, args |-> <<WorkspaceOption>>]
Command_TaskEdit   == [prefix |-> <<"task", "edit">>, args |-> <<Positional, WorkspaceOption>>]
Command_TaskPrint  == [prefix |-> <<"task", "print">>, args |-> <<Positional, WorkspaceOption>>]
Command_TaskDelete == [prefix |-> <<"task", "delete">>, args |-> <<Positional, WorkspaceOption>>]

\* In the order main registers them.
Commands ==
    <<Command_HealthCheck, Command_WorkspaceInit, Command_WorkspaceDelete,
      Command_WorkspaceList, Command_TaskNew, Command_TaskGet, Command_TaskList,
      Command_TaskEdit, Command_TaskPrint, Command_TaskDelete>>

-----------------------------------------------------------------------------
\* ArgsParser_Parse: a status, and per argument its value, or NoValue where
\* it is not initialized.
NoValue == "(none)"

FindOption(args, token) ==
    {a \in DOMAIN args : args[a].position = NoPosition /\ token \in args[a].forms}
FindPosition(args, position) == {a \in DOMAIN args : args[a].position = position}

\* Mutant: the value of an option is looked at again, as an argument.
SameToken(i) == i + 1

\* The token after an option and its value.
AfterValue(i) == i + 2

\* Where the loop over the tokens is: at token i, in search of the argument for
\* nextPosition, with the values so far.
At(i, nextPosition, values) ==
    [i |-> i, nextPosition |-> nextPosition, values |-> values, status |-> "OK"]

LoopStart(args) == At(1, 0, [a \in DOMAIN args |-> NoValue])

\* The value goes to the argument that was found.
Give(s, found, value) == [s.values EXCEPT ![CHOOSE a \in found : TRUE] = value]

WithStatus(s, status) == [s EXCEPT !.status = status]

\* One turn of the loop; after the last token, and after an error, nothing.
ParseToken(args, tokens, s) ==
    LET options     == FindOption(args, tokens[s.i])
        positionals == FindPosition(args, s.nextPosition)
    IN  IF s.status # "OK" \/ s.i > Len(tokens) THEN s
        ELSE IF options # {} THEN
            IF s.i = Len(tokens) THEN WithStatus(s, "MISSING_OPTION_VALUE")
            ELSE At(AfterValue(s.i), s.nextPosition, Give(s, options, tokens[s.i + 1]))
        ELSE IF tokens[s.i] \in Dashed THEN WithStatus(s, "UNKNOWN_OPTION")
        ELSE IF positionals = {} THEN WithStatus(s, "UNEXPECTED_ARGUMENT")
        ELSE At(s.i + 1, s.nextPosition + 1, Give(s, positionals, tokens[s.i]))

\* The loop after each of its turns, of which there are no more than tokens.
Turns(args, tokens) ==
    LET turn[n \in 0 .. Len(tokens)] ==
          IF n = 0 THEN LoopStart(args) ELSE ParseToken(args, tokens, turn[n - 1])
    IN  turn

ArgsParser_Parse(args, tokens) ==
    LET end == Turns(args, tokens)[Len(tokens)]
    IN  IF end.status = "OK" /\ \E a \in DOMAIN args : args[a].required /\ end.values[a] = NoValue
        THEN WithStatus(end, "MISSING_REQUIRED_ARGUMENT")
        ELSE end

-----------------------------------------------------------------------------
\* CommandParser_Parse: the first command whose prefix the line has, and the
\* values of its arguments; errors of the two parsers look the same.
MatchPrefix(c, line) ==
    /\ Len(line) >= Len(c.prefix)
    /\ \A p \in DOMAIN c.prefix : c.prefix[p] = line[p]

NoCommand == [prefix |-> <<>>, values |-> <<>>]

CommandParser_Parse(line) ==
    LET matching == {i \in DOMAIN Commands : MatchPrefix(Commands[i], line)}
        c        == Commands[CHOOSE i \in matching : \A j \in matching : i <= j]
        parsed   == ArgsParser_Parse(c.args, SubSeq(line, Len(c.prefix) + 1, Len(line)))
    IN  IF matching = {} \/ parsed.status # "OK"
        THEN NoCommand
        ELSE [prefix |-> c.prefix, values |-> parsed.values]

\* main.c shows the usage, and calls no command.
AsksForHelp(line) == line = <<>> \/ line[1] \in {"-h", "--help"}

-----------------------------------------------------------------------------
\* The grammar, as the usage of main.c and the tables above state it: behind
\* the prefix, every token is an option, the value of the option before it, or
\* a positional argument; no option lacks its value, and an argument given
\* more than once has its last value.
Roles(args, rest) ==
    LET forms == UNION {args[a].forms : a \in DOMAIN args}
        names == Cardinality({a \in DOMAIN args : args[a].position # NoPosition})
    IN  {role \in [DOMAIN rest -> {"option", "value", "name"}] :
            /\ \A i \in DOMAIN rest :
                  /\ role[i] = "value" <=> i > 1 /\ role[i - 1] = "option"
                  /\ role[i] = "option" => rest[i] \in forms
                  /\ role[i] = "name" => rest[i] \notin forms \cup Dashed
            /\ rest # <<>> => role[Len(rest)] # "option"
            /\ Cardinality({i \in DOMAIN rest : role[i] = "name"}) = names}

\* The value of an argument: the token behind its last option, or the name.
ValueOf(arg, rest, role) ==
    LET given == {i \in DOMAIN rest :
                    IF arg.position = NoPosition
                    THEN role[i] = "value" /\ rest[i - 1] \in arg.forms
                    ELSE role[i] = "name"}
    IN  IF given = {} THEN NoValue ELSE rest[CHOOSE i \in given : \A j \in given : j <= i]

Means(line, result) ==
    \/ \E c \in {Commands[i] : i \in DOMAIN Commands} :
          LET rest == SubSeq(line, Len(c.prefix) + 1, Len(line))
          IN  /\ line = c.prefix \o rest
              /\ \E role \in Roles(c.args, rest) :
                    result = [prefix |-> c.prefix,
                              values |-> [a \in DOMAIN c.args |-> ValueOf(c.args[a], rest, role)]]
    \/ /\ \A i \in DOMAIN Commands : LET c == Commands[i]
                                          rest == SubSeq(line, Len(c.prefix) + 1, Len(line))
                                     IN  line = c.prefix \o rest => Roles(c.args, rest) = {}
       /\ result = NoCommand
=============================================================================
