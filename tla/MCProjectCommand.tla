-------------------------- MODULE MCProjectCommand --------------------------
(* Commands on a small disk for TLC. *)
EXTENDS ProjectCommand, TLC

ProjectSymmetry == Permutations(Projects)

MCDashed == {"-w", "--workspace", "-n", "-x", "-h"}

\* Every command, with a workspace or without, and lines that are none. One of
\* those that only wait for an answer reads its config: the others would go
\* through the same states.
MCCommandLines ==
    {<<"healthcheck">>, <<"workspace", "list">>, <<"workspace", "init">>,
     <<"workspace", "delete">>, <<"workspace", "delete", "--workspace", "1">>,
     <<"task", "new", "build", "-w", "1">>, <<"task", "new", "build">>,
     <<"task", "--workspace", "1", "get", "0">>,
     <<"task", "get", "--workspace", "1", "0">>, <<"task", "list">>,
     <<"task", "edit", "0">>, <<"task", "print", "0">>,
     <<"task", "delete", "0", "-w", "2", "-w", "1">>, <<"task", "edit">>, <<"-h">>}

MCPrefixes ==
    {Commands[i].prefix : i \in DOMAIN Commands} \cup {<<>>, <<"task">>, <<"task", "build">>}
MCTokens == {"-w", "--workspace", "-n", "-x", "1", "list"}
MCTokenLines ==
    {p \o rest : p \in MCPrefixes, rest \in UNION {[1 .. n -> MCTokens] : n \in 0 .. 4}}
=============================================================================
