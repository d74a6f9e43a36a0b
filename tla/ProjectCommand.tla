--------------------------- MODULE ProjectCommand ---------------------------
(***************************************************************************)
(* Client commands over the workspaces of WorkspaceStore.  A command is a  *)
(* command line run in a project.  It connects to the server first; then   *)
(* it takes the id of its workspace from its -w option, or reads it from   *)
(* the config in the project it runs in; then it makes one request, which  *)
(* waits until the server is done with others'.  task edit and task print  *)
(* go on with the path of the task they were answered with, long after.    *)
(*                                                                         *)
(* One command of that kind is followed (held), the others make their      *)
(* requests at once: between the steps of the one held, anything happens.  *)
(***************************************************************************)
EXTENDS WorkspaceStore, CommandLine

CONSTANTS
    CommandLines,   \* the command lines that users type
    TokenLines      \* the lines the parsers are compared with the grammar on

\* A line is a sequence of strings, none of which stands for an argument that
\* is not initialized.
ASSUME LinesAssumption == \A line \in TokenLines : line \in Seq(STRING \ {NoValue})

VARIABLES
    held,   \* the command that has the id of a workspace, or Nothing
    cut     \* projects whose handler was cut short, or failed, and left remains

commandVars == <<held, cut>>
projectVars == <<vars, commandVars>>

\* A line means a command, or nothing: help, and errors, end at once.
Intents ==
    {CommandParser_Parse(line) : line \in {l \in CommandLines : ~AsksForHelp(l)}} \ {NoCommand}

Nothing == [then |-> "nothing", project |-> NoProject, id |-> NoId]

ProjectInit ==
    /\ Init
    /\ held = Nothing
    /\ cut = {}

\* A project has remains of an init or a delete from when its handler gives up or
\* dies until its .wetman is gone.
Acknowledged == live' \ live # {} \/ deleted' \ deleted # {}
CutShort ==
    IF pc \notin BootSteps \cup TaskSteps \cup {"idle"} /\ pc' \in {"idle", "down"} /\ ~Acknowledged
    THEN {curProject}
    ELSE {}
TrackCut == cut' = {p \in cut \cup CutShort : dotWetman'[p] # Absent}

-----------------------------------------------------------------------------
\* strtoull: a value that is no number is 0.
IdIn(value) == CASE value = "1" -> 1 [] value = "2" -> 2 [] OTHER -> 0

WorkspaceValue(c) == c.values[Len(c.values)]

\* The server listens, and UnixClient_Connect does not exit.
Connected == pc \notin BootSteps

\* Mutant: the status of WorkspaceConfig_Read is not looked at.
ReadUnchecked(p) == TRUE

ConfigReadable(p) == dotWetman[p] \in Ids

\* A command with -w knows its workspace without reading anything, so waiting
\* for the server makes no difference to it: it is its request.
Given(c) == WorkspaceValue(c) # NoValue

\* Without -w it reads the config of its project, and ends if it cannot.
Hold(c, p, then) ==
    /\ ~Given(c)
    /\ held = Nothing
    /\ Connected
    /\ ConfigReadable(p)
    /\ held' = [then |-> then, project |-> p,
                id |-> IF dotWetman[p] \in Ids THEN dotWetman[p] ELSE 0]
    /\ UNCHANGED <<vars, cut>>

GivenId(c) == IdIn(WorkspaceValue(c))

\* Of the endpoints of tasks, TaskNew rewrites the config of the workspace; the
\* others change only what is below workspaces/<id>/tasks.
TaskRequest(c, p, then) ==
    \/ Hold(c, p, then)
    \/ Given(c) /\ pc = "idle" /\ UNCHANGED projectVars

RunTaskNew(c, p) ==
    /\ c.prefix = Command_TaskNew.prefix
    /\ \/ Hold(c, p, "new")
       \/ /\ Given(c)
          /\ TaskNewRequest(GivenId(c)) \/ TaskNewRefused(GivenId(c))
          /\ UNCHANGED held
          /\ TrackCut

RunTaskGet(c, p)    == c.prefix = Command_TaskGet.prefix /\ TaskRequest(c, p, "answer")
RunTaskList(c, p)   == c.prefix = Command_TaskList.prefix /\ TaskRequest(c, p, "answer")
RunTaskDelete(c, p) == c.prefix = Command_TaskDelete.prefix /\ TaskRequest(c, p, "answer")
RunTaskEdit(c, p)   == c.prefix = Command_TaskEdit.prefix /\ TaskRequest(c, p, "path")
RunTaskPrint(c, p)  == c.prefix = Command_TaskPrint.prefix /\ TaskRequest(c, p, "path")

RunWorkspaceDelete(c, p) ==
    /\ c.prefix = Command_WorkspaceDelete.prefix
    /\ \/ Hold(c, p, "delete")
       \/ /\ Given(c)
          /\ DeleteRequest(GivenId(c)) \/ DeleteRefused(GivenId(c))
          /\ UNCHANGED held
          /\ TrackCut

\* workspace init reads nothing: it is its request. It has a name in any
\* directory but the root.
RunWorkspaceInit(c, p) ==
    /\ c.prefix = Command_WorkspaceInit.prefix
    /\ InitRequest(p) \/ InitRefused(p)
    /\ UNCHANGED held
    /\ TrackCut

-----------------------------------------------------------------------------
\* The server takes up the request of the command that is held.
AnswerDelete ==
    /\ held.then = "delete"
    /\ DeleteRequest(held.id) \/ DeleteRefused(held.id)
    /\ held' = Nothing
    /\ TrackCut

AnswerNew ==
    /\ held.then = "new"
    /\ TaskNewRequest(held.id) \/ TaskNewRefused(held.id)
    /\ held' = Nothing
    /\ TrackCut

AnswerTask ==
    /\ pc = "idle"
    /\ held.then = "answer"
    /\ held' = Nothing
    /\ UNCHANGED <<vars, cut>>

\* Endpoint_TaskGet does not read the config: it is answered with a path below
\* workspaces/<id>/tasks if the task is there, whatever the link leads to.
AnswerPath ==
    /\ pc = "idle"
    /\ held.then = "path"
    /\ \/ held.id \in tasksDirs /\ held' = [held EXCEPT !.then = "file"]
       \/ held' = Nothing
    /\ UNCHANGED <<vars, cut>>

\* The editor exits, or the file is printed, whatever the server did meanwhile.
FileDone ==
    /\ held.then = "file"
    /\ held' = Nothing
    /\ UNCHANGED <<vars, cut>>

\* The user interrupts the command before its request is served.
Interrupt ==
    /\ held.then \in {"answer", "new", "path", "delete"}
    /\ held' = Nothing
    /\ UNCHANGED <<vars, cut>>

-----------------------------------------------------------------------------
\* The server, and the commands that are not followed. A crash breaks the
\* connection of the command that waits.
Others ==
    /\ Next
    /\ held' = IF pc' = "down" /\ held.then # "file" THEN Nothing ELSE held
    /\ TrackCut

ProjectNext ==
    \/ Others
    \/ \E c \in Intents, p \in Projects :
          \/ RunTaskNew(c, p) \/ RunTaskGet(c, p) \/ RunTaskList(c, p) \/ RunTaskDelete(c, p)
          \/ RunTaskEdit(c, p) \/ RunTaskPrint(c, p)
          \/ RunWorkspaceInit(c, p) \/ RunWorkspaceDelete(c, p)
    \/ AnswerDelete \/ AnswerNew \/ AnswerTask \/ AnswerPath \/ FileDone \/ Interrupt

ProjectSpec == ProjectInit /\ [][ProjectNext]_projectVars

-----------------------------------------------------------------------------
\* The two parsers accept what the grammar has a meaning for, with that meaning
\* (main.c:21-42, args/parser.c:42-98): looked at once, before anything ran.
ParserMeetsGrammar ==
    pc = "down" /\ crashes = 0 /\ faults = 0 /\ removals = 0 =>
        \A line \in TokenLines : Means(line, CommandParser_Parse(line))

\* A command without -w works on the project it is run in (task_edit.c:93-118):
\* from the moment it read the id in its config, through other commands' inits
\* and deletes, crashes and restarts, until its editor is closed, that id is no
\* other project's workspace, unless a counter value was lost.
ActsOnOwnProject ==
    held.project # NoProject /\ ~lapsed => link[held.id] \in {held.project, NoProject}

\* Whenever init refuses a project that already has a .wetman
\* (workspace_init.c:34), there is an acknowledged workspace of it that was not
\* given up, or a handler for it was cut short since its .wetman was made.
InitBlockedByRemains ==
    pc = "idle" /\ ~lapsed =>
        \A p \in Projects : dotWetman[p] # Absent => p \in cut \/ \E id \in Ids : <<p, id>> \in live
=============================================================================
