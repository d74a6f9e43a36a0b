---------------------------- MODULE EndpointCall ----------------------------
(***************************************************************************)
(* Calls from end to end: a client command serializes a request            *)
(* (shared/endpoint/), sends it and reads the response (client.c,          *)
(* unix_client.c, message.c, macro.h); the server dispatches it            *)
(* (endpoint_registry.c) to an endpoint, which keeps tasks as records on   *)
(* disk (task_state.c). A command makes one call.                          *)
(*                                                                         *)
(* Every conversion on the way is that of DataStream. Requests reach the   *)
(* registry whole, and a response may end anywhere: both are properties of *)
(* ServerLoop. The file operations of a handler are steps of TaskStore;    *)
(* here a handler is one action, with every disk that a failing or cut     *)
(* call can make it leave.                                                 *)
(***************************************************************************)
EXTENDS DataStream

CONSTANTS
    Clients,    \* client commands
    Names,      \* names of tasks, as rows of characters
    Workspaces, \* the ids of the workspaces there are
    ReadCap,    \* fields a record is read up to (4096 bytes)
    MaxEndpoints  \* ENDPOINT_REGISTRY_MAX_ENDPOINT_COUNT

ASSUME CallAssumption ==
    /\ Workspaces \subseteq Nat /\ \E last \in Workspaces : \A w \in Workspaces : w <= last
    /\ ReadCap \in Nat /\ MaxEndpoints \in Nat
    /\ \A name \in Names : name \in Seq(Nat)

VARIABLES
    pc,         \* per client: where its call is
    call,       \* per client: [id, shape, values]
    wire,       \* per client: the fields on the connection
    result,     \* per client: [id, code, values] as the command gets them
    config,     \* per workspace: nextTaskId of its config, or Blank
    dirs        \* per <<workspace, task>> with a directory: [script, record]

VARIABLES
    given,      \* history: <<workspace, task, name>> of the directories TaskNew made
    outcome,    \* history: per client, what the registry answered
    lost        \* history: the clients whose request or response broke off

disk == <<config, dirs, given>>
vars == <<pc, call, wire, result, disk, outcome, lost>>

\* A config that cannot be read.
Blank == -1

\* ReturnCode.
OK == 0
INVALID_ENDPOINT_ID == 1
ENDPOINT_NOT_INITIALIZED == 2
FAILED_TO_PARSE_REQUEST == 3
INTERNAL_ENDPOINT_ERROR == 4

\* shared/endpoint/id.h, as far as it is modelled.
HEALTH_CHECK == 0
TASK_NEW == 4
TASK_GET == 5
TASK_LIST == 6
TASK_DELETE == 7
Registered == {HEALTH_CHECK, TASK_NEW, TASK_GET, TASK_LIST, TASK_DELETE}

\* The registry has room for all of them, and for one more.
ASSUME RegistryAssumption == \A id \in Registered : id < MaxEndpoints - 1

Header == <<"I32", "U32">>
HeaderLen == 4

RequestShape(id) ==
    CASE id = TASK_NEW -> <<"U64", "STR">>
      [] id \in {TASK_GET, TASK_DELETE} -> <<"U64", "U64">>
      [] id = TASK_LIST -> <<"U64">>
      [] OTHER -> <<>>

ResponseShape(id) ==
    CASE id \in {TASK_NEW, TASK_DELETE} -> <<"U64">>
      [] id = TASK_GET -> <<"U64", "STR", "STR">>
      [] id = TASK_LIST -> <<"SLICE_U64", "SLICE_STR", "SLICE_STR">>
      [] OTHER -> <<>>

TaskRecord == <<"U64", "STR">>

\* The path of a task's script, told apart by two characters.
PathOf(w, id) == <<w, id>>

\* A workspace nobody made.
Nowhere == (CHOOSE m \in Workspaces : \A w \in Workspaces : w <= m) + 1
TaskIds == 0 .. 1

NoDir == [script |-> FALSE, record |-> <<>>]
NoAnswer == [id |-> -1, code |-> -2, values |-> <<>>]
Failure(id, code) == [id |-> id, code |-> code, values |-> <<>>]

Proper(id, values) == [id |-> id, shape |-> RequestShape(id), values |-> values]

\* What the commands call, and what the tests of the registry add: an endpoint
\* that is not there, one that cannot be, and a request without a body.
Calls ==
    {Proper(HEALTH_CHECK, <<>>)}
    \cup {Proper(TASK_NEW, values) : values \in (Workspaces \cup {Nowhere}) \X Names}
    \cup {Proper(TASK_GET, values) : values \in (Workspaces \cup {Nowhere}) \X TaskIds}
    \cup {Proper(TASK_DELETE, values) : values \in (Workspaces \cup {Nowhere}) \X TaskIds}
    \cup {Proper(TASK_LIST, <<w>>) : w \in Workspaces \cup {Nowhere}}
    \cup {Proper(MaxEndpoints - 1, <<>>), Proper(MaxEndpoints, <<>>),
          [id |-> TASK_GET, shape |-> <<>>, values |-> <<>>]}

Init ==
    /\ pc = [c \in Clients |-> "idle"]
    /\ call = [c \in Clients |-> Proper(HEALTH_CHECK, <<>>)]
    /\ wire = [c \in Clients |-> <<>>]
    /\ result = [c \in Clients |-> NoAnswer]
    /\ config = [w \in Workspaces |-> 0]
    /\ dirs = [key \in {} |-> NoDir]
    /\ given = {} /\ outcome = [c \in Clients |-> NoAnswer] /\ lost = {}

-----------------------------------------------------------------------------
\* <Endpoint>_Call up to the request: the write succeeds, or the call is over.

Goto(c, step) == pc' = [pc EXCEPT ![c] = step]

Request(what) ==
    LET body == PushAll(what.shape, what.values) IN
    PushAll(Header, <<what.id, Len(body)>>) \o body

Send(c) ==
    /\ pc[c] = "idle"
    /\ \E what \in Calls :
         /\ call' = [call EXCEPT ![c] = what]
         /\ wire' = [wire EXCEPT ![c] = Request(what)]
    /\ Goto(c, "sent")
    /\ UNCHANGED <<result, disk, outcome, lost>>

SendFails(c) ==
    /\ pc[c] = "idle"
    /\ result' = [result EXCEPT ![c] = Failure(call[c].id, INTERNAL_ENDPOINT_ERROR)]
    /\ lost' = lost \cup {c}
    /\ Goto(c, "done")
    /\ UNCHANGED <<call, wire, disk, outcome>>

-----------------------------------------------------------------------------
\* EndpointRegistry_CallEndpoint, on a request that is there whole.

EndpointId(c) == PopAll(WithData(SubSeq(wire[c], 1, HeaderLen)), Header).values[1]
Body(c) == SubSeq(wire[c], HeaderLen + 1, Len(wire[c]))
Parse(c) == PopAll(WithData(Body(c)), RequestShape(EndpointId(c)))

\* The response with what the endpoint left in its struct, which is
\* serialized whatever the code is.
Respond(c, code, body, values) ==
    /\ wire' = [wire EXCEPT ![c] = PushAll(Header, <<code, Len(body)>>) \o body]
    /\ outcome' = [outcome EXCEPT ![c] = [id |-> EndpointId(c), code |-> code, values |-> values]]
    /\ Goto(c, "answered")
    /\ UNCHANGED <<call, result, lost>>

RespondWith(c, code, values) ==
    Respond(c, code, PushAll(ResponseShape(EndpointId(c)), values), values)

Refuse(c) ==
    /\ pc[c] = "sent"
    /\ \/ /\ EndpointId(c) \notin 0 .. (MaxEndpoints - 1)
          /\ Respond(c, INVALID_ENDPOINT_ID, <<>>, <<>>)
       \/ /\ EndpointId(c) \in (0 .. (MaxEndpoints - 1)) \ Registered
          /\ Respond(c, ENDPOINT_NOT_INITIALIZED, <<>>, <<>>)
       \/ /\ EndpointId(c) \in Registered /\ ~Parsed(Parse(c))
          /\ Respond(c, FAILED_TO_PARSE_REQUEST, <<>>, <<>>)
    /\ UNCHANGED disk

Dispatched(c, id) == pc[c] = "sent" /\ EndpointId(c) = id /\ Parsed(Parse(c))
Param(c, i) == Parse(c).values[i]

HealthCheck(c) ==
    /\ Dispatched(c, HEALTH_CHECK)
    /\ RespondWith(c, OK, <<>>)
    /\ UNCHANGED disk

-----------------------------------------------------------------------------
\* The task endpoints. A file that is missing reads like an empty one.

\* TaskState_Read: at most ReadCap of the file, [values, stream].

\* Mutant: both pops are taken on trust.
Trusted(p) == TRUE
RecordRead(p) == Parsed(p)

ReadRecord(w, id) == PopAll(WithData(Limited(dirs[<<w, id>>].record, ReadCap)), TaskRecord)

\* What TaskGet and TaskList both ask of a task.
Found(w, id) ==
    /\ <<w, id>> \in DOMAIN dirs
    /\ RecordRead(ReadRecord(w, id))
    /\ dirs[<<w, id>>].script

\* The response is memory of the arena until the endpoint assigns to it.
Uninitialised == {0, 7}

Put(key, dir) == dirs' = [k \in DOMAIN dirs \cup {key} |-> IF k = key THEN dir ELSE dirs[k]]

\* The directory of a task, its script and its record, which a failing write may cut.
Make(w, id, name, script, n) ==
    /\ <<w, id>> \notin DOMAIN dirs
    /\ Put(<<w, id>>, [script |-> script, record |-> SubSeq(PushAll(TaskRecord, <<id, name>>), 1, n)])
    /\ given' = given \cup {<<w, id, name>>}

RecordLen(id, name) == Len(PushAll(TaskRecord, <<id, name>>))

\* There is no such workspace, or its config cannot be read; the directory is in
\* the way or cannot be made, and later a file, or the config, cannot be opened.
TaskNewFails(c) ==
    /\ Dispatched(c, TASK_NEW)
    /\ LET w == Param(c, 1) IN
       \/ /\ w \in Workspaces => config[w] = Blank
          /\ \E id \in Uninitialised : RespondWith(c, INTERNAL_ENDPOINT_ERROR, <<id>>)
          /\ UNCHANGED disk
       \/ /\ w \in Workspaces /\ config[w] # Blank
          /\ \/ UNCHANGED <<dirs, given>>
             \/ Make(w, config[w], Param(c, 2), FALSE, 0)
             \/ \E n \in 0 .. RecordLen(config[w], Param(c, 2)) :
                   Make(w, config[w], Param(c, 2), TRUE, n)
          /\ RespondWith(c, INTERNAL_ENDPOINT_ERROR, <<config[w]>>)
          /\ UNCHANGED config

\* A write that is cut is acknowledged all the same, that of the record like
\* that of the config, of which a part cannot be read.
TaskNew(c) ==
    /\ Dispatched(c, TASK_NEW)
    /\ LET w == Param(c, 1) IN
       /\ w \in Workspaces /\ config[w] # Blank
       /\ \E n \in 0 .. RecordLen(config[w], Param(c, 2)) :
             Make(w, config[w], Param(c, 2), TRUE, n)
       /\ \E next \in {config[w] + 1, Blank} : config' = [config EXCEPT ![w] = next]
       /\ RespondWith(c, OK, <<config[w]>>)

\* It does not read the config.
TaskGet(c) ==
    /\ Dispatched(c, TASK_GET)
    /\ LET w == Param(c, 1)
           id == Param(c, 2)
       IN
       IF w \in Workspaces /\ Found(w, id)
       THEN RespondWith(c, OK, Append(ReadRecord(w, id).values, PathOf(w, id)))
       ELSE RespondWith(c, INTERNAL_ENDPOINT_ERROR, <<0, <<>>, <<>>>>)
    /\ UNCHANGED disk

\* The ids of the tasks found, after the first n were looked at.
FoundIds(w) ==
    LET ids[n \in 0 .. config[w]] ==
          IF n = 0 THEN <<>>
          ELSE IF Found(w, n - 1) THEN Append(ids[n - 1], n - 1) ELSE ids[n - 1]
    IN  ids

\* It looks for the tasks below nextTaskId of the config.
TaskList(c) ==
    /\ Dispatched(c, TASK_LIST)
    /\ LET w == Param(c, 1) IN
       \/ /\ w \in Workspaces => config[w] = Blank
          /\ RespondWith(c, INTERNAL_ENDPOINT_ERROR, <<<<>>, <<>>, <<>>>>)
       \/ /\ w \in Workspaces /\ config[w] # Blank
          /\ LET ids == FoundIds(w)[config[w]]
                 Column(k) == [i \in DOMAIN ids |-> ReadRecord(w, ids[i]).values[k]]
             IN  RespondWith(c, OK, <<Column(1), Column(2), [i \in DOMAIN ids |-> PathOf(w, ids[i])]>>)
    /\ UNCHANGED disk

\* A removal that fails may have taken the script or the record already.
TaskDelete(c) ==
    /\ Dispatched(c, TASK_DELETE)
    /\ LET key == <<Param(c, 1), Param(c, 2)>> IN
       \/ /\ key \in DOMAIN dirs
          /\ dirs' = [k \in DOMAIN dirs \ {key} |-> dirs[k]]
          /\ RespondWith(c, OK, <<Param(c, 2)>>)
       \/ /\ \/ UNCHANGED dirs
             \/ /\ key \in DOMAIN dirs
                /\ \E script \in {dirs[key].script, FALSE}, record \in {dirs[key].record, <<>>} :
                      Put(key, [script |-> script, record |-> record])
          /\ \E id \in Uninitialised : RespondWith(c, INTERNAL_ENDPOINT_ERROR, <<id>>)
    /\ UNCHANGED <<config, given>>

-----------------------------------------------------------------------------
\* Message_Read of the n fields that arrive, Client_CallEndpoint, and the rest
\* of <Endpoint>_Call: the header is popped once for its length, once by
\* Client_CallEndpoint, and again by the macro from what that has left of it.

\* Mutant: a body that ends early is taken for a body.
HeaderRead(data) ==
    LET header == PopAll(WithData(SubSeq(data, 1, HeaderLen)), Header) IN
    Len(data) >= HeaderLen /\ Parsed(header)

MessageRead(data) ==
    LET header == PopAll(WithData(SubSeq(data, 1, HeaderLen)), Header) IN
    /\ Len(data) >= HeaderLen /\ Parsed(header)
    /\ Len(data) >= HeaderLen + header.values[2]

CallResult(id, data) ==
    LET header == PopAll(WithData(SubSeq(data, 1, HeaderLen)), Header)
        again == PopAll(header.stream, Header)
        body == SubSeq(data, HeaderLen + 1, Len(data))
        code == IF header.values[1] # OK THEN header.values[1] ELSE again.values[1]
    IN
    IF ~MessageRead(data) THEN Failure(id, INTERNAL_ENDPOINT_ERROR)
    ELSE IF code # OK THEN Failure(id, code)
    ELSE [id |-> id, code |-> OK, values |-> PopAll(WithData(body), ResponseShape(id)).values]

Return(c) ==
    /\ pc[c] = "answered"
    /\ \E n \in 0 .. Len(wire[c]) :
         /\ result' = [result EXCEPT ![c] = CallResult(call[c].id, SubSeq(wire[c], 1, n))]
         /\ lost' = IF n < Len(wire[c]) THEN lost \cup {c} ELSE lost
    /\ wire' = [wire EXCEPT ![c] = <<>>]
    /\ Goto(c, "done")
    /\ UNCHANGED <<call, disk, outcome>>

Next ==
    \E c \in Clients :
        \/ Send(c) \/ SendFails(c)
        \/ Refuse(c) \/ HealthCheck(c)
        \/ TaskNewFails(c) \/ TaskNew(c) \/ TaskGet(c) \/ TaskList(c) \/ TaskDelete(c)
        \/ Return(c)

Spec == Init /\ [][Next]_vars

-----------------------------------------------------------------------------
\* Properties.

\* Where a call is, that it ends with a return code the program knows
\* (return_code.h), and that no directory is beyond the next task of a config.
TypeOK ==
    /\ pc \in [Clients -> {"idle", "sent", "answered", "done"}]
    /\ call \in [Clients -> Calls]
    /\ \A c \in Clients : pc[c] \in {"idle", "done"} => wire[c] = <<>>
    /\ \A c \in Clients :
         IF pc[c] = "done" THEN result[c].code \in OK .. INTERNAL_ENDPOINT_ERROR
         ELSE result[c] = NoAnswer
    /\ config \in [Workspaces -> Nat \cup {Blank}]
    /\ \A key \in DOMAIN dirs : key[1] \in Workspaces /\ (config[key[1]] # Blank => key[2] <= config[key[1]])
    /\ lost \subseteq {c \in Clients : pc[c] = "done"}

\* What a command gets is what the endpoint answered: the same code, and with
\* OK the same values; or the error of a connection that broke, and never
\* values of an answer that is not there whole (macro.h, client.c, message.c).
ResultIsOutcome ==
    \A c \in Clients :
        pc[c] = "done" =>
            \/ c \in lost /\ result[c] = Failure(call[c].id, INTERNAL_ENDPOINT_ERROR)
            \/ /\ c \notin lost /\ result[c].code = outcome[c].code
               /\ result[c].code = OK => result[c].values = outcome[c].values

\* A command never shows a task under a wrong name, id or path, whatever was
\* cut on the way to disk or back: TaskGet answers about the task it was asked
\* for, TaskList's three slices are about the same tasks of that workspace, each
\* once, and TaskNew's id is that of a task with the name it was given.
TrueTask(w, id, name, path) == <<w, id, name>> \in given /\ path = PathOf(w, id)

IsTrue(what, v) ==
    /\ what.id = TASK_NEW => <<what.values[1], v[1], what.values[2]>> \in given
    /\ what.id = TASK_GET => v[1] = what.values[2] /\ TrueTask(what.values[1], v[1], v[2], v[3])
    /\ what.id = TASK_LIST =>
          /\ Len(v[2]) = Len(v[1]) /\ Len(v[3]) = Len(v[1])
          /\ \A i \in DOMAIN v[1] : TrueTask(what.values[1], v[1][i], v[2][i], v[3][i])
          /\ \A i, j \in DOMAIN v[1] : i < j => v[1][i] < v[1][j]

AnswersAreTrue ==
    \A c \in Clients :
        pc[c] = "done" /\ result[c].code = OK => IsTrue(call[c], result[c].values)

\* A task with a script and a whole record, no longer than what is read of it,
\* is there for every TaskGet that reaches the server, whatever became of its
\* config, and for every TaskList if the config can be read and has counted it
\* (the 4096 bytes of TaskState_Read, the length checks of the pops).
Stored(w, id) ==
    /\ <<w, id>> \in DOMAIN dirs
    /\ LET dir == dirs[<<w, id>>] IN
       /\ dir.script /\ Len(dir.record) <= ReadCap
       /\ \E name \in Names : dir.record = PushAll(TaskRecord, <<id, name>>)

Served(c) == pc[c] = "sent" /\ pc'[c] = "answered" /\ call[c].shape # <<>>

ServesStored ==
    \A c \in Clients : Served(c) =>
        LET w == call[c].values[1] IN
        /\ call[c].id = TASK_GET /\ Stored(w, call[c].values[2]) => outcome'[c].code = OK
        /\ call[c].id = TASK_LIST /\ w \in Workspaces =>
             \A id \in 0 .. (config[w] - 1) :
                Stored(w, id) => \E i \in DOMAIN outcome'[c].values[1] : outcome'[c].values[1][i] = id

StoredIsServed == [][ServesStored]_vars
=============================================================================
