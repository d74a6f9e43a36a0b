----------------------------- MODULE ServerLoop -----------------------------
(***************************************************************************)
(* The connection loop of utils/net/server.c: one thread, non-blocking     *)
(* client sockets, a table of connection slots, poll. __Server_MainIter    *)
(* checks for a shutdown, polls, and handles what the poll reported, in    *)
(* table order, while clients go on sending, receiving and leaving.        *)
(*                                                                         *)
(* A client (utils/net/client/unix_client.c) makes one call per connection: *)
(* it connects, sends a header and a body, reads the response and closes;  *)
(* it may be killed at any moment. Data is counted in units: messages cross *)
(* the socket one unit at a time, so reads and writes are partial.         *)
(***************************************************************************)
EXTENDS Integers, Sequences, FiniteSets

CONSTANTS
    Clients,        \* client processes, one connection each
    Prompt,         \* those that keep sending and receiving; the others may stall
    NoClient,       \* the fd of a free slot
    MaxClients,     \* __SERVER_MAX_CLIENTS
    MaxQueue,       \* connections the kernel queues for a listen() with
                    \* __SERVER_MAX_CONNECTION_QUEUE_LEN
    HeaderLen,      \* units of a request header
    BodyLen,        \* per client: units of its request body
    ResponseHeaderLen,  \* units of a response header
    ResponseBodyLen,    \* units of a response body
    Window          \* units the socket holds towards a client

ASSUME LoopAssumption ==
    /\ Prompt \subseteq Clients /\ NoClient \notin Clients
    /\ MaxClients \in Nat \ {0} /\ MaxQueue \in Nat \ {0}
    /\ HeaderLen \in Nat \ {0} /\ BodyLen \in [Clients -> Nat]
    /\ ResponseHeaderLen \in Nat \ {0} /\ ResponseBodyLen \in Nat /\ Window \in Nat \ {0}

VARIABLES
    pc,         \* where the server is in its loop
    shutdown,   \* __shutdownRequested
    ready,      \* revents of the last poll still to be handled, per table entry
    conns,      \* the connection table
    backlog,    \* connections accepted by the kernel, not by the server
    hung        \* the clients whose socket the server has closed

VARIABLES
    phase,      \* per client: where it is in its call
    sent,       \* per client: request units handed to the socket
    unread,     \* per client: those the server has not read
    inbox,      \* per client: response units in the socket
    got         \* per client: response units read

VARIABLES
    handled,    \* history: the clients whose endpoint was called
    missed      \* history: the signal came between the check and the poll

serverVars == <<pc, shutdown, ready, conns, handled, missed>>
socketVars == <<backlog, hung, unread, inbox>>
clientVars == <<phase, sent, got>>
vars == <<serverVars, socketVars, clientVars>>

ResponseLen == ResponseHeaderLen + ResponseBodyLen

Slots    == 1 .. MaxClients
Listener == 0                      \* the listening socket comes first in pfds
Entries  == {Listener} \cup Slots
Events   == {"in", "out", "hup"}
Reading  == {"read_header", "read_body"}

Conn == [state : {"free", "write"} \cup Reading,
         client : Clients \cup {NoClient},
         readLen : Nat, readTarget : Nat, writeOffset : Nat]

TypeOK ==
    /\ pc \in {"check", "armed", "poll", "handle", "drain", "close", "down"}
    /\ shutdown \in BOOLEAN /\ missed \in BOOLEAN
    /\ ready \in [Entries -> SUBSET Events]
    /\ conns \in [Slots -> Conn]
    /\ \A i \in Slots : conns[i].state = "free" <=> conns[i].client = NoClient
    /\ backlog \in Seq(Clients) /\ Len(backlog) <= MaxQueue
    /\ hung \in SUBSET Clients /\ handled \in SUBSET Clients
    /\ phase \in [Clients -> {"start", "sending", "waiting", "answered", "failed", "gone"}]
    /\ sent \in [Clients -> Nat] /\ unread \in [Clients -> Nat]
    /\ inbox \in [Clients -> 0 .. Window] /\ got \in [Clients -> 0 .. ResponseLen]

Init ==
    /\ pc = "check" /\ shutdown = FALSE /\ missed = FALSE
    /\ ready = [e \in Entries |-> {}]
    /\ conns = [i \in Slots |-> [state |-> "free", client |-> NoClient,
                                 readLen |-> 0, readTarget |-> 0, writeOffset |-> 0]]
    /\ backlog = <<>> /\ hung = {} /\ handled = {}
    /\ phase = [c \in Clients |-> "start"]
    /\ sent = [c \in Clients |-> 0] /\ unread = [c \in Clients |-> 0]
    /\ inbox = [c \in Clients |-> 0] /\ got = [c \in Clients |-> 0]

RequestLen(c) == HeaderLen + BodyLen[c]

\* The client has closed its end.
Left(c) == phase[c] \in {"answered", "failed", "gone"}

-----------------------------------------------------------------------------
\* Clients.

\* connect(): waits while the queue is full; refused once nothing listens.
Connect(c) ==
    /\ phase[c] = "start"
    /\ \/ /\ pc # "down" /\ Len(backlog) < MaxQueue
          /\ backlog' = Append(backlog, c)
          /\ phase' = [phase EXCEPT ![c] = "sending"]
       \/ /\ pc = "down"
          /\ phase' = [phase EXCEPT ![c] = "failed"]
          /\ UNCHANGED backlog
    /\ UNCHANGED <<serverVars, hung, unread, inbox, sent, got>>

\* Part of Message_Write's sendmsg; a socket the server closed kills the client.
Send(c) ==
    /\ phase[c] = "sending"
    /\ IF c \in hung
       THEN /\ phase' = [phase EXCEPT ![c] = "failed"]
            /\ UNCHANGED <<sent, unread>>
       ELSE /\ sent' = [sent EXCEPT ![c] = @ + 1]
            /\ unread' = [unread EXCEPT ![c] = @ + 1]
            /\ phase' = IF sent'[c] = RequestLen(c)
                        THEN [phase EXCEPT ![c] = "waiting"] ELSE phase
    /\ UNCHANGED <<serverVars, backlog, hung, inbox, got>>

\* One recvmsg of Message_Read: data, or the end of a socket the server closed.
Receive(c) ==
    /\ phase[c] = "waiting"
    /\ \/ /\ inbox[c] > 0
          /\ inbox' = [inbox EXCEPT ![c] = @ - 1]
          /\ got' = [got EXCEPT ![c] = @ + 1]
          /\ phase' = IF got'[c] = ResponseLen
                      THEN [phase EXCEPT ![c] = "answered"] ELSE phase
       \/ /\ inbox[c] = 0 /\ c \in hung
          /\ phase' = [phase EXCEPT ![c] = "failed"]
          /\ UNCHANGED <<inbox, got>>
    /\ UNCHANGED <<serverVars, backlog, hung, unread, sent>>

\* The client is killed, or closes without a request (client/main.c on a usage error).
GiveUp(c) ==
    /\ phase[c] \in {"sending", "waiting"}
    /\ phase' = [phase EXCEPT ![c] = "gone"]
    /\ UNCHANGED <<serverVars, socketVars, sent, got>>

-----------------------------------------------------------------------------
\* Server: helpers.

\* Mutants: the slot of a disconnected client is not set free; it is, but keeps
\* the closed descriptor.
DisconnectKeepingSlot(i) ==
    /\ hung' = hung \cup {conns[i].client}
    /\ UNCHANGED conns
DisconnectKeepingFd(i) ==
    /\ hung' = hung \cup {conns[i].client}
    /\ conns' = [conns EXCEPT ![i].state = "free"]

\* __Server_DisconnectConn; lengths and offsets keep their values.
Disconnect(i) ==
    /\ hung' = hung \cup {conns[i].client}
    /\ conns' = [conns EXCEPT ![i].state = "free", ![i].client = NoClient]

\* __Server_ProcessRequest calls the endpoint, to completion.
ProcessRequest(i, conn) ==
    /\ handled' = handled \cup {conn.client}
    /\ conns' = [conns EXCEPT ![i] = [conn EXCEPT !.state = "write", !.writeOffset = 0]]

\* The process ends: every connection, accepted or queued, is closed.
CloseEverything == hung' = hung \cup {c \in Clients : phase[c] # "start"}

\* Mutant: a client that left frees its slot before it is disconnected.
FreeOrLeftSlots == {i \in Slots : conns[i].state = "free" \/ Left(conns[i].client)}
FreeSlots == {i \in Slots : conns[i].state = "free"}
FirstFree(i) == i \in FreeSlots /\ \A j \in FreeSlots : i <= j
Lesser(a, b) == IF a < b THEN a ELSE b

-----------------------------------------------------------------------------
\* __Server_MainIter.

Check ==
    /\ pc = "check"
    /\ pc' = IF shutdown THEN "drain" ELSE "armed"
    /\ UNCHANGED <<shutdown, ready, conns, handled, missed, socketVars, clientVars>>

\* The pollfd array is built and poll() entered.
EnterPoll ==
    /\ pc = "armed"
    /\ pc' = "poll"
    /\ UNCHANGED <<shutdown, ready, conns, handled, missed, socketVars, clientVars>>

\* A socket whose peer left is reported, together with what was polled for.
Revents(e) ==
    IF e = Listener THEN {x \in {"in"} : backlog # <<>>}
    ELSE LET c == conns[e].client IN
         {x \in Events :
            \/ conns[e].state = "write" /\ x = "out" /\ (Left(c) \/ inbox[c] < Window)
            \/ conns[e].state \in Reading /\ x = "in" /\ (Left(c) \/ unread[c] > 0)
            \/ conns[e].state # "free" /\ x = "hup" /\ Left(c)}

Poll ==
    /\ pc = "poll"
    /\ \E e \in Entries : Revents(e) # {}
    /\ ready' = [e \in Entries |-> Revents(e)]
    /\ pc' = "handle"
    /\ UNCHANGED <<shutdown, conns, handled, missed, socketVars, clientVars>>

\* poll() fails for another reason than a signal: the loop ends.
PollFails ==
    /\ pc = "poll"
    /\ pc' = "drain"
    /\ UNCHANGED <<shutdown, ready, conns, handled, missed, socketVars, clientVars>>

\* The entry handled next, in table order.
Current(e) == pc = "handle" /\ ready[e] # {} /\ \A f \in Entries : f < e => ready[f] = {}
Handled(e) == ready' = [ready EXCEPT ![e] = {}] /\ UNCHANGED <<pc, shutdown, missed>>

\* Mutant: a client beyond the table is not closed.
RejectOpen(c) == UNCHANGED hung

NewConn(c) == [state |-> "read_header", client |-> c,
               readLen |-> 0, readTarget |-> HeaderLen, writeOffset |-> 0]
Reject(c) == hung' = hung \cup {c}

AcceptClient ==
    /\ Current(Listener)
    /\ backlog' = Tail(backlog)
    /\ \/ \E i \in Slots : /\ FirstFree(i)
                           /\ conns' = [conns EXCEPT ![i] = NewConn(Head(backlog))]
                           /\ UNCHANGED hung
       \/ FreeSlots = {} /\ Reject(Head(backlog)) /\ UNCHANGED conns
    /\ Handled(Listener)
    /\ UNCHANGED <<handled, unread, inbox, clientVars>>

\* accept() fails, which leaves the client in the queue, or fcntl() does, and
\* the client is closed.
AcceptFails ==
    /\ Current(Listener)
    /\ \/ UNCHANGED <<backlog, hung>>
       \/ backlog' = Tail(backlog) /\ Reject(Head(backlog))
    /\ Handled(Listener)
    /\ UNCHANGED <<conns, handled, unread, inbox, clientVars>>

HangUp(i) ==
    /\ Current(i)
    /\ "hup" \in ready[i]
    /\ Disconnect(i)
    /\ Handled(i)
    /\ UNCHANGED <<handled, backlog, unread, inbox, clientVars>>

\* A read or a write fails, a header does not parse, or there is no memory for
\* a body: the client is disconnected, whatever was read of it just before.
FailConn(i) ==
    /\ Current(i)
    /\ "hup" \notin ready[i]
    /\ conns[i].state = "write" => ~Left(conns[i].client)
    /\ Disconnect(i)
    /\ Handled(i)
    /\ UNCHANGED <<handled, backlog, unread, inbox, clientVars>>

\* Mutant: a short read counts as the whole message.
WholeRead(conn, n) == conn.readTarget
AfterRead(conn, n) == conn.readLen + n

\* __Server_HandleReadable: recvmsg until the target is reached, the socket is
\* empty (wait for the next poll) or at its end (disconnect).
HandleReadable(i) ==
    /\ Current(i)
    /\ ready[i] = {"in"} /\ conns[i].state \in Reading
    /\ LET c == conns[i].client
           n == Lesser(unread[c], conns[i].readTarget - conns[i].readLen)
           conn == [conns[i] EXCEPT !.readLen = AfterRead(conns[i], n)]
       IN
         /\ unread' = [unread EXCEPT ![c] = @ - n]
         /\ \/ /\ conn.readLen < conn.readTarget
               /\ IF Left(c) THEN Disconnect(i)
                  ELSE conns' = [conns EXCEPT ![i] = conn] /\ UNCHANGED hung
               /\ UNCHANGED handled
            \/ /\ conn.readLen = conn.readTarget
               /\ conn.state = "read_header" /\ BodyLen[c] > 0
               /\ conns' = [conns EXCEPT ![i] =
                    [conn EXCEPT !.state = "read_body", !.readLen = 0, !.readTarget = BodyLen[c]]]
               /\ UNCHANGED <<hung, handled>>
            \/ /\ conn.readLen = conn.readTarget
               /\ conn.state = "read_body" \/ BodyLen[c] = 0
               /\ ProcessRequest(i, conn) /\ UNCHANGED hung
    /\ Handled(i)
    /\ UNCHANGED <<backlog, inbox, clientVars>>

\* Mutant: the offset is that of the last write alone.
AfterLastWrite(conn, n) == n
AfterWrite(conn, n) == conn.writeOffset + n

\* What one write is given: the rest of the header, or the rest of the body.
Remaining(conn) ==
    IF conn.writeOffset < ResponseHeaderLen THEN ResponseHeaderLen - conn.writeOffset
    ELSE ResponseLen - conn.writeOffset

\* __Server_HandleWritable: one write, which may be partial.
HandleWritable(i) ==
    /\ Current(i)
    /\ ready[i] = {"out"} /\ conns[i].state = "write"
    /\ LET c == conns[i].client
           n == Lesser(Window - inbox[c], Remaining(conns[i]))
       IN
         /\ ~Left(c)
         /\ inbox' = [inbox EXCEPT ![c] = @ + n]
         /\ IF AfterWrite(conns[i], n) >= ResponseLen
            THEN Disconnect(i)
            ELSE /\ conns' = [conns EXCEPT ![i].writeOffset = AfterWrite(conns[i], n)]
                 /\ UNCHANGED hung
    /\ Handled(i)
    /\ UNCHANGED <<handled, backlog, unread, clientVars>>

\* The client left after the poll: SIGPIPE has its default action and ends the
\* server without any cleanup.
BrokenPipe(i) ==
    /\ Current(i)
    /\ ready[i] = {"out"} /\ conns[i].state = "write"
    /\ Left(conns[i].client)
    /\ CloseEverything
    /\ pc' = "down"
    /\ backlog' = <<>>
    /\ UNCHANGED <<shutdown, ready, conns, handled, missed, unread, inbox, clientVars>>

\* Every entry is handled: the callback for the next iteration is pushed and run.
IterDone ==
    /\ pc = "handle"
    /\ \A e \in Entries : ready[e] = {}
    /\ pc' = "check"
    /\ UNCHANGED <<shutdown, ready, conns, handled, missed, socketVars, clientVars>>

-----------------------------------------------------------------------------
\* Shutdown: the signal handler, and the end of Server_Run.

\* Mutant: poll() is restarted by the kernel, as with SA_RESTART.
Restarted == "poll"

\* EINTR ends the poll with an iteration pushed, which checks for the shutdown.
Interrupted == "check"

Signal ==
    /\ ~shutdown
    /\ pc # "down"
    /\ shutdown' = TRUE
    /\ pc' = IF pc = "poll" THEN Interrupted ELSE pc
    /\ missed' = (pc = "armed")
    /\ UNCHANGED <<ready, conns, handled, socketVars, clientVars>>

\* Server_Run disconnects every client in the table.
DisconnectAll ==
    /\ pc = "drain"
    /\ hung' = hung \cup {conns[i].client : i \in Slots \ FreeSlots}
    /\ conns' = [i \in Slots |-> [conns[i] EXCEPT !.state = "free", !.client = NoClient]]
    /\ pc' = "close"
    /\ UNCHANGED <<shutdown, ready, handled, missed, backlog, unread, inbox, clientVars>>

\* Closing the listening socket resets the queued connections.
CloseListener ==
    /\ pc = "close"
    /\ CloseEverything
    /\ backlog' = <<>>
    /\ pc' = "down"
    /\ UNCHANGED <<shutdown, ready, conns, handled, missed, unread, inbox, clientVars>>

-----------------------------------------------------------------------------
Client(c) == Connect(c) \/ Send(c) \/ Receive(c) \/ GiveUp(c)

MainIter ==
    \/ Check \/ EnterPoll \/ Poll \/ AcceptClient \/ IterDone
    \/ \E i \in Slots : HangUp(i) \/ HandleReadable(i) \/ HandleWritable(i) \/ BrokenPipe(i)

Server == MainIter \/ DisconnectAll \/ CloseListener

Faults == PollFails \/ AcceptFails \/ \E i \in Slots : FailConn(i)

Next == Server \/ Faults \/ Signal \/ \E c \in Clients : Client(c)

Spec == Init /\ [][Next]_vars

\* The server process is scheduled, and accept() does not fail for ever; prompt
\* clients send and receive when they can.
FairSpec ==
    /\ Spec
    /\ WF_vars(Server) /\ SF_vars(AcceptClient)
    /\ \A c \in Prompt : WF_vars(Send(c) \/ Receive(c))

-----------------------------------------------------------------------------
\* While the process lives, a slot in use has a client whose socket is open, and
\* no two slots have the same one: a slot is free again once its client is
\* disconnected, and no closed descriptor is polled.
SlotsMatchSockets ==
    pc # "down" =>
    /\ \A i \in Slots \ FreeSlots : conns[i].client \in Clients \ hung
    /\ \A i, j \in Slots \ FreeSlots : conns[i].client = conns[j].client => i = j

\* An event is handled only for the connection it was polled for: no event still
\* to be handled is that of a client the slot had before, or of what the
\* connection waited for before (server.c:426-453).
EventsAreCurrent ==
    pc = "handle" => \A i \in Slots :
        /\ "in" \in ready[i] => conns[i].state \in Reading
        /\ "out" \in ready[i] => conns[i].state = "write"
        /\ "hup" \in ready[i] => conns[i].state # "free" /\ Left(conns[i].client)

\* An endpoint is called only with the whole request of its client, header and
\* body, whatever its pieces arrive as and whoever had the slot before.
HandledWhole ==
    \A c \in handled : sent[c] = RequestLen(c) /\ unread[c] = 0

\* The client gets the response without gap or repetition over partial writes,
\* and it is answered only if its own request was handled.
ResponseAccounted ==
    /\ \A i \in Slots : conns[i].state = "write" =>
         conns[i].writeOffset = got[conns[i].client] + inbox[conns[i].client]
    /\ \A c \in Clients : phase[c] = "answered" => c \in handled

\* A client that keeps its side going is always answered or disconnected, even
\* if all others stall, leave or fill the table, and if the server stops or dies,
\* as long as accept() does not fail for ever.
EveryCallEnds ==
    \A c \in Prompt : phase[c] \in {"sending", "waiting"} ~> Left(c)

\* A shutdown request ends the server, unless it came after the check and before
\* poll(): clients that stall or keep coming do not hold it up.
ShutdownEnds ==
    shutdown /\ ~missed ~> pc = "down"

\* Violated. signal.h says that without SA_RESTART a shutdown is noticed before
\* the next event; a signal between the check and poll() is not.
ShutdownNoticed ==
    shutdown ~> pc = "down"
=============================================================================
