-------------------------- MODULE ServerLoop_proofs --------------------------
(***************************************************************************)
(* Proofs about ServerLoop, for any number of clients and slots, messages  *)
(* of any length and sockets of any size: types, slots and sockets, events, *)
(* requests handled whole and responses sent without gap or repetition.    *)
(***************************************************************************)
EXTENDS ServerLoop, TLAPS

\* A connection in the queue has nobody's attention yet: it is in no slot, and
\* all its client sent is still unread.
QueuedOK(c) ==
    /\ c \notin hung \cup handled /\ phase[c] # "start"
    /\ unread[c] = sent[c]
    /\ \A i \in Slots : conns[i].client # c

QueueInv ==
    /\ \A j, k \in 1 .. Len(backlog) : backlog[j] = backlog[k] => j = k
    /\ \A k \in 1 .. Len(backlog) : QueuedOK(backlog[k])

\* A client that has not called is known to nobody.
StartInv ==
    \A c \in Clients : phase[c] = "start" =>
        c \notin hung \cup handled /\ sent[c] = 0 /\ unread[c] = 0

\* The client of a slot is of no other, and connected.
SlotOK(i) ==
    conns[i].state # "free" =>
        /\ phase[conns[i].client] # "start"
        /\ pc # "down" => conns[i].client \notin hung
        /\ \A j \in Slots : conns[j].client = conns[i].client => i = j

SlotInv == \A i \in Slots : SlotOK(i)

\* What a slot has read and written is what its client sent and got.
TransferOK(conn, c) ==
    /\ conn.state = "read_header" =>
          /\ conn.readTarget = HeaderLen
          /\ sent[c] = unread[c] + conn.readLen
    /\ conn.state = "read_body" =>
          /\ conn.readTarget = BodyLen[c]
          /\ sent[c] = unread[c] + HeaderLen + conn.readLen
    /\ conn.state \in Reading => c \notin handled /\ conn.readLen < conn.readTarget
    /\ conn.state = "write" =>
          /\ c \in handled
          /\ conn.writeOffset = got[c] + inbox[c]
          /\ conn.writeOffset < ResponseLen

TransferInv == \A i \in Slots : TransferOK(conns[i], conns[i].client)

\* Where a client is in its call.
CallOK(c) ==
    /\ sent[c] <= RequestLen(c)
    /\ phase[c] = "sending" => sent[c] < RequestLen(c)
    /\ phase[c] = "waiting" => got[c] < ResponseLen
    /\ c \in handled => sent[c] = RequestLen(c) /\ unread[c] = 0
    /\ c \notin handled => got[c] = 0 /\ inbox[c] = 0
    /\ phase[c] = "answered" => c \in handled

CallInv == \A c \in Clients : CallOK(c)

\* What a poll reported of a slot is still so.
EventsOK(i) ==
    /\ "in" \in ready[i] => conns[i].state \in Reading
    /\ "out" \in ready[i] => conns[i].state = "write"
    /\ "hup" \in ready[i] => conns[i].state # "free" /\ Left(conns[i].client)

\* What a poll reported can still be handled.
EventInv ==
    pc = "handle" =>
        /\ ready[Listener] # {} => backlog # <<>>
        /\ \A i \in Slots : EventsOK(i)

ControlOK ==
    /\ pc \in {"check", "armed", "poll", "handle", "drain", "close", "down"}
    /\ ready \in [Entries -> SUBSET Events]
FlagsOK == shutdown \in BOOLEAN /\ missed \in BOOLEAN
TableOK ==
    /\ conns \in [Slots -> Conn]
    /\ \A i \in Slots : conns[i].state = "free" <=> conns[i].client = NoClient
SocketsOK ==
    /\ backlog \in Seq(Clients) /\ Len(backlog) <= MaxQueue
    /\ hung \in SUBSET Clients /\ handled \in SUBSET Clients
CallsOK ==
    /\ phase \in [Clients -> {"start", "sending", "waiting", "answered", "failed", "gone"}]
    /\ sent \in [Clients -> Nat] /\ unread \in [Clients -> Nat]
    /\ inbox \in [Clients -> 0 .. Window] /\ got \in [Clients -> 0 .. ResponseLen]

LoopInv ==
    /\ ControlOK /\ FlagsOK /\ TableOK /\ SocketsOK /\ CallsOK
    /\ QueueInv /\ StartInv /\ SlotInv /\ TransferInv /\ CallInv /\ EventInv

LEMMA Numbers ==
    /\ HeaderLen \in Nat \ {0} /\ BodyLen \in [Clients -> Nat]
    /\ ResponseHeaderLen \in Nat \ {0} /\ ResponseBodyLen \in Nat /\ Window \in Nat \ {0}
    /\ ResponseLen \in Nat \ {0} /\ \A c \in Clients : RequestLen(c) \in Nat
    /\ MaxClients \in Nat \ {0} /\ MaxQueue \in Nat \ {0}
    /\ NoClient \notin Clients
BY LoopAssumption DEF ResponseLen, RequestLen

LEMMA Slot ==
    ASSUME TableOK, NEW i \in Slots
    PROVE  /\ conns[i] \in Conn
           /\ conns[i].state \in {"free", "write"} \cup Reading
           /\ conns[i].client \in Clients \cup {NoClient}
           /\ conns[i].state # "free" => conns[i].client \in Clients
           /\ conns[i].readLen \in Nat /\ conns[i].readTarget \in Nat
           /\ conns[i].writeOffset \in Nat
BY DEF TableOK, Conn

LEMMA QueueSame ==
    ASSUME SocketsOK, QueueInv, UNCHANGED backlog,
           \A c \in Clients : QueuedOK(c) => QueuedOK(c)'
    PROVE  QueueInv'
<1>1. \A k \in 1 .. Len(backlog) : backlog[k] \in Clients
  BY DEF SocketsOK
<1>. QED
  BY <1>1 DEF QueueInv

LEMMA QueueTail ==
    ASSUME SocketsOK, QueueInv, NEW c \in Clients, Len(backlog) \in Nat \ {0}, c = backlog[1],
           Len(backlog') = Len(backlog) - 1,
           \A k \in 1 .. Len(backlog') :
               backlog'[k] = backlog[k + 1] /\ k + 1 \in 1 .. Len(backlog) /\ backlog'[k] \in Clients,
           \A x \in Clients \ {c} : QueuedOK(x) => QueuedOK(x)'
    PROVE  QueueInv'
<1>1. \A k \in 1 .. Len(backlog') : backlog'[k] \in Clients \ {c} /\ QueuedOK(backlog[k + 1])
  BY DEF QueueInv
<1>2. ASSUME NEW k \in 1 .. Len(backlog') PROVE QueuedOK(backlog[k])'
  <2> DEFINE x == backlog[k + 1]
  <2>1. x \in Clients \ {c} /\ QueuedOK(x)
    BY <1>1
  <2>. QED
    BY <2>1 DEF QueuedOK
<1>3. \A j, k \in 1 .. Len(backlog') : backlog'[j] = backlog'[k] => j = k
  BY DEF QueueInv
<1>. QED
  BY <1>2, <1>3 DEF QueueInv

\* Most steps of the loop itself touch neither the table nor the sockets.
LEMMA LoopOnly ==
    ASSUME LoopInv, pc # "down", UNCHANGED <<conns, handled, socketVars, clientVars>>,
           ControlOK', FlagsOK', EventInv'
    PROVE  LoopInv'
<1>1. UNCHANGED <<conns, handled, backlog, hung, unread, inbox, phase, sent, got>>
  BY DEF socketVars, clientVars
<1>2. TableOK' /\ SocketsOK' /\ CallsOK'
  BY <1>1 DEF LoopInv, TableOK, SocketsOK, CallsOK
<1>3. QueueInv' /\ StartInv'
  BY <1>1 DEF LoopInv, QueueInv, QueuedOK, StartInv
<1>4. SlotInv'
  BY <1>1 DEF LoopInv, SlotInv, SlotOK
<1>5. TransferInv' /\ CallInv'
  BY <1>1 DEF LoopInv, TransferInv, TransferOK, CallInv, CallOK
<1>. QED
  BY <1>2, <1>3, <1>4, <1>5 DEF LoopInv

LEMMA CheckKeeps == ASSUME LoopInv, Check PROVE LoopInv'
<1>1. ControlOK'
  BY DEF LoopInv, Check, ControlOK
<1>2. FlagsOK'
  BY DEF LoopInv, Check, FlagsOK
<1>3. EventInv'
  BY DEF Check, EventInv
<1>. QED
  BY <1>1, <1>2, <1>3, LoopOnly DEF Check

LEMMA EnterPollKeeps == ASSUME LoopInv, EnterPoll PROVE LoopInv'
<1>1. ControlOK'
  BY DEF LoopInv, EnterPoll, ControlOK
<1>2. FlagsOK'
  BY DEF LoopInv, EnterPoll, FlagsOK
<1>3. EventInv'
  BY DEF EnterPoll, EventInv
<1>. QED
  BY <1>1, <1>2, <1>3, LoopOnly DEF EnterPoll

LEMMA PollFailsKeeps == ASSUME LoopInv, PollFails PROVE LoopInv'
<1>1. ControlOK'
  BY DEF LoopInv, PollFails, ControlOK
<1>2. FlagsOK'
  BY DEF LoopInv, PollFails, FlagsOK
<1>3. EventInv'
  BY DEF PollFails, EventInv
<1>. QED
  BY <1>1, <1>2, <1>3, LoopOnly DEF PollFails

LEMMA IterDoneKeeps == ASSUME LoopInv, IterDone PROVE LoopInv'
<1>1. ControlOK'
  BY DEF LoopInv, IterDone, ControlOK
<1>2. FlagsOK'
  BY DEF LoopInv, IterDone, FlagsOK
<1>3. EventInv'
  BY DEF IterDone, EventInv
<1>. QED
  BY <1>1, <1>2, <1>3, LoopOnly DEF IterDone

LEMMA SignalKeeps == ASSUME LoopInv, Signal PROVE LoopInv'
<1>1. ControlOK'
  BY DEF LoopInv, Signal, Interrupted, ControlOK
<1>2. FlagsOK'
  BY DEF Signal, FlagsOK
<1>3. EventInv'
  BY DEF LoopInv, Signal, Interrupted, EventInv, EventsOK, Left, socketVars, clientVars
<1>. QED
  BY <1>1, <1>2, <1>3, LoopOnly DEF Signal

LEMMA CloseListenerKeeps == ASSUME LoopInv, CloseListener PROVE LoopInv'
<1>1. ControlOK'
  BY DEF LoopInv, CloseListener, ControlOK
<1>2. FlagsOK'
  BY DEF LoopInv, CloseListener, FlagsOK
<1>3. TableOK'
  BY DEF LoopInv, CloseListener, TableOK
<1>4. SocketsOK'
  BY Numbers DEF LoopInv, CloseListener, CloseEverything, SocketsOK
<1>5. CallsOK'
  BY DEF LoopInv, CloseListener, CallsOK, clientVars
<1>6. QueueInv'
  BY DEF CloseListener, QueueInv
<1>7. StartInv'
  BY DEF LoopInv, CloseListener, CloseEverything, StartInv, clientVars
<1>8. SlotInv'
  <2> SUFFICES ASSUME NEW j \in Slots PROVE SlotOK(j)'
    BY DEF SlotInv
  <2>1. SlotOK(j)
    BY DEF LoopInv, SlotInv
  <2>. QED
    BY <2>1 DEF CloseListener, SlotOK, clientVars
<1>9. TransferInv'
  <2> SUFFICES ASSUME NEW j \in Slots PROVE TransferOK(conns[j], conns[j].client)'
    BY DEF TransferInv
  <2>1. TransferOK(conns[j], conns[j].client)
    BY DEF LoopInv, TransferInv
  <2>. QED
    BY <2>1 DEF CloseListener, TransferOK, clientVars
<1>10. CallInv'
  <2> SUFFICES ASSUME NEW x \in Clients PROVE CallOK(x)'
    BY DEF CallInv
  <2>1. CallOK(x)
    BY DEF LoopInv, CallInv
  <2>. QED
    BY <2>1 DEF CloseListener, CallOK, clientVars
<1>11. EventInv'
  BY DEF CloseListener, EventInv
<1>. QED
  BY <1>1, <1>2, <1>3, <1>4, <1>5, <1>6, <1>7, <1>8, <1>9, <1>10, <1>11 DEF LoopInv

LEMMA GiveUpKeeps == ASSUME LoopInv, NEW c \in Clients, GiveUp(c) PROVE LoopInv'
<1>1. ControlOK'
  BY DEF LoopInv, GiveUp, ControlOK, serverVars
<1>2. FlagsOK'
  BY DEF LoopInv, GiveUp, FlagsOK, serverVars
<1>3. TableOK'
  BY DEF LoopInv, GiveUp, TableOK, serverVars
<1>4. SocketsOK'
  BY DEF LoopInv, GiveUp, SocketsOK, serverVars, socketVars
<1>5. CallsOK'
  BY DEF LoopInv, GiveUp, CallsOK, socketVars
<1>6. QueueInv'
  <2>1. \A x \in Clients : QueuedOK(x) => QueuedOK(x)'
    BY DEF GiveUp, QueuedOK, serverVars, socketVars
  <2>. QED
    BY <2>1, QueueSame DEF LoopInv, GiveUp, socketVars
<1>7. StartInv'
  BY DEF LoopInv, GiveUp, StartInv, serverVars, socketVars
<1>8. SlotInv'
  <2> SUFFICES ASSUME NEW j \in Slots PROVE SlotOK(j)'
    BY DEF SlotInv
  <2>1. SlotOK(j)
    BY DEF LoopInv, SlotInv
  <2>. QED
    BY <2>1 DEF GiveUp, SlotOK, serverVars, socketVars
<1>9. TransferInv'
  <2> SUFFICES ASSUME NEW j \in Slots PROVE TransferOK(conns[j], conns[j].client)'
    BY DEF TransferInv
  <2>1. TransferOK(conns[j], conns[j].client)
    BY DEF LoopInv, TransferInv
  <2>. QED
    BY <2>1 DEF GiveUp, TransferOK, serverVars, socketVars
<1>10. CallInv'
  <2> SUFFICES ASSUME NEW x \in Clients PROVE CallOK(x)'
    BY DEF CallInv
  <2>1. CallOK(x)
    BY DEF LoopInv, CallInv
  <2>. QED
    BY <2>1 DEF GiveUp, CallOK, serverVars, socketVars
<1>11. EventInv'
  <2> SUFFICES ASSUME pc' = "handle" PROVE /\ ready'[Listener] # {} => backlog' # <<>>
                                           /\ \A i \in Slots : EventsOK(i)'
    BY DEF EventInv
  <2>1. UNCHANGED <<pc, ready, conns, backlog>> /\ \A x \in Clients : Left(x) => Left(x)'
    BY DEF LoopInv, CallsOK, GiveUp, Left, serverVars, socketVars
  <2>2. \A i \in Slots : conns[i].state # "free" => conns[i].client \in Clients
    BY Slot DEF LoopInv
  <2>. QED
    BY <2>1, <2>2 DEF LoopInv, EventInv, EventsOK
<1>. QED
  BY <1>1, <1>2, <1>3, <1>4, <1>5, <1>6, <1>7, <1>8, <1>9, <1>10, <1>11 DEF LoopInv

LEMMA PollKeeps == ASSUME LoopInv, Poll PROVE LoopInv'
<1>1. \A e \in Entries : ready'[e] = Revents(e)
  BY DEF Poll
<1>2. \A i \in Slots : EventsOK(i)'
  <2> SUFFICES ASSUME NEW i \in Slots PROVE EventsOK(i)'
    OBVIOUS
  <2>1. ready'[i] = Revents(i) /\ i # Listener
    BY <1>1, Numbers DEF Entries, Slots, Listener
  <2>. QED
    BY <2>1 DEF EventsOK, Revents, Poll, clientVars, Left
<1>3. ready'[Listener] # {} => backlog # <<>>
  BY <1>1 DEF Revents, Entries, Listener
<1>4. ControlOK'
  BY DEF Poll, ControlOK, Listener, Revents
<1>5. FlagsOK'
  BY DEF LoopInv, Poll, FlagsOK
<1>6. EventInv'
  BY <1>2, <1>3 DEF EventInv, Poll, socketVars
<1>. QED
  BY <1>4, <1>5, <1>6, LoopOnly DEF Poll

LEMMA DisconnectAllKeeps == ASSUME LoopInv, DisconnectAll PROVE LoopInv'
<1>1. \A j \in Slots : conns'[j] \in Conn /\ conns'[j].state = "free" /\ conns'[j].client = NoClient
  BY Slot, Numbers DEF LoopInv, DisconnectAll, Conn
<1>2. conns' \in [Slots -> Conn]
  BY <1>1 DEF DisconnectAll
<1>3. {conns[i].client : i \in Slots \ FreeSlots} \subseteq {x \in Clients : phase[x] # "start" /\ ~QueuedOK(x)}
  BY Slot DEF LoopInv, FreeSlots, SlotInv, SlotOK, QueuedOK
<1>4. \A x \in Clients : x \in hung' => x \in hung \/ (phase[x] # "start" /\ ~QueuedOK(x))
  BY <1>3 DEF DisconnectAll
<1>5. ControlOK'
  BY DEF LoopInv, DisconnectAll, ControlOK
<1>6. FlagsOK'
  BY DEF LoopInv, DisconnectAll, FlagsOK
<1>7. TableOK'
  BY <1>1, <1>2, Numbers DEF TableOK
<1>8. SocketsOK'
  BY <1>3 DEF LoopInv, DisconnectAll, SocketsOK
<1>9. CallsOK'
  BY DEF LoopInv, DisconnectAll, CallsOK, clientVars
<1>10. QueueInv'
  <2>1. ASSUME NEW x \in Clients, QueuedOK(x) PROVE QueuedOK(x)'
    <3>1. UNCHANGED <<phase, sent, unread, handled>> /\ x \notin hung'
      BY <2>1, <1>4 DEF QueuedOK, DisconnectAll, clientVars
    <3>2. \A j \in Slots : conns'[j].client # x
      BY <1>1, Numbers
    <3>. QED
      BY <2>1, <3>1, <3>2 DEF QueuedOK
  <2>. QED
    BY <2>1, QueueSame DEF LoopInv, DisconnectAll
<1>11. StartInv'
  BY <1>4 DEF LoopInv, DisconnectAll, StartInv, clientVars
<1>12. SlotInv'
  BY <1>1 DEF SlotInv, SlotOK
<1>13. TransferInv'
  BY <1>1 DEF TransferInv, TransferOK, Reading
<1>14. CallInv'
  <2> SUFFICES ASSUME NEW x \in Clients PROVE CallOK(x)'
    BY DEF CallInv
  <2>1. CallOK(x)
    BY DEF LoopInv, CallInv
  <2>. QED
    BY <2>1 DEF DisconnectAll, CallOK, clientVars
<1>15. EventInv'
  BY DEF DisconnectAll, EventInv
<1>. QED
  BY <1>5, <1>6, <1>7, <1>8, <1>9, <1>10, <1>11, <1>12, <1>13, <1>14, <1>15 DEF LoopInv

LEMMA ConnectKeeps == ASSUME LoopInv, NEW c \in Clients, Connect(c) PROVE LoopInv'
<1>1. phase[c] = "start" /\ UNCHANGED <<pc, ready, conns, hung, handled, sent, unread, inbox, got>>
  BY DEF Connect, serverVars
<1>2. \A x \in Clients : phase'[x] = phase[x] \/ (x = c /\ phase'[x] \in {"sending", "failed"})
  <2>1. phase' = [phase EXCEPT ![c] = "sending"] \/ phase' = [phase EXCEPT ![c] = "failed"]
    BY DEF Connect
  <2>. QED
    BY <2>1 DEF LoopInv, CallsOK
<1>3. \/ UNCHANGED backlog
      \/ /\ Len(backlog) < MaxQueue
         /\ backlog' = Append(backlog, c)
  BY DEF Connect
<1>4. c \notin hung \cup handled /\ sent[c] = 0 /\ unread[c] = 0
  BY <1>1 DEF LoopInv, StartInv
<1>5. \A x \in Clients : QueuedOK(x) => QueuedOK(x)'
  BY <1>1, <1>2 DEF QueuedOK
<1>6. QueuedOK(c)'
  <2>1. phase'[c] # "start"
    BY DEF Connect, LoopInv, CallsOK
  <2>2. \A j \in Slots : conns[j].client # c
    BY <1>1, Slot, Numbers DEF LoopInv, SlotInv, SlotOK, TableOK
  <2>. QED
    BY <1>1, <1>4, <2>1, <2>2 DEF QueuedOK
<1>7. ControlOK'
  BY DEF LoopInv, Connect, ControlOK, serverVars
<1>8. FlagsOK'
  BY DEF LoopInv, Connect, FlagsOK, serverVars
<1>9. TableOK'
  BY DEF LoopInv, Connect, TableOK, serverVars
<1>10. SocketsOK'
  <2>1. CASE UNCHANGED backlog
    BY <2>1, <1>1 DEF LoopInv, SocketsOK
  <2>2. CASE backlog' = Append(backlog, c) /\ Len(backlog) < MaxQueue
    <3>1. backlog' \in Seq(Clients) /\ Len(backlog') = Len(backlog) + 1 /\ Len(backlog) \in Nat
      BY <2>2 DEF LoopInv, SocketsOK
    <3>. QED
      BY <3>1, <2>2, <1>1, Numbers DEF LoopInv, SocketsOK
  <2>. QED
    BY <2>1, <2>2, <1>3
<1>11. CallsOK'
  BY DEF LoopInv, Connect, CallsOK
<1>12. QueueInv'
  <2>1. CASE UNCHANGED backlog
    BY <2>1, <1>5, QueueSame DEF LoopInv
  <2>2. CASE backlog' = Append(backlog, c)
    <3>1. /\ Len(backlog') = Len(backlog) + 1 /\ backlog'[Len(backlog) + 1] = c
          /\ \A k \in 1 .. Len(backlog) : backlog'[k] = backlog[k] /\ backlog[k] \in Clients
          /\ Len(backlog) \in Nat
      BY <2>2 DEF LoopInv, SocketsOK
    <3>2. \A k \in 1 .. Len(backlog) : QueuedOK(backlog[k]) /\ backlog[k] # c
      BY <1>1 DEF LoopInv, QueueInv, QueuedOK
    <3>3. \A k \in 1 .. Len(backlog') : k \in 1 .. Len(backlog) \/ k = Len(backlog) + 1
      BY <3>1
    <3>4. \A k \in 1 .. Len(backlog') : QueuedOK(backlog[k])'
      BY <3>1, <3>2, <3>3, <1>5, <1>6
    <3>5. \A j, k \in 1 .. Len(backlog) : backlog[j] = backlog[k] => j = k
      BY DEF LoopInv, QueueInv
    <3>6. \A j, k \in 1 .. Len(backlog') : backlog'[j] = backlog'[k] => j = k
      BY <3>1, <3>2, <3>3, <3>5
    <3>. QED
      BY <3>4, <3>6 DEF QueueInv
  <2>. QED
    BY <2>1, <2>2, <1>3
<1>13. StartInv'
  BY DEF LoopInv, Connect, StartInv, CallsOK, serverVars
<1>14. SlotInv'
  <2> SUFFICES ASSUME NEW j \in Slots PROVE SlotOK(j)'
    BY DEF SlotInv
  <2>1. conns[j].state # "free" => conns[j].client \in Clients
    BY Slot DEF LoopInv
  <2>2. SlotOK(j)
    BY DEF LoopInv, SlotInv
  <2>. QED
    BY <2>1, <2>2 DEF LoopInv, Connect, SlotOK, CallsOK, serverVars
<1>15. TransferInv'
  <2> SUFFICES ASSUME NEW j \in Slots PROVE TransferOK(conns[j], conns[j].client)'
    BY DEF TransferInv
  <2>1. TransferOK(conns[j], conns[j].client)
    BY DEF LoopInv, TransferInv
  <2>. QED
    BY <2>1 DEF Connect, TransferOK, serverVars
<1>16. CallInv'
  <2> SUFFICES ASSUME NEW x \in Clients PROVE CallOK(x)'
    BY DEF CallInv
  <2>1. CallOK(x) /\ RequestLen(x) \in Nat \ {0}
    BY Numbers DEF LoopInv, CallInv, RequestLen
  <2>. QED
    BY <2>1, <1>1, <1>2, <1>4 DEF CallOK
<1>17. EventInv'
  <2>1. backlog # <<>> => backlog' # <<>>
    BY <1>3 DEF LoopInv, SocketsOK
  <2>2. \A i \in Slots : conns[i].state # "free" => conns[i].client \in Clients
    BY Slot DEF LoopInv
  <2>3. \A x \in Clients : Left(x) => Left(x)'
    BY <1>1, <1>2 DEF Left
  <2>. QED
    BY <2>1, <2>2, <2>3, <1>1 DEF LoopInv, EventInv, EventsOK
<1>. QED
  BY <1>7, <1>8, <1>9, <1>10, <1>11, <1>12, <1>13, <1>14, <1>15, <1>16, <1>17 DEF LoopInv

LEMMA SendKeeps == ASSUME LoopInv, NEW c \in Clients, Send(c) PROVE LoopInv'
<1>1. phase[c] = "sending" /\ UNCHANGED <<pc, ready, conns, backlog, hung, handled, inbox, got>>
  BY DEF Send, serverVars
<1>2. \A x \in Clients \ {c} : phase'[x] = phase[x] /\ sent'[x] = sent[x] /\ unread'[x] = unread[x]
  BY DEF Send, LoopInv, CallsOK
<1>3. sent[c] \in Nat /\ unread[c] \in Nat /\ sent[c] < RequestLen(c) /\ RequestLen(c) \in Nat
  BY <1>1, Numbers DEF LoopInv, CallInv, CallOK, CallsOK
<1>4. \/ c \in hung /\ sent'[c] = sent[c] /\ unread'[c] = unread[c] /\ phase'[c] = "failed"
      \/ /\ sent'[c] = sent[c] + 1 /\ unread'[c] = unread[c] + 1
         /\ phase'[c] = IF sent'[c] = RequestLen(c) THEN "waiting" ELSE "sending"
  BY <1>1 DEF Send, LoopInv, CallsOK
<1>5. c \notin handled /\ got[c] = 0 /\ inbox[c] = 0
  BY <1>1, <1>3 DEF LoopInv, CallInv, CallOK
<1>6. ControlOK'
  BY DEF LoopInv, Send, ControlOK, serverVars
<1>7. FlagsOK'
  BY DEF LoopInv, Send, FlagsOK, serverVars
<1>8. TableOK'
  BY DEF LoopInv, Send, TableOK, serverVars
<1>9. SocketsOK'
  BY DEF LoopInv, Send, SocketsOK, serverVars
<1>10. CallsOK'
  BY DEF LoopInv, Send, CallsOK
<1>11. QueueInv'
  <2>1. \A x \in Clients : QueuedOK(x) => QueuedOK(x)'
    BY Numbers, <1>1, <1>2, <1>3, <1>4 DEF QueuedOK
  <2>. QED
    BY <2>1, QueueSame DEF LoopInv, Send
<1>12. StartInv'
  BY DEF LoopInv, Send, StartInv, CallsOK, serverVars
<1>13. SlotInv'
  <2> SUFFICES ASSUME NEW j \in Slots PROVE SlotOK(j)'
    BY DEF SlotInv
  <2>1. conns[j].state # "free" => conns[j].client \in Clients
    BY Slot DEF LoopInv
  <2>2. SlotOK(j)
    BY DEF LoopInv, SlotInv
  <2>. QED
    BY <2>1, <2>2 DEF LoopInv, Send, SlotOK, CallsOK, serverVars
<1>14. TransferInv'
  <2> SUFFICES ASSUME NEW j \in Slots PROVE TransferOK(conns[j], conns[j].client)'
    BY DEF TransferInv
  <2>1. conns[j].state # "free" => conns[j].client \in Clients
    BY Slot DEF LoopInv
  <2>2. TransferOK(conns[j], conns[j].client) /\ conns[j].readLen \in Nat
    BY Slot DEF LoopInv, TransferInv
  <2>3. CASE conns[j].client = c
    BY <2>2, <2>3, <1>1, <1>3, <1>4, <1>5, Numbers DEF TransferOK, Reading
  <2>. QED
    BY <2>1, <2>2, <2>3, <1>1, <1>2 DEF TransferOK, Reading
<1>15. CallInv'
  <2> SUFFICES ASSUME NEW x \in Clients PROVE CallOK(x)'
    BY DEF CallInv
  <2>1. CallOK(x)
    BY DEF LoopInv, CallInv
  <2>2. CASE x = c
    BY <2>1, <2>2, <1>1, <1>3, <1>4, <1>5, Numbers DEF CallOK
  <2>. QED
    BY <2>1, <2>2, <1>1, <1>2 DEF CallOK
<1>16. EventInv'
  <2> SUFFICES ASSUME pc' = "handle" PROVE /\ ready'[Listener] # {} => backlog' # <<>>
                                           /\ \A i \in Slots : EventsOK(i)'
    BY DEF EventInv
  <2>1. UNCHANGED <<pc, ready, conns, backlog>> /\ \A x \in Clients : Left(x) => Left(x)'
    BY DEF LoopInv, CallsOK, Send, Left, serverVars, socketVars
  <2>2. \A i \in Slots : conns[i].state # "free" => conns[i].client \in Clients
    BY Slot DEF LoopInv
  <2>. QED
    BY <2>1, <2>2 DEF LoopInv, EventInv, EventsOK
<1>. QED
  BY <1>6, <1>7, <1>8, <1>9, <1>10, <1>11, <1>12, <1>13, <1>14, <1>15, <1>16 DEF LoopInv

LEMMA ReceiveKeeps == ASSUME LoopInv, NEW c \in Clients, Receive(c) PROVE LoopInv'
<1>1. phase[c] = "waiting" /\ UNCHANGED <<pc, ready, conns, backlog, hung, handled, sent, unread>>
  BY DEF Receive, serverVars
<1>2. \A x \in Clients \ {c} : phase'[x] = phase[x] /\ inbox'[x] = inbox[x] /\ got'[x] = got[x]
  BY DEF Receive, LoopInv, CallsOK
<1>3. got[c] \in Nat /\ inbox[c] \in 0 .. Window /\ got[c] < ResponseLen
  BY <1>1, Numbers DEF LoopInv, CallInv, CallOK, CallsOK
<1>4. \/ /\ inbox[c] > 0 /\ inbox'[c] = inbox[c] - 1 /\ got'[c] = got[c] + 1
         /\ phase'[c] = IF got'[c] = ResponseLen THEN "answered" ELSE "waiting"
      \/ inbox'[c] = inbox[c] /\ got'[c] = got[c] /\ phase'[c] = "failed"
  <2>1. CASE /\ inbox[c] > 0
             /\ inbox' = [inbox EXCEPT ![c] = @ - 1] /\ got' = [got EXCEPT ![c] = @ + 1]
             /\ phase' = IF got'[c] = ResponseLen THEN [phase EXCEPT ![c] = "answered"] ELSE phase
    <3>1. inbox'[c] = inbox[c] - 1 /\ got'[c] = got[c] + 1
      BY <2>1 DEF LoopInv, CallsOK
    <3>2. phase'[c] = IF got'[c] = ResponseLen THEN "answered" ELSE "waiting"
      BY <2>1, <1>1 DEF LoopInv, CallsOK
    <3>. QED
      BY <2>1, <3>1, <3>2
  <2>2. CASE phase' = [phase EXCEPT ![c] = "failed"] /\ UNCHANGED <<inbox, got>>
    BY <2>2 DEF LoopInv, CallsOK
  <2>. QED
    BY <2>1, <2>2 DEF Receive
<1>5. c \notin handled => inbox[c] = 0
  BY DEF LoopInv, CallInv, CallOK
<1>6. ControlOK'
  BY DEF LoopInv, Receive, ControlOK, serverVars
<1>7. FlagsOK'
  BY DEF LoopInv, Receive, FlagsOK, serverVars
<1>8. TableOK'
  BY DEF LoopInv, Receive, TableOK, serverVars
<1>9. SocketsOK'
  BY DEF LoopInv, Receive, SocketsOK, serverVars
<1>10. CallsOK'
  <2>1. got'[c] \in 0 .. ResponseLen /\ inbox'[c] \in 0 .. Window
    BY <1>3, <1>4, Numbers
  <2>2. \A x \in Clients : got'[x] \in 0 .. ResponseLen /\ inbox'[x] \in 0 .. Window
    BY <2>1, <1>2 DEF LoopInv, CallsOK
  <2>. QED
    BY <2>2, <1>1 DEF LoopInv, CallsOK, Receive
<1>11. QueueInv'
  <2>1. \A x \in Clients : QueuedOK(x) => QueuedOK(x)'
    BY DEF LoopInv, Receive, QueuedOK, CallsOK, serverVars
  <2>. QED
    BY <2>1, QueueSame DEF LoopInv, Receive
<1>12. StartInv'
  BY DEF LoopInv, Receive, StartInv, CallsOK, serverVars
<1>13. SlotInv'
  <2> SUFFICES ASSUME NEW j \in Slots PROVE SlotOK(j)'
    BY DEF SlotInv
  <2>1. conns[j].state # "free" => conns[j].client \in Clients
    BY Slot DEF LoopInv
  <2>2. SlotOK(j)
    BY DEF LoopInv, SlotInv
  <2>. QED
    BY <2>1, <2>2 DEF LoopInv, Receive, SlotOK, CallsOK, serverVars
<1>14. TransferInv'
  <2> SUFFICES ASSUME NEW j \in Slots PROVE TransferOK(conns[j], conns[j].client)'
    BY DEF TransferInv
  <2>1. conns[j].state # "free" => conns[j].client \in Clients
    BY Slot DEF LoopInv
  <2>2. TransferOK(conns[j], conns[j].client) /\ conns[j].writeOffset \in Nat
    BY Slot DEF LoopInv, TransferInv
  <2>3. CASE conns[j].client = c
    BY <2>2, <2>3, <1>1, <1>3, <1>4, Numbers DEF TransferOK, Reading
  <2>. QED
    BY <2>1, <2>2, <2>3, <1>1, <1>2 DEF TransferOK, Reading
<1>15. CallInv'
  <2> SUFFICES ASSUME NEW x \in Clients PROVE CallOK(x)'
    BY DEF CallInv
  <2>1. CallOK(x)
    BY DEF LoopInv, CallInv
  <2>2. CASE x = c
    BY <2>1, <2>2, <1>1, <1>3, <1>4, <1>5, Numbers DEF CallOK
  <2>. QED
    BY <2>1, <2>2, <1>1, <1>2 DEF CallOK
<1>16. EventInv'
  <2> SUFFICES ASSUME pc' = "handle" PROVE /\ ready'[Listener] # {} => backlog' # <<>>
                                           /\ \A i \in Slots : EventsOK(i)'
    BY DEF EventInv
  <2>1. UNCHANGED <<pc, ready, conns, backlog>> /\ \A x \in Clients : Left(x) => Left(x)'
    BY DEF LoopInv, CallsOK, Receive, Left, serverVars, socketVars
  <2>2. \A i \in Slots : conns[i].state # "free" => conns[i].client \in Clients
    BY Slot DEF LoopInv
  <2>. QED
    BY <2>1, <2>2 DEF LoopInv, EventInv, EventsOK
<1>. QED
  BY <1>6, <1>7, <1>8, <1>9, <1>10, <1>11, <1>12, <1>13, <1>14, <1>15, <1>16 DEF LoopInv

\* What handling an event of a slot leaves to be looked at: the slot and its
\* client, and nobody else's.
LEMMA SlotStep ==
    ASSUME LoopInv, NEW i \in Slots, NEW c \in Clients, c = conns[i].client,
           pc = "handle", conns[i].state # "free", Handled(i),
           UNCHANGED <<backlog, clientVars>>,
           conns' \in [Slots -> Conn], \A j \in Slots \ {i} : conns'[j] = conns[j],
           \/ conns'[i].state = "free" /\ conns'[i].client = NoClient /\ hung' = hung \cup {c}
           \/ conns'[i].state # "free" /\ conns'[i].client = c /\ hung' = hung,
           handled' \in {handled, handled \cup {c}},
           unread' \in [Clients -> Nat], inbox' \in [Clients -> 0 .. Window],
           \A x \in Clients \ {c} : unread'[x] = unread[x] /\ inbox'[x] = inbox[x],
           TransferOK(conns[i], c)', CallOK(c)'
    PROVE  LoopInv'
<1>1. \A j \in Slots \ {i} : conns[j].client # c
  BY DEF LoopInv, SlotInv, SlotOK
<1>2. phase[c] # "start" /\ c \notin hung /\ c # NoClient
  BY Numbers DEF LoopInv, SlotInv, SlotOK
<1>3. UNCHANGED <<pc, shutdown, missed, phase, sent, got>> /\ ready' = [ready EXCEPT ![i] = {}]
  BY DEF Handled, clientVars
<1>4. \A x \in Clients \ {c} : (x \in hung' <=> x \in hung) /\ (x \in handled' <=> x \in handled)
  OBVIOUS
<1>5. ControlOK' /\ FlagsOK'
  BY <1>3 DEF LoopInv, ControlOK, FlagsOK, Entries
<1>6. TableOK'
  BY <1>2 DEF LoopInv, TableOK
<1>7. SocketsOK'
  BY DEF LoopInv, SocketsOK
<1>8. CallsOK'
  BY <1>3 DEF LoopInv, CallsOK
<1>9. QueueInv'
  <2>1. ASSUME NEW x \in Clients, QueuedOK(x) PROVE QueuedOK(x)'
    <3>1. x # c
      BY <2>1 DEF QueuedOK
    <3>2. \A j \in Slots : conns'[j].client # x
      BY <2>1, <3>1, Numbers DEF QueuedOK
    <3>. QED
      BY <2>1, <3>1, <3>2, <1>3, <1>4 DEF QueuedOK
  <2>. QED
    BY <2>1, QueueSame DEF LoopInv
<1>10. StartInv'
  BY <1>2, <1>3, <1>4 DEF LoopInv, StartInv
<1>11. SlotInv'
  <2> SUFFICES ASSUME NEW j \in Slots PROVE SlotOK(j)'
    BY DEF SlotInv
  <2>1. CASE j = i
    BY <2>1, <1>1, <1>2, <1>3 DEF SlotOK
  <2>2. CASE j # i
    <3>1. SlotOK(j) /\ (conns[j].state # "free" => conns[j].client \in Clients)
      BY Slot DEF LoopInv, SlotInv
    <3>. QED
      BY <2>2, <3>1, <1>1, <1>3, <1>4, Numbers DEF SlotOK
  <2>. QED
    BY <2>1, <2>2
<1>12. TransferInv'
  <2> SUFFICES ASSUME NEW j \in Slots PROVE TransferOK(conns[j], conns[j].client)'
    BY DEF TransferInv
  <2>1. CASE j = i
    BY <2>1 DEF TransferOK, Reading
  <2>2. CASE j # i
    <3>1. /\ TransferOK(conns[j], conns[j].client)
          /\ conns[j].state # "free" => conns[j].client \in Clients \ {c}
      BY <2>2, <1>1, Slot DEF LoopInv, TransferInv
    <3>. QED
      BY <2>2, <3>1, <1>3, <1>4 DEF TransferOK, Reading
  <2>. QED
    BY <2>1, <2>2
<1>13. CallInv'
  <2> SUFFICES ASSUME NEW x \in Clients PROVE CallOK(x)'
    BY DEF CallInv
  <2>1. CASE x = c
    BY <2>1
  <2>2. CASE x # c
    BY <2>2, <1>3, <1>4 DEF CallOK, LoopInv, CallInv
  <2>. QED
    BY <2>1, <2>2
<1>14. EventInv'
  BY <1>3, Numbers DEF LoopInv, EventInv, EventsOK, Left, ControlOK, Entries, Slots, Listener
<1>. QED
  BY <1>5, <1>6, <1>7, <1>8, <1>9, <1>10, <1>11, <1>12, <1>13, <1>14 DEF LoopInv

LEMMA Served ==
    ASSUME LoopInv, NEW i \in Slots, Current(i)
    PROVE  /\ pc = "handle" /\ conns[i].state # "free" /\ conns[i].client \in Clients
           /\ TransferOK(conns[i], conns[i].client) /\ CallOK(conns[i].client)
<1>1. EventsOK(i) /\ ready[i] # {} /\ ready[i] \subseteq Events /\ pc = "handle"
  BY DEF LoopInv, Current, EventInv, ControlOK, Entries
<1>2. conns[i].state # "free"
  BY <1>1 DEF EventsOK, Events, Reading
<1>. QED
  BY <1>1, <1>2, Slot DEF LoopInv, TransferInv, CallInv

\* HangUp and FailConn drop a connection, and read and write nothing.
LEMMA DropKeeps ==
    ASSUME LoopInv, NEW i \in Slots, HangUp(i) \/ FailConn(i)
    PROVE  LoopInv'
<1>1. /\ Current(i) /\ Disconnect(i) /\ Handled(i)
      /\ UNCHANGED <<backlog, clientVars>> /\ UNCHANGED <<handled, unread, inbox>>
  BY DEF HangUp, FailConn
<1>2. PICK c \in Clients : c = conns[i].client
  BY <1>1, Served
<1>3. /\ pc = "handle" /\ conns[i].state # "free" /\ c \in Clients
      /\ TransferOK(conns[i], c) /\ CallOK(c)
  BY <1>1, <1>2, Served
<1>4. /\ conns' \in [Slots -> Conn] /\ \A j \in Slots \ {i} : conns'[j] = conns[j]
      /\ conns'[i].state = "free" /\ conns'[i].client = NoClient /\ hung' = hung \cup {c}
  BY <1>1, <1>2, Slot DEF Disconnect, LoopInv, TableOK, Conn
<1>5. CallOK(c)'
  BY <1>2, <1>1, <1>3 DEF CallOK, clientVars
<1>6. TransferOK(conns[i], c)'
  BY <1>2, <1>4 DEF TransferOK, Reading
<1>. QED
  BY <1>2, <1>1, <1>3, <1>4, <1>5, <1>6, SlotStep DEF LoopInv, CallsOK

LEMMA HandleReadableKeeps == ASSUME LoopInv, NEW i \in Slots, HandleReadable(i) PROVE LoopInv'
<1>1. Current(i) /\ Handled(i) /\ UNCHANGED <<backlog, clientVars>> /\ UNCHANGED inbox
  BY DEF HandleReadable
<1>2. PICK c \in Clients : c = conns[i].client
  BY <1>1, Served
<1> DEFINE n == Lesser(unread[c], conns[i].readTarget - conns[i].readLen)
           conn == [conns[i] EXCEPT !.readLen = @ + n]
<1>3. /\ pc = "handle" /\ conns[i].state # "free" /\ c \in Clients
      /\ TransferOK(conns[i], c) /\ CallOK(c)
  BY <1>1, <1>2, Served
<1>4. /\ conns[i].state \in Reading /\ conns[i] \in Conn
      /\ sent[c] \in Nat /\ unread[c] \in Nat /\ conns[i].readLen \in Nat /\ conns[i].readTarget \in Nat
  BY <1>2, <1>3, Slot DEF HandleReadable, LoopInv, CallsOK
<1>5. n \in Nat /\ n <= unread[c] /\ conns[i].readLen + n <= conns[i].readTarget
  BY <1>2, <1>3, <1>4 DEF Lesser, TransferOK
<1>6. /\ conn \in Conn /\ conn.readLen = conns[i].readLen + n
      /\ conn.state = conns[i].state /\ conn.client = c /\ conn.readTarget = conns[i].readTarget
  BY <1>2, <1>4, <1>5 DEF Conn
<1>7. unread' = [unread EXCEPT ![c] = @ - n]
  BY <1>2 DEF HandleReadable, AfterRead
<1>8. /\ unread' \in [Clients -> Nat] /\ unread'[c] = unread[c] - n
      /\ \A x \in Clients \ {c} : unread'[x] = unread[x]
  BY <1>2, <1>3, <1>4, <1>5, <1>7 DEF LoopInv, CallsOK
<1>9. inbox' \in [Clients -> 0 .. Window] /\ \A x \in Clients \ {c} : inbox'[x] = inbox[x]
  BY <1>2, <1>1 DEF LoopInv, CallsOK
<1>10. c \notin handled /\ got[c] = 0 /\ inbox[c] = 0
  BY <1>2, <1>3, <1>4 DEF TransferOK, CallOK
<1>11. UNCHANGED <<phase, sent, got>>
  BY <1>2, <1>1 DEF clientVars
<1>12. \/ UNCHANGED handled /\ Disconnect(i)
       \/ UNCHANGED <<handled, hung>> /\ conns' = [conns EXCEPT ![i] = conn] /\ conn.readLen < conn.readTarget
       \/ /\ UNCHANGED <<handled, hung>>
          /\ conn.readLen = conn.readTarget /\ conn.state = "read_header" /\ BodyLen[c] > 0
          /\ conns' = [conns EXCEPT ![i] =
                [conn EXCEPT !.state = "read_body", !.readLen = 0, !.readTarget = BodyLen[c]]]
       \/ /\ UNCHANGED hung /\ ProcessRequest(i, conn)
          /\ conn.readLen = conn.readTarget
          /\ conn.state = "read_body" \/ BodyLen[c] = 0
  BY <1>2 DEF HandleReadable, AfterRead
<1> HIDE DEF n, conn
<1>13. CASE UNCHANGED handled /\ Disconnect(i)
  <2>1. /\ conns' \in [Slots -> Conn] /\ \A j \in Slots \ {i} : conns'[j] = conns[j]
        /\ conns'[i].state = "free" /\ conns'[i].client = NoClient /\ hung' = hung \cup {c}
    BY <1>2, <1>13, Slot DEF Disconnect, LoopInv, TableOK, Conn
  <2>2. CallOK(c)'
    BY <1>2, <1>1, <1>3, <1>10, <1>11, <1>13 DEF CallOK
  <2>3. TransferOK(conns[i], c)'
    BY <1>2, <2>1 DEF TransferOK, Reading
  <2>. QED
    BY <1>2, <1>1, <1>3, <1>8, <1>9, <1>13, <2>1, <2>2, <2>3, SlotStep
<1>14. CASE UNCHANGED <<handled, hung>> /\ conns' = [conns EXCEPT ![i] = conn] /\ conn.readLen < conn.readTarget
  <2>1. /\ conns' \in [Slots -> Conn] /\ conns'[i] = conn /\ \A j \in Slots \ {i} : conns'[j] = conns[j]
    BY <1>2, <1>14, <1>6 DEF LoopInv, TableOK
  <2>2. CallOK(c)'
    BY <1>2, <1>1, <1>3, <1>10, <1>11, <1>14 DEF CallOK
  <2>3. TransferOK(conns[i], c)'
    BY <1>2, <2>1, <1>3, <1>4, <1>5, <1>6, <1>8, <1>10, <1>11, <1>14, Numbers DEF TransferOK, Reading
  <2>. QED
    BY <1>2, <1>1, <1>3, <1>6, <1>8, <1>9, <1>14, <2>1, <2>2, <2>3, SlotStep
<1>15. CASE /\ UNCHANGED <<handled, hung>>
            /\ conn.readLen = conn.readTarget /\ conn.state = "read_header" /\ BodyLen[c] > 0
            /\ conns' = [conns EXCEPT ![i] =
                  [conn EXCEPT !.state = "read_body", !.readLen = 0, !.readTarget = BodyLen[c]]]
  <2>1. /\ conns' \in [Slots -> Conn] /\ conns'[i].state = "read_body" /\ conns'[i].readLen = 0
        /\ conns'[i].readTarget = BodyLen[c] /\ conns'[i].client = c
        /\ \A j \in Slots \ {i} : conns'[j] = conns[j]
    BY <1>2, <1>3, <1>15, <1>6, Numbers DEF LoopInv, TableOK, Conn, Reading
  <2>2. CallOK(c)'
    BY <1>2, <1>1, <1>3, <1>10, <1>11, <1>15 DEF CallOK
  <2>3. TransferOK(conns[i], c)'
    BY <1>2, <2>1, <1>3, <1>4, <1>5, <1>6, <1>8, <1>10, <1>11, <1>15, Numbers DEF TransferOK, Reading
  <2>. QED
    BY <1>2, <1>1, <1>3, <1>8, <1>9, <1>15, <2>1, <2>2, <2>3, SlotStep
<1>16. CASE /\ UNCHANGED hung /\ ProcessRequest(i, conn)
            /\ conn.readLen = conn.readTarget
            /\ conn.state = "read_body" \/ BodyLen[c] = 0
  <2>1. /\ conns' \in [Slots -> Conn] /\ conns'[i].state = "write" /\ conns'[i].writeOffset = 0
        /\ conns'[i].client = c /\ handled' = handled \cup {c}
        /\ \A j \in Slots \ {i} : conns'[j] = conns[j]
    BY <1>2, <1>16, <1>6, Numbers DEF ProcessRequest, LoopInv, TableOK, Conn
  <2>2. sent[c] = RequestLen(c) /\ unread'[c] = 0
    BY <1>2, <1>3, <1>4, <1>5, <1>6, <1>8, <1>16, Numbers DEF TransferOK, CallOK, RequestLen, Reading
  <2>3. CallOK(c)'
    BY <1>2, <1>3, <1>10, <1>11, <2>1, <2>2, Numbers DEF CallOK
  <2>4. TransferOK(conns[i], c)'
    BY <1>2, <2>1, <1>1, <1>10, <1>11, Numbers DEF TransferOK, Reading
  <2>. QED
    BY <1>2, <1>1, <1>3, <1>8, <1>9, <1>16, <2>1, <2>3, <2>4, SlotStep
<1>. QED
  BY <1>12, <1>13, <1>14, <1>15, <1>16

LEMMA HandleWritableKeeps == ASSUME LoopInv, NEW i \in Slots, HandleWritable(i) PROVE LoopInv'
<1>1. Current(i) /\ Handled(i) /\ UNCHANGED <<backlog, clientVars>> /\ UNCHANGED <<handled, unread>>
  BY DEF HandleWritable
<1>2. PICK c \in Clients : c = conns[i].client
  BY <1>1, Served
<1> DEFINE n == Lesser(Window - inbox[c], Remaining(conns[i]))
<1>3. /\ pc = "handle" /\ conns[i].state = "write" /\ c \in Clients
      /\ TransferOK(conns[i], c) /\ CallOK(c)
  BY <1>1, <1>2, Served DEF HandleWritable
<1>4. /\ inbox[c] \in 0 .. Window /\ got[c] \in Nat /\ conns[i] \in Conn /\ conns[i].writeOffset \in Nat
      /\ conns[i].writeOffset < ResponseLen /\ conns[i].writeOffset = got[c] + inbox[c] /\ c \in handled
  BY <1>2, <1>3, Slot, Numbers DEF LoopInv, CallsOK, TransferOK
<1>5. n \in Nat /\ inbox[c] + n <= Window
  BY <1>2, <1>4, Numbers DEF Lesser, Remaining, ResponseLen
<1>6. inbox' = [inbox EXCEPT ![c] = @ + n] /\ UNCHANGED <<phase, sent, got>>
  BY <1>1, <1>2 DEF HandleWritable, clientVars
<1>7. \/ Disconnect(i)
      \/ /\ UNCHANGED hung /\ conns[i].writeOffset + n < ResponseLen
         /\ conns' = [conns EXCEPT ![i].writeOffset = conns[i].writeOffset + n]
  BY <1>2, <1>4, <1>5, Numbers DEF HandleWritable, AfterWrite
<1> HIDE DEF n
<1>8. /\ inbox' \in [Clients -> 0 .. Window] /\ inbox'[c] = inbox[c] + n
      /\ \A x \in Clients \ {c} : inbox'[x] = inbox[x]
  BY <1>2, <1>3, <1>4, <1>5, <1>6, Numbers DEF LoopInv, CallsOK
<1>9. unread' \in [Clients -> Nat]
  BY <1>2, <1>1 DEF LoopInv, CallsOK
<1>10. CallOK(c)'
  BY <1>2, <1>1, <1>3, <1>4, <1>6 DEF CallOK
<1>11. CASE Disconnect(i)
  <2>1. /\ conns' \in [Slots -> Conn] /\ \A j \in Slots \ {i} : conns'[j] = conns[j]
        /\ conns'[i].state = "free" /\ conns'[i].client = NoClient /\ hung' = hung \cup {c}
    BY <1>2, <1>11, Slot DEF Disconnect, LoopInv, TableOK, Conn
  <2>2. TransferOK(conns[i], c)'
    BY <1>2, <2>1 DEF TransferOK, Reading
  <2>. QED
    BY <1>2, <1>1, <1>3, <1>8, <1>9, <1>10, <2>1, <2>2, SlotStep
<1>12. CASE /\ UNCHANGED hung /\ conns[i].writeOffset + n < ResponseLen
            /\ conns' = [conns EXCEPT ![i].writeOffset = conns[i].writeOffset + n]
  <2>1. /\ conns' \in [Slots -> Conn] /\ conns'[i].state = "write" /\ conns'[i].client = c
        /\ conns'[i].writeOffset = conns[i].writeOffset + n
        /\ \A j \in Slots \ {i} : conns'[j] = conns[j]
    BY <1>2, <1>3, <1>4, <1>5, <1>12 DEF LoopInv, TableOK, Conn
  <2>2. TransferOK(conns[i], c)'
    BY <1>2, <2>1, <1>1, <1>4, <1>5, <1>6, <1>8, <1>12 DEF TransferOK, Reading
  <2>. QED
    BY <1>2, <1>1, <1>3, <1>8, <1>9, <1>10, <1>12, <2>1, <2>2, SlotStep
<1>. QED
  BY <1>7, <1>11, <1>12

LEMMA AcceptClientKeeps == ASSUME LoopInv, AcceptClient PROVE LoopInv'
<1>1. pc = "handle" /\ ready[Listener] # {} /\ backlog # <<>>
  BY DEF LoopInv, AcceptClient, Current, EventInv
<1>2. /\ UNCHANGED <<pc, shutdown, missed, handled, unread, inbox, phase, sent, got>>
      /\ ready' = [ready EXCEPT ![Listener] = {}]
  BY DEF AcceptClient, Handled, clientVars
<1>3. PICK c \in Clients : c = Head(backlog) /\ c = backlog[1]
  BY <1>1 DEF LoopInv, SocketsOK
<1>4. /\ backlog' \in Seq(Clients) /\ Len(backlog) \in Nat \ {0} /\ Len(backlog') = Len(backlog) - 1
      /\ \A k \in 1 .. Len(backlog') : backlog'[k] = backlog[k + 1] /\ k + 1 \in 1 .. Len(backlog)
      /\ \A k \in 1 .. Len(backlog') : backlog'[k] \in Clients
  BY <1>1 DEF AcceptClient, LoopInv, SocketsOK
<1>5. ControlOK' /\ FlagsOK' /\ CallsOK'
  BY <1>2 DEF LoopInv, ControlOK, FlagsOK, CallsOK, Entries
<1>6. QueuedOK(c)
  BY <1>3, <1>4 DEF LoopInv, QueueInv
<1>7. CASE FreeSlots = {} /\ hung' = hung \cup {c} /\ UNCHANGED conns
  <2>1. \A x \in Clients \ {c} : QueuedOK(x) => QueuedOK(x)'
    BY <1>2, <1>7 DEF QueuedOK
  <2>2. QueueInv'
    BY <1>3, <1>4, <2>1, QueueTail DEF LoopInv
  <2>3. TableOK' /\ SocketsOK'
    BY <1>2, <1>4, <1>7, Numbers DEF LoopInv, TableOK, SocketsOK
  <2>4. StartInv'
    BY <1>2, <1>6, <1>7 DEF LoopInv, StartInv, QueuedOK
  <2>5. SlotInv'
    BY <1>2, <1>6, <1>7 DEF LoopInv, SlotInv, SlotOK, QueuedOK
  <2>6. TransferInv' /\ CallInv'
    BY <1>2, <1>7 DEF LoopInv, TransferInv, TransferOK, CallInv, CallOK
  <2>7. EventInv'
    BY <1>2, <1>7, Numbers DEF LoopInv, EventInv, EventsOK, Left, ControlOK, Entries, Slots, Listener
  <2>. QED
    BY <1>5, <2>2, <2>3, <2>4, <2>5, <2>6, <2>7 DEF LoopInv
<1>8. ASSUME NEW i \in Slots, FirstFree(i), conns' = [conns EXCEPT ![i] = NewConn(c)], UNCHANGED hung
      PROVE  LoopInv'
  <2>1. /\ conns' \in [Slots -> Conn] /\ \A j \in Slots \ {i} : conns'[j] = conns[j]
        /\ conns'[i].state = "read_header" /\ conns'[i].client = c
        /\ conns'[i].readLen = 0 /\ conns'[i].readTarget = HeaderLen
    BY <1>8, Numbers DEF LoopInv, TableOK, NewConn, Conn, Reading
  <2>2. \A x \in Clients \ {c} : QueuedOK(x) => QueuedOK(x)'
    BY <1>2, <1>8, <2>1 DEF QueuedOK
  <2>3. QueueInv'
    BY <1>3, <1>4, <2>2, QueueTail DEF LoopInv
  <2>4. SocketsOK'
    BY <1>2, <1>4, <1>8, Numbers DEF LoopInv, SocketsOK
  <2>5. TableOK'
    BY <2>1, Numbers DEF LoopInv, TableOK
  <2>6. StartInv'
    BY <1>2, <1>8 DEF LoopInv, StartInv
  <2>7. SlotInv'
    <3> SUFFICES ASSUME NEW j \in Slots PROVE SlotOK(j)'
      BY DEF SlotInv
    <3>1. SlotOK(j) /\ (conns[j].state # "free" => conns[j].client \in Clients)
      BY Slot DEF LoopInv, SlotInv
    <3>2. \A k \in Slots : conns[k].client # c
      BY <1>6 DEF QueuedOK
    <3>3. CASE j = i
      BY <3>2, <3>3, <2>1, <1>2, <1>6, <1>8 DEF SlotOK, QueuedOK
    <3>4. CASE j # i
      BY <3>1, <3>2, <3>4, <2>1, <1>2, <1>8 DEF SlotOK
    <3>. QED
      BY <3>3, <3>4
  <2>8. TransferInv'
    <3>1. c \notin handled /\ sent[c] = unread[c] /\ unread[c] \in Nat
      BY <1>6 DEF QueuedOK, LoopInv, CallsOK
    <3>. QED
      BY <3>1, <2>1, <1>2, Numbers DEF LoopInv, TransferInv, TransferOK, Reading
  <2>9. CallInv'
    BY <1>2 DEF LoopInv, CallInv, CallOK
  <2>10. EventInv'
    <3>1. /\ UNCHANGED <<pc, phase>> /\ ready'[Listener] = {} /\ pc = "handle"
          /\ \A j \in Slots : ready'[j] = ready[j] /\ EventsOK(j)
      BY <1>1, <1>2, Numbers DEF LoopInv, EventInv, ControlOK, Entries, Slots, Listener
    <3>2. EventsOK(i)'
      BY <3>1, <1>8 DEF EventsOK, FirstFree, FreeSlots, Reading
    <3>3. \A j \in Slots \ {i} : EventsOK(j)'
      BY <3>1, <2>1 DEF EventsOK, Left
    <3>. QED
      BY <3>1, <3>2, <3>3 DEF EventInv
  <2>. QED
    BY <1>5, <2>3, <2>4, <2>5, <2>6, <2>7, <2>8, <2>9, <2>10 DEF LoopInv
<1>. QED
  BY <1>3, <1>7, <1>8 DEF AcceptClient, Reject

LEMMA AcceptFailsKeeps == ASSUME LoopInv, AcceptFails PROVE LoopInv'
<1>1. pc = "handle" /\ ready[Listener] # {} /\ backlog # <<>>
  BY DEF LoopInv, AcceptFails, Current, EventInv
<1>2. /\ UNCHANGED <<pc, shutdown, missed, conns, handled, unread, inbox, phase, sent, got>>
      /\ ready' = [ready EXCEPT ![Listener] = {}]
  BY DEF AcceptFails, Handled, clientVars
<1>3. PICK c \in Clients : c = Head(backlog) /\ c = backlog[1]
  BY <1>1 DEF LoopInv, SocketsOK
<1>4. ControlOK' /\ FlagsOK' /\ TableOK' /\ CallsOK'
  BY <1>2 DEF LoopInv, ControlOK, FlagsOK, TableOK, CallsOK, Entries
<1>5. TransferInv' /\ CallInv'
  BY <1>2 DEF LoopInv, TransferInv, TransferOK, CallInv, CallOK
<1>6. EventInv'
  BY <1>2, Numbers DEF LoopInv, EventInv, EventsOK, Left, ControlOK, Entries, Slots, Listener
<1>7. QueuedOK(c)
  BY <1>1, <1>3 DEF LoopInv, QueueInv, SocketsOK
<1>8. CASE UNCHANGED <<backlog, hung>>
  <2>1. SocketsOK' /\ StartInv' /\ SlotInv'
    BY <1>2, <1>8 DEF LoopInv, SocketsOK, StartInv, SlotInv, SlotOK
  <2>2. \A x \in Clients : QueuedOK(x) => QueuedOK(x)'
    BY <1>2, <1>8 DEF QueuedOK
  <2>3. QueueInv'
    BY <1>8, <2>2, QueueSame DEF LoopInv
  <2>. QED
    BY <1>4, <1>5, <1>6, <2>1, <2>3 DEF LoopInv
<1>9. CASE backlog' = Tail(backlog) /\ hung' = hung \cup {c}
  <2>1. /\ backlog' \in Seq(Clients) /\ Len(backlog) \in Nat \ {0} /\ Len(backlog') = Len(backlog) - 1
        /\ \A k \in 1 .. Len(backlog') : backlog'[k] = backlog[k + 1] /\ k + 1 \in 1 .. Len(backlog)
        /\ \A k \in 1 .. Len(backlog') : backlog'[k] \in Clients
    BY <1>1, <1>9 DEF LoopInv, SocketsOK
  <2>2. \A x \in Clients \ {c} : QueuedOK(x) => QueuedOK(x)'
    BY <1>2, <1>9 DEF QueuedOK
  <2>3. QueueInv'
    BY <1>3, <2>1, <2>2, QueueTail DEF LoopInv
  <2>4. SocketsOK'
    BY <1>2, <1>9, <2>1, Numbers DEF LoopInv, SocketsOK
  <2>5. StartInv' /\ SlotInv'
    BY <1>2, <1>7, <1>9 DEF LoopInv, StartInv, SlotInv, SlotOK, QueuedOK
  <2>. QED
    BY <1>4, <1>5, <1>6, <2>3, <2>4, <2>5 DEF LoopInv
<1>. QED
  BY <1>3, <1>8, <1>9 DEF AcceptFails, Reject

LEMMA BrokenPipeKeeps == ASSUME LoopInv, NEW i \in Slots, BrokenPipe(i) PROVE LoopInv'
<1>1. /\ pc' = "down" /\ backlog' = <<>> /\ hung' = hung \cup {x \in Clients : phase[x] # "start"}
      /\ UNCHANGED <<shutdown, missed, ready, conns, handled, unread, inbox, phase, sent, got>>
  BY DEF BrokenPipe, CloseEverything, clientVars
<1>2. ControlOK' /\ FlagsOK' /\ TableOK' /\ SocketsOK' /\ CallsOK'
  BY <1>1, Numbers DEF LoopInv, ControlOK, FlagsOK, TableOK, SocketsOK, CallsOK
<1>3. QueueInv' /\ EventInv'
  BY <1>1 DEF QueueInv, EventInv
<1>4. StartInv' /\ SlotInv'
  BY <1>1 DEF LoopInv, StartInv, SlotInv, SlotOK
<1>5. TransferInv' /\ CallInv'
  BY <1>1 DEF LoopInv, TransferInv, TransferOK, CallInv, CallOK
<1>. QED
  BY <1>2, <1>3, <1>4, <1>5 DEF LoopInv

LEMMA InitInv == Init => LoopInv
<1> SUFFICES ASSUME Init PROVE LoopInv
  OBVIOUS
<1>1. ControlOK /\ FlagsOK
  BY DEF Init, ControlOK, FlagsOK
<1>2. \A i \in Slots : conns[i] = [state |-> "free", client |-> NoClient,
                                 readLen |-> 0, readTarget |-> 0, writeOffset |-> 0]
  BY DEF Init
<1>3. TableOK /\ SocketsOK /\ CallsOK
  BY Numbers DEF Init, TableOK, SocketsOK, CallsOK, Conn
<1>4. QueueInv /\ StartInv /\ SlotInv /\ TransferInv
  BY <1>2 DEF Init, QueueInv, StartInv, SlotInv, SlotOK, TransferInv, TransferOK, Reading
<1>5. CallInv /\ EventInv
  BY Numbers, LoopAssumption DEF Init, CallInv, CallOK, EventInv, EventsOK, RequestLen
<1>. QED
  BY <1>1, <1>3, <1>4, <1>5 DEF LoopInv

LEMMA StepInv == LoopInv /\ [Next]_vars => LoopInv'
<1> SUFFICES ASSUME LoopInv, [Next]_vars PROVE LoopInv'
  OBVIOUS
<1>1. CASE UNCHANGED vars
  <2> USE <1>1 DEF LoopInv, vars, serverVars, socketVars, clientVars
  <2>1. /\ ControlOK' /\ FlagsOK' /\ TableOK' /\ SocketsOK' /\ CallsOK'
        /\ QueueInv' /\ StartInv'
    BY DEF ControlOK, FlagsOK, TableOK, SocketsOK, CallsOK, QueueInv, QueuedOK, StartInv
  <2>2. SlotInv' /\ TransferInv'
    BY DEF SlotInv, SlotOK, TransferInv, TransferOK
  <2>3. CallInv'
    BY DEF CallInv, CallOK
  <2>4. EventInv'
    BY DEF EventInv, EventsOK, Left
  <2>. QED
    BY <2>1, <2>2, <2>3, <2>4
<1>2. CASE Check \/ EnterPoll \/ Poll \/ AcceptClient \/ IterDone
  BY <1>2, CheckKeeps, EnterPollKeeps, PollKeeps, AcceptClientKeeps, IterDoneKeeps
<1>3. CASE \E i \in Slots : HangUp(i) \/ HandleReadable(i) \/ HandleWritable(i) \/ BrokenPipe(i)
  BY <1>3, DropKeeps, HandleReadableKeeps, HandleWritableKeeps, BrokenPipeKeeps
<1>4. CASE DisconnectAll \/ CloseListener \/ Faults \/ Signal
  BY <1>4, DisconnectAllKeeps, CloseListenerKeeps, PollFailsKeeps, AcceptFailsKeeps, DropKeeps,
     SignalKeeps DEF Faults
<1>5. CASE \E c \in Clients : Client(c)
  BY <1>5, ConnectKeeps, SendKeeps, ReceiveKeeps, GiveUpKeeps DEF Client
<1>. QED
  BY <1>1, <1>2, <1>3, <1>4, <1>5 DEF Next, Server, MainIter

LEMMA Invariant == Spec => []LoopInv
<1>. QED
  BY InitInv, StepInv, PTL DEF Spec

-----------------------------------------------------------------------------
\* Every part of the state has its type: no transfer runs past its message, and
\* no socket holds more than its window (server.c:226, 365).
THEOREM TypeCorrect == Spec => []TypeOK
<1>1. LoopInv => TypeOK
  BY DEF LoopInv, TypeOK, ControlOK, FlagsOK, TableOK, SocketsOK, CallsOK
<1>. QED
  BY <1>1, Invariant, PTL

\* A slot in use has a client whose socket is open, and no two slots have the
\* same one (server.c:110-123, 146-162).
THEOREM SlotsAreSockets == Spec => []SlotsMatchSockets
<1>1. LoopInv => SlotsMatchSockets
  BY Slot DEF LoopInv, SlotsMatchSockets, SlotInv, SlotOK, FreeSlots
<1>. QED
  BY <1>1, Invariant, PTL

\* No event is handled for a slot that was freed since the poll.
THEOREM NoStaleEvent == Spec => []EventsAreCurrent
<1>1. LoopInv => EventsAreCurrent
  BY DEF LoopInv, EventsAreCurrent, EventInv, EventsOK
<1>. QED
  BY <1>1, Invariant, PTL

\* An endpoint is called with the whole request of its client, and no more.
THEOREM RequestsWhole == Spec => []HandledWhole
<1>1. LoopInv => HandledWhole
  BY DEF LoopInv, HandledWhole, CallInv, CallOK, SocketsOK
<1>. QED
  BY <1>1, Invariant, PTL

\* Partial writes leave no gap and repeat nothing, and nobody gets an answer to
\* a request that was not handled.
THEOREM ResponsesWhole == Spec => []ResponseAccounted
<1>1. LoopInv => ResponseAccounted
  BY DEF LoopInv, ResponseAccounted, TransferInv, TransferOK, CallInv, CallOK
<1>. QED
  BY <1>1, Invariant, PTL
=============================================================================
