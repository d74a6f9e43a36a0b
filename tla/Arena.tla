-------------------------------- MODULE Arena --------------------------------
(***************************************************************************)
(* Memory: arenas (utils/mem/arena.c) and the strings and vectors on them   *)
(* (utils/data_struct/slice.h, str.c, vec.h). An arena is a chain of pages, *)
(* each filled from its beginning; nothing is freed but all at once. A      *)
(* string is a view of memory: a literal, or a stretch of a page. Strings   *)
(* share memory, and a concatenation extends one in place if it can.       *)
(*                                                                         *)
(* Two arenas: the context's, made at start-up, and a short-lived one, such *)
(* as a connection's, freed when the client is disconnected, or a callback's, *)
(* reset after each call. A page of memory is counted in characters.       *)
(***************************************************************************)
EXTENDS Integers, Sequences

CONSTANTS
    Vars,          \* string variables
    Pages,         \* bound: blocks malloc() hands out
    PageCapacity,  \* __ARENA_DEFAULT_PAGE_CAPACITY
    MaxLen,        \* bound: the longest text, the largest page
    Capacities,    \* bound: the capacities vectors are made with
    Chars,
    Digits,        \* those of numbers
    Garbage,       \* what unused memory holds
    Null,          \* no page
    Static,        \* the page of the string literals
    StaticText,    \* what they say: a literal is a part of it
    NoText

ASSUME ArenaAssumption ==
    /\ PageCapacity \in Nat \ {0} /\ MaxLen \in Nat /\ PageCapacity <= MaxLen
    /\ Capacities \subseteq 1 .. MaxLen /\ Digits \subseteq Chars
    /\ Null \notin Pages \cup {Static} /\ Static \notin Pages
    /\ StaticText \in Seq(Chars) /\ Len(StaticText) <= MaxLen
    /\ NoText \notin Seq(Chars)

VARIABLES
    pages,     \* per arena: its pages, __headPage first; <<>> once freed
    capacity,  \* per page: __capacity
    size,      \* per page: __size
    mem,       \* per page: its characters
    str,       \* per variable: its view
    scope,     \* per variable: the arena it was made for, "none" if unused
    vec        \* a vector in the short-lived arena

heap == <<pages, capacity, size, mem>>
vars == <<heap, str, scope, vec>>

Arenas == {"context", "request"}
Offsets == 0 .. MaxLen
View == [page : Pages \cup {Static}, off : Offsets, len : Offsets, arenaPage : Pages \cup {Null}]
Vec  == [page : Pages \cup {Null}, off : Offsets, len : Offsets, cap : Offsets]

Empty == [page |-> Static, off |-> 0, len |-> 0, arenaPage |-> Null]
NoVec == [page |-> Null, off |-> 0, len |-> 0, cap |-> 0]

Typed ==
    /\ pages \in [Arenas -> Seq(Pages)]
    /\ capacity \in [Pages -> Offsets] /\ size \in [Pages -> Offsets]
    /\ mem \in [Pages -> [1 .. MaxLen -> Chars \cup {Garbage}]]
    /\ str \in [Vars -> View]
    /\ scope \in [Vars -> Arenas \cup {"none"}]
    /\ vec \in Vec

\* A page is filled up to its capacity at most.
SizesOK == \A p \in Pages : size[p] <= capacity[p]

TypeOK == Typed /\ SizesOK

PagesOf(a) == {pages[a][i] : i \in 1 .. Len(pages[a])}
Free == Pages \ (PagesOf("context") \cup PagesOf("request"))
Alive(a) == pages[a] # <<>>
HeadPage(a) == pages[a][1]
TailPage(a) == pages[a][Len(pages[a])]

\* The server at start-up: the context's arena has its first page.
Init ==
    /\ \E p \in Pages : pages = [a \in Arenas |-> IF a = "context" THEN <<p>> ELSE <<>>]
    /\ capacity = [p \in Pages |-> IF p \in PagesOf("context") THEN PageCapacity ELSE 0]
    /\ size = [p \in Pages |-> 0]
    /\ mem = [p \in Pages |-> [i \in 1 .. MaxLen |-> Garbage]]
    /\ str = [v \in Vars |-> Empty]
    /\ scope = [v \in Vars |-> "none"]
    /\ vec = NoVec

-----------------------------------------------------------------------------
\* The text a view shows.
Content(s) == [i \in 1 .. s.len |->
    IF s.page = Static THEN StaticText[s.off + i] ELSE mem[s.page][s.off + i]]

Bind(v, a, s) == str' = [str EXCEPT ![v] = s] /\ scope' = [scope EXCEPT ![v] = a]

\* What outlives a request is made from what outlives it, too.
Usable(u, a) == scope[u] # "none" /\ (a = "context" => scope[u] = "context")

\* memcpy to the n characters at p + off.
Copy(p, off, text) ==
    mem' = [mem EXCEPT ![p] = [i \in 1 .. MaxLen |->
        IF i - off \in 1 .. Len(text) THEN text[i - off] ELSE mem[p][i]]]

\* Mutant: a page that is full by one character still fits.
FitsOnePast(a, n) == size[TailPage(a)] + n <= capacity[TailPage(a)] + 1

Fits(a, n) == size[TailPage(a)] + n <= capacity[TailPage(a)]

\* Mutant: the new page forgets the one before it.
Unchained(chain, p) == <<p>>

Chained(chain, p) == Append(chain, p)

Larger(m, n) == IF m >= n THEN m ELSE n

\* Arena_Alloc, Arena_AllocWithPage: p + off becomes the block of n characters.
Alloc(a, n, p, off) ==
    \/ /\ Fits(a, n)
       /\ p = TailPage(a) /\ off = size[p]
       /\ size' = [size EXCEPT ![p] = off + n]
       /\ UNCHANGED <<pages, capacity>>
    \/ /\ ~Fits(a, n)
       /\ p \in Free /\ off = 0
       /\ pages' = [pages EXCEPT ![a] = Chained(@, p)]
       /\ capacity' = [capacity EXCEPT ![p] = Larger(capacity[HeadPage(a)], n)]
       /\ size' = [size EXCEPT ![p] = n]

\* A new block with a text in it, and a view of it that knows its page.
Place(v, a, text) ==
    \E p \in Pages : \E off \in Offsets :
        /\ Alloc(a, Len(text), p, off)
        /\ Copy(p, off, text)
        /\ Bind(v, a, [page |-> p, off |-> off, len |-> Len(text), arenaPage |-> p])

-----------------------------------------------------------------------------
\* Strings.

\* Str_FromCStr, Str_CreateEmpty.
Literal(v, off, len) ==
    /\ off + len <= Len(StaticText)
    /\ Bind(v, "context", [page |-> Static, off |-> off, len |-> len, arenaPage |-> Null])
    /\ UNCHANGED <<heap, vec>>

\* Str_FromU64.
FromU64(v, a, digit) ==
    /\ Alive(a)
    /\ Place(v, a, <<digit>>)
    /\ UNCHANGED vec

\* A block filled by its owner, and a view that knows no page, as in
\* DataStream_Push* and for a request's body.
FromData(v, a, c) ==
    /\ Alive(a)
    /\ \E p \in Pages : \E off \in Offsets :
         /\ Alloc(a, 1, p, off)
         /\ Copy(p, off, <<c>>)
         /\ Bind(v, a, [page |-> p, off |-> off, len |-> 1, arenaPage |-> Null])
    /\ UNCHANGED vec

\* Str_Concat if one string is empty: the other, copied unless it is on a page.
ConcatEmpty(v, u, w, a) ==
    LET s == IF str[w].len = 0 THEN str[u] ELSE str[w] IN
    /\ str[u].len = 0 \/ str[w].len = 0
    /\ \/ /\ s.len = 0
          /\ Bind(v, a, Empty) /\ UNCHANGED heap
       \/ /\ s.len > 0 /\ s.arenaPage # Null
          /\ Bind(v, a, s) /\ UNCHANGED heap
       \/ /\ s.len > 0 /\ s.arenaPage = Null
          /\ Place(v, a, Content(s))

\* Mutant: two strings of one page are taken to be next to each other.
AnyOnPage(s1, s2) == s1.arenaPage # Null /\ s1.arenaPage = s2.arenaPage

\* s2 begins where s1 ends, on one page.
Adjacent(s1, s2) ==
    /\ s1.arenaPage # Null /\ s1.arenaPage = s2.arenaPage
    /\ s1.off + s1.len = s2.off

\* Mutant: any string of the last page is extended, also one with another behind it.
OnTailPage(s, n, a) ==
    s.arenaPage # Null /\ Fits(a, n) /\ s.page = TailPage(a)

\* s ends where the next n characters are allocated.
AtTail(s, n, a) ==
    /\ s.arenaPage # Null /\ Fits(a, n)
    /\ s.page = TailPage(a) /\ s.off + s.len = size[TailPage(a)]

\* Str_Concat of two texts: one view of both, s2 appended in place, or a copy.
ConcatTexts(v, u, w, a) ==
    LET s1 == str[u]
        s2 == str[w]
        joined == [s1 EXCEPT !.len = s1.len + s2.len]
    IN
    /\ s1.len > 0 /\ s2.len > 0 /\ s1.len + s2.len <= MaxLen
    /\ \/ /\ Adjacent(s1, s2)
          /\ Bind(v, a, joined) /\ UNCHANGED heap
       \/ /\ ~Adjacent(s1, s2) /\ AtTail(s1, s2.len, a)
          /\ \E p \in Pages : \E off \in Offsets :
               Alloc(a, s2.len, p, off) /\ Copy(p, off, Content(s2))
          /\ Bind(v, a, joined)
       \/ /\ ~Adjacent(s1, s2) /\ ~AtTail(s1, s2.len, a)
          /\ Place(v, a, Content(s1) \o Content(s2))

Concat(v, u, w, a) ==
    /\ Alive(a) /\ Usable(u, a) /\ Usable(w, a)
    /\ ConcatEmpty(v, u, w, a) \/ ConcatTexts(v, u, w, a)
    /\ UNCHANGED vec

\* A data stream's string after a pop: its rest, still on its page.
Advance(v, n) ==
    /\ scope[v] # "none" /\ n <= str[v].len
    /\ str' = [str EXCEPT ![v].off = @ + n, ![v].len = @ - n]
    /\ UNCHANGED <<heap, scope, vec>>

\* DataStream_PopStr: a part of the stream, as a view that knows no page.
PopStr(v, u, from, len) ==
    /\ scope[u] # "none" /\ from + len <= str[u].len
    /\ Bind(v, scope[u], [page |-> str[u].page, off |-> str[u].off + from,
                          len |-> len, arenaPage |-> Null])
    /\ UNCHANGED <<heap, vec>>

-----------------------------------------------------------------------------
\* Vectors.

\* Vec_New, Vec_WithCapacity; a vector of capacity 0 is never pushed to.
NewVec(cap) ==
    /\ Alive("request")
    /\ \E p \in Pages : \E off \in Offsets :
         /\ Alloc("request", cap, p, off)
         /\ vec' = [page |-> p, off |-> off, len |-> 0, cap |-> cap]
    /\ UNCHANGED <<mem, str, scope>>

\* Mutant: a full vector is extended where it is.
GrownInPlace(c) ==
    /\ UNCHANGED <<pages, capacity, size>>
    /\ Copy(vec.page, vec.off + vec.len, <<c>>)
    /\ vec' = [vec EXCEPT !.len = @ + 1, !.cap = 2 * @]

\* A block of twice the size, with the old items and the new one in it.
Grown(c) ==
    \E p \in Pages : \E off \in Offsets :
        /\ Alloc("request", 2 * vec.cap, p, off)
        /\ Copy(p, off, [i \in 1 .. vec.len + 1 |->
                            IF i <= vec.len THEN mem[vec.page][vec.off + i] ELSE c])
        /\ vec' = [page |-> p, off |-> off, len |-> vec.len + 1, cap |-> 2 * vec.cap]

Push(c) ==
    /\ vec.cap > 0
    /\ \/ /\ vec.len = vec.cap /\ 2 * vec.cap <= MaxLen
          /\ Grown(c)
       \/ /\ vec.len < vec.cap
          /\ Copy(vec.page, vec.off + vec.len, <<c>>)
          /\ vec' = [vec EXCEPT !.len = @ + 1]
          /\ UNCHANGED <<pages, capacity, size>>
    /\ UNCHANGED <<str, scope>>

-----------------------------------------------------------------------------
\* Arenas.

\* A variable goes out of scope; its memory stays.
Leave(v) ==
    /\ scope[v] # "none"
    /\ scope' = [scope EXCEPT ![v] = "none"] /\ str' = [str EXCEPT ![v] = Empty]
    /\ UNCHANGED <<heap, vec>>

\* The request is over: the variables made for its arena are out of scope.
LeaveAll ==
    /\ scope' = [v \in Vars |-> IF scope[v] = "request" THEN "none" ELSE scope[v]]
    /\ str' = [v \in Vars |-> IF scope[v] = "request" THEN Empty ELSE str[v]]
    /\ vec' = NoVec

\* Arena_New, as when a client is accepted.
New ==
    /\ ~Alive("request")
    /\ \E p \in Free :
         /\ pages' = [pages EXCEPT !["request"] = <<p>>]
         /\ capacity' = [capacity EXCEPT ![p] = PageCapacity]
         /\ size' = [size EXCEPT ![p] = 0]
    /\ UNCHANGED <<mem, str, scope, vec>>

\* free(): the memory of these pages is lost.
Released(ps) ==
    /\ mem' = [p \in Pages |-> IF p \in ps THEN [i \in 1 .. MaxLen |-> Garbage] ELSE mem[p]]
    /\ capacity' = [p \in Pages |-> IF p \in ps \cap Free' THEN 0 ELSE capacity[p]]
    /\ size' = [p \in Pages |-> IF p \in ps THEN 0 ELSE size[p]]

\* Arena_Reset, as after a callback: all pages but the first are freed, the first is empty.
Reset ==
    /\ Alive("request")
    /\ pages' = [pages EXCEPT !["request"] = <<HeadPage("request")>>]
    /\ Released(PagesOf("request"))
    /\ LeaveAll

\* Arena_Free, as when the client is disconnected.
FreeArena ==
    /\ Alive("request")
    /\ pages' = [pages EXCEPT !["request"] = <<>>]
    /\ Released(PagesOf("request"))
    /\ LeaveAll

-----------------------------------------------------------------------------
Make(v) ==
    \/ \E off, len \in 0 .. Len(StaticText) : Literal(v, off, len)
    \/ \E a \in Arenas : \E c \in Digits : FromU64(v, a, c)
    \/ \E a \in Arenas : \E c \in Chars : FromData(v, a, c)

Next ==
    \/ \E v \in Vars : Make(v) \/ Leave(v)
    \/ \E v \in Vars : \E n \in Offsets : Advance(v, n)
    \/ \E v, u \in Vars : \E from, len \in Offsets : PopStr(v, u, from, len)
    \/ \E v, u, w \in Vars : \E a \in Arenas : Concat(v, u, w, a)
    \/ \E cap \in Capacities : NewVec(cap)
    \/ \E c \in Chars : Push(c)
    \/ New \/ Reset \/ FreeArena

Spec == Init /\ [][Next]_vars

-----------------------------------------------------------------------------
\* No page leaks and none is in two places: the pages malloc() has handed out
\* and free() has not got back are those of the arenas, each once.
PagesAccounted ==
    /\ \A p \in Pages : capacity[p] > 0 => p \notin Free
    /\ \A a, b \in Arenas : \A i \in 1 .. Len(pages[a]) : \A j \in 1 .. Len(pages[b]) :
         pages[a][i] = pages[b][j] => a = b /\ i = j

\* The text of each variable in scope, and what was pushed to the vector.
Texts == [v \in Vars |-> IF scope[v] = "none" THEN NoText ELSE Content(str[v])]
Items == IF vec.page = Null THEN NoText
         ELSE [i \in 1 .. vec.len |-> mem[vec.page][vec.off + i]]
Promised == INSTANCE Strings WITH value <- Texts, list <- Items

\* Strings that share memory, extend each other in place, lie next to vectors and
\* outlive requests behave as if each had a text of its own.
TextsKept == Promised!Spec
=============================================================================
