----------------------------- MODULE Arena_proofs -----------------------------
(***************************************************************************)
(* Proofs about Arena, for any number of variables and pages and any sizes: *)
(* types (no view, vector or page reaches past its end), the accounting of  *)
(* pages, and that Arena implements Strings.                               *)
(***************************************************************************)
EXTENDS Arena, TLAPS

\* A string lies inside its page; one that knows its page knows the right one.
ViewOK(s) ==
    /\ s \in View
    /\ s.off + s.len <= MaxLen
    /\ s.page = Static => s.off + s.len <= Len(StaticText)
    /\ s.arenaPage # Null => s.page = s.arenaPage

\* A vector's items lie in its block, and its arena is there.
VecOK ==
    /\ vec.len <= vec.cap /\ vec.off + vec.cap <= MaxLen
    /\ vec.cap > 0 => vec.page # Null /\ Alive("request")

ArenaInv ==
    /\ Typed /\ SizesOK /\ VecOK /\ PagesAccounted
    /\ \A v \in Vars : ViewOK(str[v])

-----------------------------------------------------------------------------
\* The heap part of the invariant, which allocation has to keep.
HeapOK ==
    /\ pages \in [Arenas -> Seq(Pages)]
    /\ capacity \in [Pages -> Offsets] /\ size \in [Pages -> Offsets]
    /\ SizesOK /\ PagesAccounted

LEMMA Ends ==
    ASSUME HeapOK, NEW a \in Arenas, Alive(a)
    PROVE  /\ Len(pages[a]) \in Nat \ {0}
           /\ HeadPage(a) \in PagesOf(a) /\ TailPage(a) \in PagesOf(a)
           /\ PagesOf(a) \subseteq Pages
BY ArenaAssumption DEF HeapOK, Alive, HeadPage, TailPage, PagesOf

\* A block lies in a page, and the heap stays in order.
LEMMA AllocKeeps ==
    ASSUME HeapOK, NEW a \in Arenas, Alive(a), NEW n \in Offsets,
           NEW p \in Pages, NEW off \in Offsets, Alloc(a, n, p, off)
    PROVE  HeapOK' /\ off + n <= MaxLen /\ (\A b \in Arenas : Alive(b) => Alive(b)')
<1>1. CASE Fits(a, n) /\ p = TailPage(a) /\ off = size[p]
           /\ size' = [size EXCEPT ![p] = off + n] /\ UNCHANGED <<pages, capacity>>
  <2>1. off + n <= capacity[p] /\ capacity[p] \in Offsets
    BY <1>1, Ends DEF Fits, HeapOK
  <2>2. off + n \in Offsets
    BY <2>1, ArenaAssumption DEF Offsets
  <2>3. SizesOK'
    BY <1>1, <2>1 DEF HeapOK, SizesOK
  <2>4. PagesAccounted'
    BY <1>1 DEF HeapOK, PagesAccounted, Free, PagesOf
  <2> QED BY <1>1, <2>1, <2>2, <2>3, <2>4, ArenaAssumption DEF HeapOK, Offsets, Alive
<1>2. CASE /\ p \in Free /\ off = 0
           /\ pages' = [pages EXCEPT ![a] = Chained(@, p)]
           /\ capacity' = [capacity EXCEPT ![p] = Larger(capacity[HeadPage(a)], n)]
           /\ size' = [size EXCEPT ![p] = n]
  <2>1. pages'[a] = Append(pages[a], p) /\ \A b \in Arenas : b # a => pages'[b] = pages[b]
    BY <1>2 DEF HeapOK, Chained
  <2>2. pages' \in [Arenas -> Seq(Pages)]
    <3>1. pages[a] \in Seq(Pages) /\ p \in Pages
      BY DEF HeapOK
    <3>2. Append(pages[a], p) \in Seq(Pages)
      BY <3>1
    <3> QED BY <1>2, <3>2 DEF HeapOK, Chained
  <2>3. capacity[HeadPage(a)] \in Offsets
    BY Ends DEF HeapOK
  <2>4. Larger(capacity[HeadPage(a)], n) \in Offsets /\ Larger(capacity[HeadPage(a)], n) >= n
    BY <2>3, ArenaAssumption DEF Larger, Offsets
  <2>5. capacity' \in [Pages -> Offsets] /\ size' \in [Pages -> Offsets] /\ SizesOK'
    BY <1>2, <2>4 DEF HeapOK, SizesOK
  <2>6. PagesOf(a)' = PagesOf(a) \cup {p} /\ \A b \in Arenas : b # a => PagesOf(b)' = PagesOf(b)
    <3>1. Len(pages'[a]) = Len(pages[a]) + 1 /\ pages'[a][Len(pages[a]) + 1] = p
          /\ \A i \in 1 .. Len(pages[a]) : pages'[a][i] = pages[a][i]
      <4>1. pages[a] \in Seq(Pages)
        BY DEF HeapOK
      <4> QED BY <2>1, <4>1
    <3>2. Len(pages[a]) \in Nat
      BY DEF HeapOK
    <3>3. \A i : i \in 1 .. Len(pages[a]) + 1 <=> i \in 1 .. Len(pages[a]) \/ i = Len(pages[a]) + 1
      BY <3>2
    <3>4. PagesOf(a)' = {pages'[a][i] : i \in 1 .. Len(pages[a]) + 1}
      BY <3>1 DEF PagesOf
    <3>5. PagesOf(a)' = PagesOf(a) \cup {p}
      BY <3>1, <3>3, <3>4 DEF PagesOf
    <3> QED BY <2>1, <3>5 DEF PagesOf
  <2>7. Free' = Free \ {p}
    BY <2>6 DEF Free, Arenas
  <2>8. \A q \in Pages : capacity'[q] > 0 => q \notin Free'
    BY <1>2, <2>7 DEF HeapOK, PagesAccounted
  <2>9. \A b, c \in Arenas : \A i \in 1 .. Len(pages'[b]) : \A j \in 1 .. Len(pages'[c]) :
          pages'[b][i] = pages'[c][j] => b = c /\ i = j
    <3>1. \A b \in Arenas : \A i \in 1 .. Len(pages[b]) : pages[b][i] # p
      BY <1>2 DEF Free, PagesOf, Arenas
    <3>2. \A b \in Arenas : Len(pages[b]) \in Nat
      BY DEF HeapOK
    <3>3. Len(pages'[a]) = Len(pages[a]) + 1 /\ pages'[a][Len(pages[a]) + 1] = p
          /\ \A i \in 1 .. Len(pages[a]) : pages'[a][i] = pages[a][i]
      BY <2>1 DEF HeapOK
    <3>4. ASSUME NEW b \in Arenas, NEW i \in 1 .. Len(pages'[b])
          PROVE  \/ i \in 1 .. Len(pages[b]) /\ pages'[b][i] = pages[b][i]
                 \/ b = a /\ i = Len(pages[a]) + 1 /\ pages'[b][i] = p
      <4>1. CASE b = a
        <5>1. i \in 1 .. Len(pages[a]) \/ i = Len(pages[a]) + 1
          BY <3>4, <4>1, <3>2, <3>3
        <5> QED BY <4>1, <5>1, <3>3
      <4>2. CASE b # a
        BY <2>1, <3>4, <4>2
      <4> QED BY <4>1, <4>2
    <3>5. \A b, c \in Arenas : \A i \in 1 .. Len(pages[b]) : \A j \in 1 .. Len(pages[c]) :
            pages[b][i] = pages[c][j] => b = c /\ i = j
      BY DEF HeapOK, PagesAccounted
    <3>6. SUFFICES ASSUME NEW b \in Arenas, NEW c \in Arenas,
                          NEW i \in 1 .. Len(pages'[b]), NEW j \in 1 .. Len(pages'[c]),
                          pages'[b][i] = pages'[c][j]
                   PROVE  b = c /\ i = j
      OBVIOUS
    <3>7. \/ i \in 1 .. Len(pages[b]) /\ pages'[b][i] = pages[b][i]
          \/ b = a /\ i = Len(pages[a]) + 1 /\ pages'[b][i] = p
      BY <3>4
    <3>8. \/ j \in 1 .. Len(pages[c]) /\ pages'[c][j] = pages[c][j]
          \/ c = a /\ j = Len(pages[a]) + 1 /\ pages'[c][j] = p
      BY <3>4
    <3> QED BY <3>1, <3>5, <3>6, <3>7, <3>8
  <2>10. PagesAccounted'
    BY <2>8, <2>9 DEF PagesAccounted
  <2>11. \A b \in Arenas : Alive(b) => Alive(b)'
    BY <2>1 DEF HeapOK, Alive
  <2>12. off + n <= MaxLen
    BY <1>2, ArenaAssumption DEF Offsets
  <2> QED BY <2>2, <2>5, <2>10, <2>11, <2>12 DEF HeapOK
<1> QED BY <1>1, <1>2 DEF Alloc

\* Copied text leaves memory a memory.
LEMMA CopyTyped ==
    ASSUME Typed, NEW p \in Pages, NEW off \in Offsets, NEW text,
           text \in Seq(Chars \cup {Garbage}), Copy(p, off, text)
    PROVE  mem' \in [Pages -> [1 .. MaxLen -> Chars \cup {Garbage}]]
<1>1. ASSUME NEW i \in 1 .. MaxLen, i - off \in 1 .. Len(text)
      PROVE  text[i - off] \in Chars \cup {Garbage}
  BY <1>1
<1>2. [i \in 1 .. MaxLen |-> IF i - off \in 1 .. Len(text) THEN text[i - off] ELSE mem[p][i]]
      \in [1 .. MaxLen -> Chars \cup {Garbage}]
  BY <1>1 DEF Typed
<1> QED BY <1>2 DEF Copy, Typed

\* A view shows characters, one for each of its length.
LEMMA ContentTyped ==
    ASSUME Typed, NEW s, ViewOK(s)
    PROVE  Content(s) \in Seq(Chars \cup {Garbage}) /\ Len(Content(s)) = s.len
<1>1. s.len \in Nat /\ s.off \in Nat /\ s.len \in Offsets /\ s.page \in Pages \cup {Static}
  BY ArenaAssumption DEF ViewOK, View, Offsets
<1>2. ASSUME NEW i \in 1 .. s.len
      PROVE  (IF s.page = Static THEN StaticText[s.off + i] ELSE mem[s.page][s.off + i])
             \in Chars \cup {Garbage}
  <2>1. CASE s.page = Static
    <3>1. s.off + i \in 1 .. Len(StaticText)
      BY <1>1, <2>1, ArenaAssumption DEF ViewOK
    <3> QED BY <2>1, <3>1, ArenaAssumption
  <2>2. CASE s.page # Static
    <3>1. s.off + i \in 1 .. MaxLen
      BY <1>1, ArenaAssumption DEF ViewOK
    <3> QED BY <1>1, <2>2, <3>1 DEF Typed
  <2> QED BY <2>1, <2>2
<1>3. Content(s) \in [1 .. s.len -> Chars \cup {Garbage}]
  BY <1>2 DEF Content
<1> QED BY <1>1, <1>3
-----------------------------------------------------------------------------
LEMMA HeapFromInv == ASSUME ArenaInv PROVE HeapOK
BY DEF ArenaInv, HeapOK, Typed

\* The first page of the context is the only one.
LEMMA InitInv == Init => ArenaInv
<1> SUFFICES ASSUME Init PROVE ArenaInv
  OBVIOUS
<1>1. PICK p \in Pages : pages = [a \in Arenas |-> IF a = "context" THEN <<p>> ELSE <<>>]
  BY DEF Init
<1>2. PagesOf("context") = {p} /\ PagesOf("request") = {}
  BY <1>1 DEF PagesOf, Arenas
<1>3. pages \in [Arenas -> Seq(Pages)]
  BY <1>1
<1>4. Typed
  <2>1. Empty \in View /\ NoVec \in Vec
    BY ArenaAssumption DEF Offsets, View, Vec, Empty, NoVec
  <2>2. capacity \in [Pages -> Offsets] /\ size \in [Pages -> Offsets]
    BY ArenaAssumption DEF Init, Offsets
  <2>3. mem \in [Pages -> [1 .. MaxLen -> Chars \cup {Garbage}]]
    BY DEF Init
  <2> QED BY <1>3, <2>1, <2>2, <2>3 DEF Init, Typed
<1>5. SizesOK
  BY ArenaAssumption DEF Init, SizesOK
<1>6. VecOK
  BY ArenaAssumption DEF Init, VecOK, NoVec
<1>7. PagesAccounted
  <2>1. \A q \in Pages : capacity[q] > 0 => q \notin Free
    BY <1>2 DEF Init, Free
  <2>2. \A a, b \in Arenas : \A i \in 1 .. Len(pages[a]) : \A j \in 1 .. Len(pages[b]) :
          pages[a][i] = pages[b][j] => a = b /\ i = j
    BY <1>1 DEF Arenas
  <2> QED BY <2>1, <2>2 DEF PagesAccounted
<1>8. \A v \in Vars : ViewOK(str[v])
  <2>1. ViewOK(Empty)
    BY ArenaAssumption DEF ViewOK, View, Empty, Offsets
  <2> QED BY <2>1 DEF Init
<1> QED BY <1>4, <1>5, <1>6, <1>7, <1>8 DEF ArenaInv

\* The variables' part of the invariant survives what allocation does.
LEMMA Bound ==
    ASSUME ArenaInv, HeapOK', NEW v \in Vars, NEW a \in Arenas, NEW s, Bind(v, a, s), ViewOK(s),
           mem' \in [Pages -> [1 .. MaxLen -> Chars \cup {Garbage}]],
           \A b \in Arenas : Alive(b) => Alive(b)', UNCHANGED vec
    PROVE  ArenaInv'
<1>1. str' \in [Vars -> View] /\ scope' \in [Vars -> Arenas \cup {"none"}]
  BY DEF ArenaInv, Typed, Bind, ViewOK
<1>2. Typed'
  BY <1>1 DEF HeapOK, ArenaInv, Typed
<1>3. VecOK'
  BY DEF ArenaInv, VecOK, Arenas
<1>4. \A u \in Vars : ViewOK(str'[u])
  BY DEF ArenaInv, Typed, Bind
<1> QED BY <1>2, <1>3, <1>4 DEF ArenaInv, HeapOK, ViewOK

LEMMA PlaceKeeps ==
    ASSUME ArenaInv, NEW v \in Vars, NEW a \in Arenas, Alive(a), NEW text,
           text \in Seq(Chars \cup {Garbage}), Len(text) \in Offsets, Place(v, a, text), UNCHANGED vec
    PROVE  ArenaInv'
<1>1. PICK p \in Pages : \E off \in Offsets :
        /\ Alloc(a, Len(text), p, off) /\ Copy(p, off, text)
        /\ Bind(v, a, [page |-> p, off |-> off, len |-> Len(text), arenaPage |-> p])
  BY DEF Place
<1>2. PICK off \in Offsets :
        /\ Alloc(a, Len(text), p, off) /\ Copy(p, off, text)
        /\ Bind(v, a, [page |-> p, off |-> off, len |-> Len(text), arenaPage |-> p])
  BY <1>1
<1>3. HeapOK' /\ off + Len(text) <= MaxLen /\ \A b \in Arenas : Alive(b) => Alive(b)'
  BY <1>2, HeapFromInv, AllocKeeps
<1>4. mem' \in [Pages -> [1 .. MaxLen -> Chars \cup {Garbage}]]
  BY <1>2, CopyTyped DEF ArenaInv
<1>5. ViewOK([page |-> p, off |-> off, len |-> Len(text), arenaPage |-> p])
  BY <1>3, ArenaAssumption DEF ViewOK, View
<1> QED BY <1>2, <1>3, <1>4, <1>5, Bound

-----------------------------------------------------------------------------
\* Operations on strings.
LEMMA LiteralKeeps ==
    ASSUME ArenaInv, NEW v \in Vars, NEW off \in 0 .. Len(StaticText),
           NEW len \in 0 .. Len(StaticText), Literal(v, off, len)
    PROVE  ArenaInv'
<1> DEFINE s == [page |-> Static, off |-> off, len |-> len, arenaPage |-> Null]
<1>1. ViewOK(s)
  BY ArenaAssumption DEF Literal, ViewOK, View, Offsets
<1>2. Bind(v, "context", s) /\ UNCHANGED <<heap, vec>>
  BY DEF Literal
<1>3. HeapOK' /\ \A b \in Arenas : Alive(b) => Alive(b)'
  BY <1>2, HeapFromInv DEF HeapOK, SizesOK, PagesAccounted, Free, PagesOf, Alive, heap
<1>4. mem' \in [Pages -> [1 .. MaxLen -> Chars \cup {Garbage}]]
  BY <1>2 DEF ArenaInv, Typed, heap
<1> HIDE DEF s
<1> QED BY <1>1, <1>2, <1>3, <1>4, Bound DEF Arenas

LEMMA FromU64Keeps ==
    ASSUME ArenaInv, NEW v \in Vars, NEW a \in Arenas, NEW c \in Digits, FromU64(v, a, c)
    PROVE  ArenaInv'
<1>1. <<c>> \in Seq(Chars \cup {Garbage}) /\ Len(<<c>>) \in Offsets
  BY ArenaAssumption DEF Offsets
<1> QED BY <1>1, PlaceKeeps DEF FromU64

LEMMA FromDataKeeps ==
    ASSUME ArenaInv, NEW v \in Vars, NEW a \in Arenas, NEW c \in Chars, FromData(v, a, c)
    PROVE  ArenaInv'
<1>1. PICK p \in Pages : \E off \in Offsets :
        /\ Alloc(a, 1, p, off) /\ Copy(p, off, <<c>>)
        /\ Bind(v, a, [page |-> p, off |-> off, len |-> 1, arenaPage |-> Null])
  BY DEF FromData
<1>2. PICK off \in Offsets :
        /\ Alloc(a, 1, p, off) /\ Copy(p, off, <<c>>)
        /\ Bind(v, a, [page |-> p, off |-> off, len |-> 1, arenaPage |-> Null])
  BY <1>1
<1>3. 1 \in Offsets /\ <<c>> \in Seq(Chars \cup {Garbage})
  BY ArenaAssumption DEF Offsets
<1>4. HeapOK' /\ off + 1 <= MaxLen /\ \A b \in Arenas : Alive(b) => Alive(b)'
  BY <1>2, <1>3, HeapFromInv, AllocKeeps DEF FromData
<1>5. mem' \in [Pages -> [1 .. MaxLen -> Chars \cup {Garbage}]]
  BY <1>2, <1>3, CopyTyped DEF ArenaInv
<1>6. ViewOK([page |-> p, off |-> off, len |-> 1, arenaPage |-> Null])
  BY <1>3, <1>4, ArenaAssumption DEF ViewOK, View
<1>7. UNCHANGED vec
  BY DEF FromData
<1> QED BY <1>2, <1>4, <1>5, <1>6, <1>7, Bound

\* A new view of memory that stays.
LEMMA ViewKeeps ==
    ASSUME ArenaInv, NEW v \in Vars, NEW a \in Arenas, NEW s, ViewOK(s), Bind(v, a, s),
           UNCHANGED heap, UNCHANGED vec
    PROVE  ArenaInv'
<1>1. HeapOK' /\ \A b \in Arenas : Alive(b) => Alive(b)'
  BY HeapFromInv DEF HeapOK, SizesOK, PagesAccounted, Free, PagesOf, Alive, heap
<1>2. mem' \in [Pages -> [1 .. MaxLen -> Chars \cup {Garbage}]]
  BY DEF ArenaInv, Typed, heap
<1> QED BY <1>1, <1>2, Bound

LEMMA ConcatEmptyKeeps ==
    ASSUME ArenaInv, NEW v \in Vars, NEW u \in Vars, NEW w \in Vars, NEW a \in Arenas,
           Alive(a), ConcatEmpty(v, u, w, a), UNCHANGED vec
    PROVE  ArenaInv'
<1> DEFINE s == IF str[w].len = 0 THEN str[u] ELSE str[w]
<1>1. ViewOK(s)
  BY DEF ArenaInv
<1>2. ViewOK(Empty)
  BY ArenaAssumption DEF ViewOK, View, Empty, Offsets
<1>3. \/ Bind(v, a, Empty) /\ UNCHANGED heap
      \/ Bind(v, a, s) /\ UNCHANGED heap
      \/ Place(v, a, Content(s))
  BY DEF ConcatEmpty
<1> HIDE DEF s
<1>4. Content(s) \in Seq(Chars \cup {Garbage}) /\ Len(Content(s)) \in Offsets
  BY <1>1, ContentTyped DEF ArenaInv, ViewOK, View
<1> QED BY <1>1, <1>2, <1>3, <1>4, ViewKeeps, PlaceKeeps

LEMMA ConcatTextsKeeps ==
    ASSUME ArenaInv, NEW v \in Vars, NEW u \in Vars, NEW w \in Vars, NEW a \in Arenas,
           Alive(a), ConcatTexts(v, u, w, a), UNCHANGED vec
    PROVE  ArenaInv'
<1> DEFINE s1 == str[u]
           s2 == str[w]
           joined == [s1 EXCEPT !.len = s1.len + s2.len]
<1>1. ViewOK(s1) /\ ViewOK(s2)
  BY DEF ArenaInv
<1>2. s1.len > 0 /\ s2.len > 0 /\ s1.len + s2.len \in Offsets
  BY <1>1, ArenaAssumption DEF ConcatTexts, ViewOK, View, Offsets
<1>3. joined.page = s1.page /\ joined.off = s1.off /\ joined.len = s1.len + s2.len
      /\ joined.arenaPage = s1.arenaPage /\ joined \in View
  BY <1>1, <1>2 DEF ViewOK, View
<1>4. /\ Content(s2) \in Seq(Chars \cup {Garbage}) /\ Len(Content(s2)) = s2.len
      /\ Content(s1) \in Seq(Chars \cup {Garbage}) /\ Len(Content(s1)) = s1.len
  BY <1>1, ContentTyped DEF ArenaInv
<1>5. CASE Adjacent(s1, s2) /\ Bind(v, a, joined) /\ UNCHANGED heap
  <2>1. ViewOK(joined)
    BY <1>1, <1>3, <1>5, ArenaAssumption DEF Adjacent, ViewOK, View, Offsets
  <2> HIDE DEF joined
  <2> QED BY <1>5, <2>1, ViewKeeps
<1>6. CASE /\ AtTail(s1, s2.len, a) /\ Bind(v, a, joined)
           /\ \E p \in Pages : \E off \in Offsets :
                Alloc(a, s2.len, p, off) /\ Copy(p, off, Content(s2))
  <2>1. PICK p \in Pages : \E off \in Offsets :
          Alloc(a, s2.len, p, off) /\ Copy(p, off, Content(s2))
    BY <1>6
  <2>2. PICK off \in Offsets : Alloc(a, s2.len, p, off) /\ Copy(p, off, Content(s2))
    BY <2>1
  <2>3. s2.len \in Offsets
    BY <1>1 DEF ViewOK, View
  <2>4. HeapOK' /\ off + s2.len <= MaxLen /\ \A b \in Arenas : Alive(b) => Alive(b)'
    BY <2>2, <2>3, HeapFromInv, AllocKeeps
  <2>5. off = s1.off + s1.len
    BY <1>6, <2>2 DEF AtTail, Alloc
  <2>6. ViewOK(joined)
    <3>1. s1.page = s1.arenaPage /\ s1.page # Static
      BY <1>1, <1>6, ArenaAssumption DEF AtTail, ViewOK, View
    <3>2. s1.off \in Nat /\ s1.len \in Nat /\ s2.len \in Nat
      BY <1>1, ArenaAssumption DEF ViewOK, View, Offsets
    <3>3. joined.off + joined.len <= MaxLen
      BY <1>3, <2>4, <2>5, <3>2, ArenaAssumption
    <3> HIDE DEF joined
    <3> QED BY <1>3, <3>1, <3>3 DEF ViewOK
  <2>7. mem' \in [Pages -> [1 .. MaxLen -> Chars \cup {Garbage}]]
    BY <2>2, <1>4, CopyTyped DEF ArenaInv
  <2> HIDE DEF joined
  <2> QED BY <1>6, <2>4, <2>6, <2>7, Bound
<1>7. CASE Place(v, a, Content(s1) \o Content(s2))
  <2> DEFINE text == Content(s1) \o Content(s2)
  <2>1. text \in Seq(Chars \cup {Garbage}) /\ Len(text) = s1.len + s2.len
    BY <1>4
  <2> HIDE DEF text
  <2>2. Place(v, a, text)
    BY <1>7 DEF text
  <2> QED BY <1>2, <2>1, <2>2, PlaceKeeps
<1> QED BY <1>5, <1>6, <1>7 DEF ConcatTexts

LEMMA ConcatKeeps ==
    ASSUME ArenaInv, NEW v \in Vars, NEW u \in Vars, NEW w \in Vars, NEW a \in Arenas,
           Concat(v, u, w, a)
    PROVE  ArenaInv'
BY ConcatEmptyKeeps, ConcatTextsKeeps DEF Concat

LEMMA AdvanceKeeps ==
    ASSUME ArenaInv, NEW v \in Vars, NEW n \in Offsets, Advance(v, n)
    PROVE  ArenaInv'
<1> DEFINE s == [str[v] EXCEPT !.off = @ + n, !.len = @ - n]
<1>1. ViewOK(str[v]) /\ scope[v] \in Arenas /\ n <= str[v].len
  BY DEF ArenaInv, Typed, Advance
<1>2. s.page = str[v].page /\ s.off = str[v].off + n /\ s.len = str[v].len - n
      /\ s.arenaPage = str[v].arenaPage
  BY <1>1 DEF ViewOK, View
<1>3. s.off \in Offsets /\ s.len \in Offsets
  BY <1>1, <1>2, ArenaAssumption DEF ViewOK, View, Offsets
<1>4. s \in View
  BY <1>1, <1>2, <1>3 DEF ViewOK, View
<1>5. s.off + s.len = str[v].off + str[v].len
  BY <1>1, <1>2, ArenaAssumption DEF ViewOK, View, Offsets
<1>6. ViewOK(s)
  <2> HIDE DEF s
  <2> QED BY <1>1, <1>2, <1>4, <1>5 DEF ViewOK
<1>7. Bind(v, scope[v], s)
  BY DEF Advance, Bind, ArenaInv, Typed
<1>8. UNCHANGED heap /\ UNCHANGED vec
  BY DEF Advance
<1> HIDE DEF s
<1> QED BY <1>1, <1>6, <1>7, <1>8, ViewKeeps

LEMMA PopStrKeeps ==
    ASSUME ArenaInv, NEW v \in Vars, NEW u \in Vars, NEW from \in Offsets, NEW len \in Offsets,
           PopStr(v, u, from, len)
    PROVE  ArenaInv'
<1> DEFINE s == [page |-> str[u].page, off |-> str[u].off + from, len |-> len, arenaPage |-> Null]
<1>1. ViewOK(str[u]) /\ scope[u] \in Arenas /\ from + len <= str[u].len
  BY DEF ArenaInv, Typed, PopStr
<1>2. str[u].page \in Pages \cup {Static} /\ str[u].off \in Offsets /\ str[u].len \in Offsets
  BY <1>1 DEF ViewOK, View
<1>3. s.off \in Offsets /\ s.off + s.len <= str[u].off + str[u].len
  BY <1>1, <1>2, ArenaAssumption DEF Offsets, ViewOK
<1>4. ViewOK(s)
  BY <1>1, <1>2, <1>3, ArenaAssumption DEF ViewOK, View, Offsets
<1>5. Bind(v, scope[u], s) /\ UNCHANGED heap /\ UNCHANGED vec
  BY DEF PopStr
<1> HIDE DEF s
<1> QED BY <1>1, <1>4, <1>5, ViewKeeps

\* Variables go out of scope, all or one.
LEMMA EmptyView == ViewOK(Empty)
BY ArenaAssumption DEF ViewOK, View, Empty, Offsets

LEMMA LeaveKeeps ==
    ASSUME ArenaInv, NEW v \in Vars, Leave(v)
    PROVE  ArenaInv'
<1>1. UNCHANGED heap /\ UNCHANGED vec
  BY DEF Leave
<1>2. str' \in [Vars -> View] /\ scope' \in [Vars -> Arenas \cup {"none"}]
      /\ \A u \in Vars : ViewOK(str'[u])
  <2>1. Empty \in View
    BY EmptyView DEF ViewOK
  <2>2. \A u \in Vars : str'[u] = IF u = v THEN Empty ELSE str[u]
    BY DEF Leave, ArenaInv, Typed
  <2> QED BY <2>1, <2>2, EmptyView DEF Leave, ArenaInv, Typed
<1>3. HeapOK'
  <2>1. UNCHANGED <<pages, capacity, size>>
    BY <1>1 DEF heap
  <2>2. SizesOK' /\ PagesAccounted'
    BY <2>1, HeapFromInv DEF HeapOK, SizesOK, PagesAccounted, Free, PagesOf
  <2> QED BY <2>1, <2>2, HeapFromInv DEF HeapOK
<1>4. Typed'
  BY <1>1, <1>2, <1>3 DEF ArenaInv, Typed, HeapOK, heap
<1>5. VecOK'
  BY <1>1 DEF ArenaInv, VecOK, Alive, heap
<1> QED BY <1>2, <1>3, <1>4, <1>5 DEF ArenaInv, HeapOK, ViewOK

-----------------------------------------------------------------------------
\* Vectors.
LEMMA VectorKeeps ==
    ASSUME ArenaInv, HeapOK', vec' \in Vec, VecOK', UNCHANGED <<str, scope>>,
           mem' \in [Pages -> [1 .. MaxLen -> Chars \cup {Garbage}]]
    PROVE  ArenaInv'
BY DEF ArenaInv, HeapOK, Typed, ViewOK

LEMMA NewVecKeeps ==
    ASSUME ArenaInv, NEW cap \in Capacities, NewVec(cap)
    PROVE  ArenaInv'
<1>1. cap \in Offsets /\ cap > 0 /\ "request" \in Arenas /\ Alive("request")
  BY ArenaAssumption DEF Offsets, Arenas, NewVec
<1>2. PICK p \in Pages : \E off \in Offsets :
        Alloc("request", cap, p, off) /\ vec' = [page |-> p, off |-> off, len |-> 0, cap |-> cap]
  BY DEF NewVec
<1>3. PICK off \in Offsets :
        Alloc("request", cap, p, off) /\ vec' = [page |-> p, off |-> off, len |-> 0, cap |-> cap]
  BY <1>2
<1>4. HeapOK' /\ off + cap <= MaxLen /\ Alive("request")'
  BY <1>1, <1>3, HeapFromInv, AllocKeeps
<1>5. vec' \in Vec
  BY <1>1, <1>3, ArenaAssumption DEF Vec, Offsets
<1>6. VecOK'
  BY <1>1, <1>3, <1>4, ArenaAssumption DEF VecOK, Offsets
<1>7. mem' \in [Pages -> [1 .. MaxLen -> Chars \cup {Garbage}]] /\ UNCHANGED <<str, scope>>
  BY DEF ArenaInv, Typed, NewVec
<1> QED BY <1>4, <1>5, <1>6, <1>7, VectorKeeps

LEMMA PushKeeps ==
    ASSUME ArenaInv, NEW c \in Chars, Push(c)
    PROVE  ArenaInv'
<1>1. /\ vec \in Vec /\ vec.len <= vec.cap /\ vec.off + vec.cap <= MaxLen
      /\ vec.page \in Pages /\ vec.page # Null /\ Alive("request") /\ "request" \in Arenas
  BY ArenaAssumption DEF ArenaInv, Typed, VecOK, Push, Vec, Arenas
<1>2. vec.off \in Nat /\ vec.len \in Nat /\ vec.cap \in Nat /\ vec.cap > 0
      /\ vec.off \in Offsets /\ vec.len \in Offsets
  BY <1>1, ArenaAssumption DEF Vec, Offsets, Push
<1>3. CASE vec.len = vec.cap /\ 2 * vec.cap <= MaxLen /\ Grown(c)
  <2> DEFINE text == [i \in 1 .. vec.len + 1 |->
                        IF i <= vec.len THEN mem[vec.page][vec.off + i] ELSE c]
  <2>1. PICK p \in Pages : \E off \in Offsets :
          /\ Alloc("request", 2 * vec.cap, p, off) /\ Copy(p, off, text)
          /\ vec' = [page |-> p, off |-> off, len |-> vec.len + 1, cap |-> 2 * vec.cap]
    BY <1>3 DEF Grown
  <2>2. PICK off \in Offsets :
          /\ Alloc("request", 2 * vec.cap, p, off) /\ Copy(p, off, text)
          /\ vec' = [page |-> p, off |-> off, len |-> vec.len + 1, cap |-> 2 * vec.cap]
    BY <2>1
  <2>3. 2 * vec.cap \in Offsets /\ vec.len + 1 \in Offsets /\ vec.len + 1 <= 2 * vec.cap
    BY <1>2, <1>3, ArenaAssumption DEF Offsets
  <2>4. HeapOK' /\ off + 2 * vec.cap <= MaxLen /\ Alive("request")'
    BY <1>1, <2>2, <2>3, HeapFromInv, AllocKeeps
  <2>5. text \in Seq(Chars \cup {Garbage})
    <3>1. \A i \in 1 .. vec.len : vec.off + i \in 1 .. MaxLen
      BY <1>1, <1>2, ArenaAssumption
    <3>2. mem[vec.page] \in [1 .. MaxLen -> Chars \cup {Garbage}]
      BY <1>1 DEF ArenaInv, Typed
    <3>3. ASSUME NEW i \in 1 .. vec.len + 1
          PROVE  (IF i <= vec.len THEN mem[vec.page][vec.off + i] ELSE c) \in Chars \cup {Garbage}
      <4>1. CASE i <= vec.len
        <5>1. i \in 1 .. vec.len
          BY <1>2, <3>3, <4>1
        <5>2. vec.off + i \in 1 .. MaxLen
          BY <3>1, <5>1
        <5> QED BY <3>2, <4>1, <5>2
      <4>2. CASE ~(i <= vec.len)
        BY <4>2
      <4> QED BY <4>1, <4>2
    <3>4. text \in [1 .. vec.len + 1 -> Chars \cup {Garbage}]
      BY <3>3
    <3>5. vec.len + 1 \in Nat
      BY <1>2
    <3> HIDE DEF text
    <3> QED BY <3>4, <3>5
  <2> HIDE DEF text
  <2>6. mem' \in [Pages -> [1 .. MaxLen -> Chars \cup {Garbage}]]
    BY <2>2, <2>5, CopyTyped DEF ArenaInv
  <2>7. vec' \in Vec
    BY <2>2, <2>3 DEF Vec
  <2>8. VecOK'
    BY <1>2, <2>2, <2>3, <2>4, ArenaAssumption DEF VecOK
  <2> QED BY <2>4, <2>6, <2>7, <2>8, VectorKeeps DEF Push
<1>4. CASE /\ vec.len < vec.cap /\ Copy(vec.page, vec.off + vec.len, <<c>>)
           /\ vec' = [vec EXCEPT !.len = @ + 1] /\ UNCHANGED <<pages, capacity, size>>
  <2>1. vec.off + vec.len \in Offsets /\ vec.len + 1 \in Offsets
    BY <1>1, <1>2, <1>4, ArenaAssumption DEF Offsets
  <2>2. <<c>> \in Seq(Chars \cup {Garbage})
    OBVIOUS
  <2>3. mem' \in [Pages -> [1 .. MaxLen -> Chars \cup {Garbage}]]
    BY <1>1, <1>4, <2>1, <2>2, CopyTyped DEF ArenaInv
  <2>4. vec' \in Vec
    BY <1>1, <1>4, <2>1 DEF Vec
  <2>5. VecOK'
    <3>1. vec'.len = vec.len + 1 /\ vec'.off = vec.off /\ vec'.cap = vec.cap /\ vec'.page = vec.page
      BY <1>1, <1>4 DEF Vec
    <3>2. pages' = pages
      BY <1>4
    <3> QED BY <1>1, <1>2, <1>4, <3>1, <3>2, ArenaAssumption DEF VecOK, Alive
  <2>6. HeapOK'
    BY <1>4, HeapFromInv DEF HeapOK, SizesOK, PagesAccounted, Free, PagesOf
  <2> QED BY <2>3, <2>4, <2>5, <2>6, VectorKeeps DEF Push
<1> QED BY <1>3, <1>4 DEF Push

-----------------------------------------------------------------------------
\* Arenas.
LEMMA LeaveAllTyped ==
    ASSUME ArenaInv, LeaveAll
    PROVE  /\ str' \in [Vars -> View] /\ scope' \in [Vars -> Arenas \cup {"none"}]
           /\ (\A u \in Vars : ViewOK(str'[u]))
           /\ vec' \in Vec /\ VecOK'
<1>1. str' \in [Vars -> View] /\ \A u \in Vars : ViewOK(str'[u])
  BY EmptyView DEF LeaveAll, ArenaInv, ViewOK
<1>2. scope' \in [Vars -> Arenas \cup {"none"}]
  BY DEF LeaveAll, ArenaInv, Typed
<1>3. vec' \in Vec /\ VecOK'
  BY ArenaAssumption DEF LeaveAll, NoVec, Vec, VecOK, Offsets
<1> QED BY <1>1, <1>2, <1>3

LEMMA NewKeeps ==
    ASSUME ArenaInv, New
    PROVE  ArenaInv'
<1>1. PICK p \in Free : /\ pages' = [pages EXCEPT !["request"] = <<p>>]
                        /\ capacity' = [capacity EXCEPT ![p] = PageCapacity]
                        /\ size' = [size EXCEPT ![p] = 0]
  BY DEF New
<1>2. p \in Pages /\ p \notin PagesOf("context") /\ "request" \in Arenas /\ "context" \in Arenas
      /\ pages \in [Arenas -> Seq(Pages)]
  BY <1>1 DEF Free, Arenas, ArenaInv, Typed
<1>3. pages'["request"] = <<p>> /\ pages'["context"] = pages["context"]
      /\ pages' \in [Arenas -> Seq(Pages)]
  BY <1>1, <1>2
<1>4. PagesOf("request") = {} /\ PagesOf("request")' = {p} /\ PagesOf("context")' = PagesOf("context")
  BY <1>2, <1>3 DEF New, Alive, PagesOf
<1>5. Free' = Free \ {p}
  BY <1>4 DEF Free
<1>6. capacity' \in [Pages -> Offsets] /\ size' \in [Pages -> Offsets] /\ SizesOK'
  BY <1>1, <1>2, ArenaAssumption DEF ArenaInv, Typed, SizesOK, Offsets
<1>7. \A q \in Pages : capacity'[q] > 0 => q \notin Free'
  BY <1>1, <1>5 DEF ArenaInv, Typed, PagesAccounted
<1>8. \A a, b \in Arenas : \A i \in 1 .. Len(pages'[a]) : \A j \in 1 .. Len(pages'[b]) :
        pages'[a][i] = pages'[b][j] => a = b /\ i = j
  BY <1>2, <1>3 DEF ArenaInv, PagesAccounted, PagesOf, Arenas
<1>9. HeapOK'
  BY <1>3, <1>6, <1>7, <1>8 DEF HeapOK, PagesAccounted
<1>10. VecOK'
  BY <1>3 DEF New, ArenaInv, VecOK, Alive
<1> QED BY <1>9, <1>10 DEF New, ArenaInv, Typed, HeapOK, ViewOK

\* Freeing all pages of the short-lived arena, except the kept ones.
LEMMA ReleaseKeeps ==
    ASSUME ArenaInv, NEW kept \in Seq(Pages), LeaveAll,
           pages' = [pages EXCEPT !["request"] = kept],
           kept = <<>> \/ (Len(kept) = 1 /\ kept[1] \in PagesOf("request")),
           Released(PagesOf("request"))
    PROVE  ArenaInv'
<1>1. "request" \in Arenas /\ "context" \in Arenas /\ pages \in [Arenas -> Seq(Pages)]
  BY DEF Arenas, ArenaInv, Typed
<1>2. pages'["request"] = kept /\ pages'["context"] = pages["context"]
      /\ pages' \in [Arenas -> Seq(Pages)]
  BY <1>1
<1>3. PagesOf("context")' = PagesOf("context") /\ PagesOf("request")' \subseteq PagesOf("request")
  BY <1>2 DEF PagesOf
<1>4. Free' \subseteq Free \cup PagesOf("request")
  BY <1>3 DEF Free
<1>5. /\ capacity' = [p \in Pages |-> IF p \in PagesOf("request") \cap Free' THEN 0 ELSE capacity[p]]
      /\ size' = [p \in Pages |-> IF p \in PagesOf("request") THEN 0 ELSE size[p]]
  BY DEF Released
<1>6. capacity' \in [Pages -> Offsets] /\ size' \in [Pages -> Offsets]
  BY <1>5, ArenaAssumption DEF ArenaInv, Typed, Offsets
<1>7. SizesOK'
  <2>1. SUFFICES ASSUME NEW p \in Pages PROVE size'[p] <= capacity'[p]
    BY DEF SizesOK
  <2>2. capacity[p] \in Nat /\ size[p] \in Nat /\ size[p] <= capacity[p]
    BY ArenaAssumption DEF ArenaInv, Typed, SizesOK, Offsets
  <2> QED BY <1>5, <2>2
<1>8. \A q \in Pages : capacity'[q] > 0 => q \notin Free'
  BY <1>4, <1>5 DEF ArenaInv, PagesAccounted
<1>9. \A a, b \in Arenas : \A i \in 1 .. Len(pages'[a]) : \A j \in 1 .. Len(pages'[b]) :
        pages'[a][i] = pages'[b][j] => a = b /\ i = j
  <2>1. \A i \in 1 .. Len(pages["context"]) : \A j \in 1 .. Len(kept) :
          pages["context"][i] # kept[j]
    BY <1>1 DEF ArenaInv, PagesAccounted, PagesOf
  <2>2. \A i, j \in 1 .. Len(kept) : i = j
    OBVIOUS
  <2>3. \A i, j \in 1 .. Len(pages["context"]) :
          pages["context"][i] = pages["context"][j] => i = j
    BY <1>1 DEF ArenaInv, PagesAccounted
  <2> QED BY <1>2, <2>1, <2>2, <2>3 DEF Arenas
<1>10. mem' \in [Pages -> [1 .. MaxLen -> Chars \cup {Garbage}]]
  BY DEF Released, ArenaInv, Typed
<1>11. HeapOK'
  BY <1>2, <1>6, <1>7, <1>8, <1>9 DEF HeapOK, PagesAccounted
<1> QED BY <1>10, <1>11, LeaveAllTyped DEF ArenaInv, Typed, HeapOK, ViewOK

LEMMA ResetKeeps == ASSUME ArenaInv, Reset PROVE ArenaInv'
<1>1. HeadPage("request") \in PagesOf("request") /\ PagesOf("request") \subseteq Pages
  BY HeapFromInv, Ends DEF Reset, Arenas
<1>2. <<HeadPage("request")>> \in Seq(Pages) /\ Len(<<HeadPage("request")>>) = 1
  BY <1>1
<1> QED BY <1>1, <1>2, ReleaseKeeps DEF Reset

LEMMA FreeKeeps == ASSUME ArenaInv, FreeArena PROVE ArenaInv'
<1>1. <<>> \in Seq(Pages)
  OBVIOUS
<1>2. LeaveAll /\ Released(PagesOf("request")) /\ pages' = [pages EXCEPT !["request"] = <<>>]
  BY DEF FreeArena
<1> QED BY <1>1, <1>2, ReleaseKeeps

-----------------------------------------------------------------------------
LEMMA StepInv == ArenaInv /\ [Next]_vars => ArenaInv'
<1> SUFFICES ASSUME ArenaInv, [Next]_vars PROVE ArenaInv'
  OBVIOUS
<1>1. CASE \E v \in Vars : Make(v) \/ Leave(v)
  BY <1>1, LiteralKeeps, FromU64Keeps, FromDataKeeps, LeaveKeeps DEF Make
<1>2. CASE \E v \in Vars : \E n \in Offsets : Advance(v, n)
  BY <1>2, AdvanceKeeps
<1>3. CASE \E v, u \in Vars : \E from, len \in Offsets : PopStr(v, u, from, len)
  BY <1>3, PopStrKeeps
<1>4. CASE \E v, u, w \in Vars : \E a \in Arenas : Concat(v, u, w, a)
  BY <1>4, ConcatKeeps
<1>5. CASE \E cap \in Capacities : NewVec(cap)
  BY <1>5, NewVecKeeps
<1>6. CASE \E c \in Chars : Push(c)
  BY <1>6, PushKeeps
<1>7. CASE New \/ Reset \/ FreeArena
  BY <1>7, NewKeeps, ResetKeeps, FreeKeeps
<1>8. CASE UNCHANGED vars
  <2>1. UNCHANGED <<pages, capacity, size, mem, str, scope, vec>>
    BY <1>8 DEF vars, heap
  <2>2. Typed' /\ SizesOK'
    BY <2>1 DEF ArenaInv, Typed, SizesOK
  <2>3. VecOK' /\ PagesAccounted'
    BY <2>1 DEF ArenaInv, VecOK, PagesAccounted, Free, PagesOf, Alive
  <2> QED BY <2>1, <2>2, <2>3 DEF ArenaInv, ViewOK
<1> QED BY <1>1, <1>2, <1>3, <1>4, <1>5, <1>6, <1>7, <1>8 DEF Next

LEMMA Invariant == Spec => []ArenaInv
BY InitInv, StepInv, PTL DEF Spec

\* Views, vectors and page headers keep their types and no page is filled past
\* its capacity (Arena_Alloc, Str_Concat, Vec_Push).
THEOREM TypeCorrect == Spec => []TypeOK
<1>1. ArenaInv => TypeOK
  BY DEF ArenaInv, TypeOK
<1> QED BY <1>1, Invariant, PTL

\* No page leaks and none is in two chains, whatever is allocated, reset and freed.
THEOREM Accounted == Spec => []PagesAccounted
<1>1. ArenaInv => PagesAccounted
  BY DEF ArenaInv
<1> QED BY <1>1, Invariant, PTL

-----------------------------------------------------------------------------
(* Arena implements Strings: sharing, extension in place and the reuse of   *)
(* pages never change the text of a variable. Steps speak of views in the   *)
(* memory before and after them, so what is said of a view takes the memory *)
(* as a parameter.                                                         *)

PgsOf(pgs, a) == {pgs[a][i] : i \in 1 .. Len(pgs[a])}

\* The pages a variable of arena a may point to.
Reach(pgs, a) == PgsOf(pgs, "context") \cup (IF a = "request" THEN PgsOf(pgs, "request") ELSE {})

ContentIn(m, s) == [i \in 1 .. s.len |->
    IF s.page = Static THEN StaticText[s.off + i] ELSE m[s.page][s.off + i]]

\* A view of an arena's pages lies where blocks were handed out and filled.
Kept(s, a, pgs, sz, m) == s.page \in Pages =>
    /\ s.page \in Reach(pgs, a)
    /\ s.off + s.len <= sz[s.page]
    /\ \A i \in s.off + 1 .. s.off + s.len : m[s.page][i] \in Chars

\* It shares no memory with a vector.
Apart(s, vc) == s.page = vc.page =>
    s.off + s.len <= vc.off \/ vc.off + vc.cap <= s.off

\* The vector's block is one of the short-lived arena, its items are written.
VecKept(vc, pgs, sz, m) == vc.page # Null =>
    /\ vc.cap > 0
    /\ vc.page \in PgsOf(pgs, "request")
    /\ vc.off + vc.cap <= sz[vc.page]
    /\ \A i \in vc.off + 1 .. vc.off + vc.len : m[vc.page][i] \in Chars

TextInv ==
    /\ ArenaInv
    /\ \A v \in Vars : Kept(str[v], scope[v], pages, size, mem) /\ Apart(str[v], vec)
    /\ VecKept(vec, pages, size, mem)
-----------------------------------------------------------------------------
\* What allocation promises the views there are: pages stay where they are and
\* the block begins behind everything handed out before.
LEMMA AllocGrows ==
    ASSUME HeapOK, NEW a \in Arenas, Alive(a), NEW n \in Offsets,
           NEW p \in Pages, NEW off \in Offsets, Alloc(a, n, p, off)
    PROVE  /\ p \in PgsOf(pages', a) /\ size'[p] = off + n
           /\ \A b \in Arenas : PgsOf(pages, b) \subseteq PgsOf(pages', b)
           /\ \A b \in Arenas : \A q \in PgsOf(pages, b) :
                size[q] <= size'[q] /\ (q = p => size[q] <= off)
<1>1. \A b \in Arenas : PgsOf(pages, b) \subseteq Pages /\ PgsOf(pages, b) = PagesOf(b)
  BY DEF HeapOK, PgsOf, PagesOf
<1>2. \A q \in Pages : size[q] \in Nat
  BY ArenaAssumption DEF HeapOK, Offsets
<1>3. n \in Nat /\ off \in Nat
  BY ArenaAssumption DEF Offsets
<1>4. CASE /\ p = TailPage(a) /\ off = size[p]
           /\ size' = [size EXCEPT ![p] = off + n] /\ UNCHANGED <<pages, capacity>>
  <2>1. p \in PgsOf(pages, a)
    BY <1>1, <1>4, Ends
  <2>2. pages' = pages
    BY <1>4
  <2>3. \A q \in Pages : size'[q] = IF q = p THEN off + n ELSE size[q]
    BY <1>4 DEF HeapOK
  <2> QED BY <1>1, <1>2, <1>3, <1>4, <2>1, <2>2, <2>3
<1>5. CASE /\ p \in Free /\ off = 0
           /\ pages' = [pages EXCEPT ![a] = Chained(@, p)]
           /\ size' = [size EXCEPT ![p] = n]
  <2>1. pages[a] \in Seq(Pages) /\ pages'[a] = Append(pages[a], p)
        /\ \A b \in Arenas : b # a => pages'[b] = pages[b]
    BY <1>5 DEF HeapOK, Chained
  <2>2. Len(pages'[a]) = Len(pages[a]) + 1 /\ pages'[a][Len(pages[a]) + 1] = p
        /\ (\A i \in 1 .. Len(pages[a]) : pages'[a][i] = pages[a][i]) /\ Len(pages[a]) \in Nat
    BY <2>1
  <2>3. 1 .. Len(pages[a]) \subseteq 1 .. Len(pages'[a]) /\ Len(pages[a]) + 1 \in 1 .. Len(pages'[a])
    BY <2>2
  <2>4. PgsOf(pages, a) \subseteq PgsOf(pages', a)
    BY <2>2, <2>3 DEF PgsOf
  <2>5. p \in PgsOf(pages', a)
    BY <2>2, <2>3 DEF PgsOf
  <2>6. \A b \in Arenas : PgsOf(pages, b) \subseteq PgsOf(pages', b)
    BY <2>1, <2>4 DEF PgsOf
  <2>7. \A b \in Arenas : p \notin PgsOf(pages, b)
    BY <1>1, <1>5 DEF Free, Arenas
  <2>8. \A q \in Pages : size'[q] = IF q = p THEN n ELSE size[q]
    BY <1>5 DEF HeapOK
  <2>9. size'[p] = off + n
    BY <1>3, <1>5, <2>8
  <2>10. \A b \in Arenas : \A q \in PgsOf(pages, b) : q \in Pages /\ q # p
    BY <1>1, <2>7
  <2>11. \A b \in Arenas : \A q \in PgsOf(pages, b) :
           size[q] <= size'[q] /\ (q = p => size[q] <= off)
    BY <1>2, <2>8, <2>10
  <2> QED BY <2>5, <2>6, <2>9, <2>11
<1> QED BY <1>4, <1>5 DEF Alloc

\* Only the block is written to.
Wrote(p, off, text) ==
    /\ \A q \in Pages : \A i \in 1 .. MaxLen :
         (q # p \/ i <= off \/ i > off + Len(text)) => mem'[q][i] = mem[q][i]
    /\ \A i \in 1 .. Len(text) : off + i <= MaxLen => mem'[p][off + i] = text[i]

LEMMA CopyInside ==
    ASSUME Typed, NEW p \in Pages, NEW off \in Offsets, NEW text, Len(text) \in Nat,
           Copy(p, off, text)
    PROVE  Wrote(p, off, text)
<1>1. off \in Nat /\ MaxLen \in Nat
  BY ArenaAssumption DEF Offsets
<1>2. \A q \in Pages : q # p => mem'[q] = mem[q]
  BY DEF Copy, Typed
<1>3. mem'[p] = [i \in 1 .. MaxLen |->
                   IF i - off \in 1 .. Len(text) THEN text[i - off] ELSE mem[p][i]]
  BY DEF Copy, Typed
<1>4. ASSUME NEW i \in 1 .. MaxLen, i <= off \/ i > off + Len(text)
      PROVE  mem'[p][i] = mem[p][i]
  <2>1. i - off \notin 1 .. Len(text)
    BY <1>1, <1>4
  <2> QED BY <1>3, <2>1
<1>5. ASSUME NEW i \in 1 .. Len(text), off + i <= MaxLen
      PROVE  mem'[p][off + i] = text[i]
  <2>1. off + i \in 1 .. MaxLen /\ (off + i) - off = i
    BY <1>1, <1>5
  <2> QED BY <1>3, <2>1
<1> QED BY <1>2, <1>4, <1>5 DEF Wrote

\* A view that keeps its place shows what it showed.
LEMMA SameContent ==
    ASSUME NEW s, ViewOK(s), NEW a \in Arenas \cup {"none"}, Kept(s, a, pages, size, mem),
           s.page \in Pages => \A i \in s.off + 1 .. s.off + s.len : mem'[s.page][i] = mem[s.page][i]
    PROVE  ContentIn(mem', s) = ContentIn(mem, s)
<1>1. s.off \in Nat /\ s.len \in Nat /\ s.page \in Pages \cup {Static}
  BY ArenaAssumption DEF ViewOK, View, Offsets
<1>2. \A i \in 1 .. s.len : s.off + i \in s.off + 1 .. s.off + s.len
  BY <1>1
<1>3. \A i \in 1 .. s.len :
        (IF s.page = Static THEN StaticText[s.off + i] ELSE mem'[s.page][s.off + i]) =
        (IF s.page = Static THEN StaticText[s.off + i] ELSE mem[s.page][s.off + i])
  BY <1>1, <1>2
<1> QED BY <1>3 DEF ContentIn

\* A view of written memory shows a text.
LEMMA ContentIsText ==
    ASSUME NEW s, ViewOK(s), NEW a \in Arenas \cup {"none"}, Kept(s, a, pages, size, mem)
    PROVE  ContentIn(mem, s) \in Seq(Chars) /\ Len(ContentIn(mem, s)) = s.len
<1>1. s.off \in Nat /\ s.len \in Nat /\ s.page \in Pages \cup {Static}
  BY ArenaAssumption DEF ViewOK, View, Offsets
<1>2. ASSUME NEW i \in 1 .. s.len
      PROVE  (IF s.page = Static THEN StaticText[s.off + i] ELSE mem[s.page][s.off + i]) \in Chars
  <2>1. CASE s.page = Static
    <3>1. s.off + i \in 1 .. Len(StaticText)
      BY <1>1, <2>1, ArenaAssumption DEF ViewOK
    <3> QED BY <2>1, <3>1, ArenaAssumption
  <2>2. CASE s.page # Static
    <3>1. s.off + i \in s.off + 1 .. s.off + s.len
      BY <1>1, <1>2
    <3> QED BY <1>1, <2>2, <3>1 DEF Kept
  <2> QED BY <2>1, <2>2
<1>3. ContentIn(mem, s) \in [1 .. s.len -> Chars]
  BY <1>2 DEF ContentIn
<1> QED BY <1>1, <1>3

\* Views and the vector keep their places and texts through an allocation and what
\* is copied into the new block.
LEMMA BlockKeeps ==
    ASSUME TextInv, NEW a \in Arenas, Alive(a), NEW n \in Offsets,
           NEW p \in Pages, NEW off \in Offsets, Alloc(a, n, p, off),
           \A q \in Pages : \A i \in 1 .. MaxLen :
                (q # p \/ i <= off) => mem'[q][i] = mem[q][i]
    PROVE  /\ \A v \in Vars : /\ Kept(str[v], scope[v], pages', size', mem')
                              /\ ContentIn(mem', str[v]) = ContentIn(mem, str[v])
                              /\ str[v].page = p => str[v].off + str[v].len <= off
           /\ VecKept(vec, pages', size', mem')
           /\ vec.page # Null => \A i \in vec.off + 1 .. vec.off + vec.cap :
                                    mem'[vec.page][i] = mem[vec.page][i]
           /\ vec.page = p => vec.off + vec.cap <= off
<1>1. HeapOK /\ Typed /\ ArenaInv
  BY HeapFromInv DEF TextInv, ArenaInv
<1>2. /\ \A b \in Arenas : PgsOf(pages, b) \subseteq PgsOf(pages', b)
      /\ \A b \in Arenas : \A q \in PgsOf(pages, b) :
            size[q] <= size'[q] /\ (q = p => size[q] <= off)
  BY <1>1, AllocGrows
<1>3. /\ \A b : Reach(pages, b) \subseteq Reach(pages', b)
      /\ \A b : \A q \in Reach(pages, b) :
            size[q] <= size'[q] /\ (q = p => size[q] <= off)
  BY <1>2 DEF Reach, Arenas
<1>4. /\ \A q \in Pages : size[q] \in Nat /\ size'[q] \in Nat /\ size[q] <= MaxLen
      /\ off \in Nat /\ MaxLen \in Nat
  <2>1. HeapOK'
    BY <1>1, AllocKeeps
  <2> QED BY <1>1, <2>1, ArenaAssumption DEF HeapOK, Offsets
<1>5. ASSUME NEW v \in Vars
      PROVE  /\ Kept(str[v], scope[v], pages', size', mem')
             /\ ContentIn(mem', str[v]) = ContentIn(mem, str[v])
             /\ str[v].page = p => str[v].off + str[v].len <= off
  <2> DEFINE s == str[v]
  <2>1. ViewOK(s) /\ Kept(s, scope[v], pages, size, mem) /\ scope[v] \in Arenas \cup {"none"}
    BY <1>1 DEF TextInv, ArenaInv, Typed
  <2>2. s.off \in Nat /\ s.len \in Nat
    BY <2>1, ArenaAssumption DEF ViewOK, View, Offsets
  <2> HIDE DEF s
  <2>3. s.page = p => s.off + s.len <= off
    BY <1>3, <1>4, <2>1, <2>2 DEF Kept
  <2>4. s.page \in Pages => \A i \in s.off + 1 .. s.off + s.len : mem'[s.page][i] = mem[s.page][i]
    <3>1. SUFFICES ASSUME s.page \in Pages, NEW i \in s.off + 1 .. s.off + s.len
                   PROVE  mem'[s.page][i] = mem[s.page][i]
      OBVIOUS
    <3>2. s.off + s.len <= size[s.page]
      BY <2>1, <3>1 DEF Kept
    <3>3. i \in 1 .. MaxLen /\ (s.page = p => i <= off)
      BY <1>4, <2>2, <2>3, <3>1, <3>2
    <3> QED BY <3>1, <3>3
  <2>5. ContentIn(mem', s) = ContentIn(mem, s)
    BY <2>1, <2>4, SameContent
  <2>6. Kept(s, scope[v], pages', size', mem')
    <3>1. SUFFICES ASSUME s.page \in Pages
                   PROVE  /\ s.page \in Reach(pages', scope[v])
                          /\ s.off + s.len <= size'[s.page]
                          /\ \A i \in s.off + 1 .. s.off + s.len : mem'[s.page][i] \in Chars
      BY DEF Kept
    <3>2. s.page \in Reach(pages, scope[v]) /\ s.off + s.len <= size[s.page]
          /\ \A i \in s.off + 1 .. s.off + s.len : mem[s.page][i] \in Chars
      BY <2>1, <3>1 DEF Kept
    <3>3. s.off + s.len <= size'[s.page]
      BY <1>3, <1>4, <2>2, <3>1, <3>2
    <3> QED BY <1>3, <2>4, <3>1, <3>2, <3>3
  <2> QED BY <2>3, <2>5, <2>6 DEF s
<1>6. CASE vec.page = Null
  <2>1. p # Null
    BY ArenaAssumption
  <2> QED BY <1>5, <1>6, <2>1 DEF VecKept
<1>7. CASE vec.page # Null
  <2>1. /\ vec.page \in Pages /\ vec.off \in Nat /\ vec.len \in Nat /\ vec.cap \in Nat
        /\ vec.len <= vec.cap
    BY <1>1, <1>7, ArenaAssumption DEF Typed, Vec, Offsets, ArenaInv, VecOK
  <2>2. /\ vec.page \in PgsOf(pages, "request") /\ vec.cap > 0 /\ vec.off + vec.cap <= size[vec.page]
        /\ \A i \in vec.off + 1 .. vec.off + vec.len : mem[vec.page][i] \in Chars
    BY <1>7 DEF TextInv, VecKept
  <2>3. /\ vec.page \in PgsOf(pages', "request") /\ size[vec.page] <= size'[vec.page]
        /\ vec.page = p => size[vec.page] <= off
    BY <1>2, <2>2 DEF Arenas
  <2>4. vec.page = p => vec.off + vec.cap <= off
    BY <1>4, <2>1, <2>2, <2>3
  <2>5. ASSUME NEW i \in vec.off + 1 .. vec.off + vec.cap
        PROVE  mem'[vec.page][i] = mem[vec.page][i]
    <3>1. i \in 1 .. MaxLen /\ (vec.page = p => i <= off)
      BY <1>4, <2>1, <2>2, <2>4, <2>5
    <3> QED BY <2>1, <3>1
  <2>6. \A i \in vec.off + 1 .. vec.off + vec.len : i \in vec.off + 1 .. vec.off + vec.cap
    BY <2>1
  <2>7. vec.off + vec.cap <= size'[vec.page]
    BY <1>4, <2>1, <2>2, <2>3
  <2>8. VecKept(vec, pages', size', mem')
    BY <2>2, <2>3, <2>5, <2>6, <2>7 DEF VecKept
  <2> QED BY <1>5, <2>4, <2>5, <2>8
<1> QED BY <1>6, <1>7

-----------------------------------------------------------------------------
\* What a step leaves alone: the views there are, and the vector.
Undisturbed ==
    /\ \A v \in Vars : /\ Kept(str[v], scope[v], pages', size', mem')
                       /\ ContentIn(mem', str[v]) = ContentIn(mem, str[v])
    /\ VecKept(vec, pages', size', mem')
    /\ vec.page # Null => \A i \in vec.off + 1 .. vec.off + vec.cap :
                             mem'[vec.page][i] = mem[vec.page][i]

LEMMA HeapSame == ASSUME TextInv, UNCHANGED heap PROVE Undisturbed
BY DEF TextInv, heap, Undisturbed

LEMMA TextsIn ==
    /\ Texts = [v \in Vars |-> IF scope[v] = "none" THEN NoText ELSE ContentIn(mem, str[v])]
    /\ Texts' = [v \in Vars |-> IF scope'[v] = "none" THEN NoText ELSE ContentIn(mem', str'[v])]
BY DEF Texts, Content, ContentIn

LEMMA TextOfOne ==
    ASSUME TextInv, NEW v \in Vars
    PROVE  /\ scope[v] # "none" => Texts[v] = ContentIn(mem, str[v])
           /\ ContentIn(mem, str[v]) \in Seq(Chars) /\ Len(ContentIn(mem, str[v])) = str[v].len
           /\ scope[v] # "none" => Texts[v] # NoText
<1>1. ViewOK(str[v]) /\ Kept(str[v], scope[v], pages, size, mem) /\ scope[v] \in Arenas \cup {"none"}
  BY DEF TextInv, ArenaInv, Typed
<1>2. ContentIn(mem, str[v]) \in Seq(Chars) /\ Len(ContentIn(mem, str[v])) = str[v].len
  BY <1>1, ContentIsText
<1>3. scope[v] # "none" => Texts[v] = ContentIn(mem, str[v])
  BY TextsIn
<1> QED BY <1>2, <1>3, ArenaAssumption

LEMMA ItemsSame ==
    ASSUME TextInv, Undisturbed, UNCHANGED vec
    PROVE  Items' = Items
<1>1. CASE vec.page = Null
  BY <1>1 DEF Items
<1>2. CASE vec.page # Null
  <2>1. vec.off \in Nat /\ vec.len \in Nat /\ vec.cap \in Nat /\ vec.len <= vec.cap
    BY ArenaAssumption DEF TextInv, ArenaInv, Typed, VecOK, Vec, Offsets
  <2>2. \A i \in 1 .. vec.len : vec.off + i \in vec.off + 1 .. vec.off + vec.cap
    BY <2>1
  <2>3. \A i \in 1 .. vec.len : mem'[vec.page][vec.off + i] = mem[vec.page][vec.off + i]
    BY <1>2, <2>2 DEF Undisturbed
  <2> QED BY <1>2, <2>3 DEF Items
<1> QED BY <1>1, <1>2

\* A variable gets a view, the others keep their texts.
LEMMA Rebound ==
    ASSUME TextInv, ArenaInv', Undisturbed, UNCHANGED vec,
           NEW v \in Vars, NEW a \in Arenas, NEW s, Bind(v, a, s),
           Kept(s, a, pages', size', mem'), Apart(s, vec)
    PROVE  /\ TextInv' /\ Items' = Items
           /\ Texts' = [Texts EXCEPT ![v] = ContentIn(mem', s)]
<1>1. /\ \A u \in Vars : str'[u] = IF u = v THEN s ELSE str[u]
      /\ \A u \in Vars : scope'[u] = IF u = v THEN a ELSE scope[u]
  BY DEF Bind, TextInv, ArenaInv, Typed
<1>2. \A u \in Vars : Kept(str'[u], scope'[u], pages', size', mem') /\ Apart(str'[u], vec')
  BY <1>1 DEF TextInv, Undisturbed
<1>3. TextInv'
  BY <1>2 DEF TextInv, Undisturbed
<1>4. a # "none"
  BY DEF Arenas
<1>5. Texts' = [Texts EXCEPT ![v] = ContentIn(mem', s)]
  <2>1. \A u \in Vars :
          (IF scope'[u] = "none" THEN NoText ELSE ContentIn(mem', str'[u])) =
          IF u = v THEN ContentIn(mem', s)
          ELSE IF scope[u] = "none" THEN NoText ELSE ContentIn(mem, str[u])
    BY <1>1, <1>4 DEF Undisturbed
  <2> QED BY <2>1, TextsIn
<1> QED BY <1>3, <1>5, ItemsSame

LEMMA PlaceText ==
    ASSUME TextInv, ArenaInv', NEW v \in Vars, NEW a \in Arenas, Alive(a), NEW text,
           text \in Seq(Chars), Len(text) \in Offsets, UNCHANGED vec,
           NEW p \in Pages, NEW off \in Offsets, NEW page \in Pages \cup {Null},
           Alloc(a, Len(text), p, off), Copy(p, off, text),
           Bind(v, a, [page |-> p, off |-> off, len |-> Len(text), arenaPage |-> page])
    PROVE  TextInv' /\ Items' = Items /\ Texts' = [Texts EXCEPT ![v] = text]
<1> DEFINE s == [page |-> p, off |-> off, len |-> Len(text), arenaPage |-> page]
<1>1. HeapOK /\ Typed /\ Len(text) \in Nat /\ off \in Nat /\ MaxLen \in Nat /\ p # Null /\ p # Static
  BY HeapFromInv, ArenaAssumption DEF TextInv, ArenaInv, Offsets
<1>2. Wrote(p, off, text)
  BY <1>1, CopyInside
<1>3. Undisturbed /\ (vec.page = p => vec.off + vec.cap <= off)
  <2>1. \A q \in Pages : \A i \in 1 .. MaxLen : (q # p \/ i <= off) => mem'[q][i] = mem[q][i]
    BY <1>2 DEF Wrote
  <2> QED BY <2>1, BlockKeeps DEF Undisturbed
<1>4. p \in PgsOf(pages', a) /\ size'[p] = off + Len(text)
  BY <1>1, AllocGrows
<1>5. off + Len(text) <= MaxLen
  BY <1>1, AllocKeeps
<1>6. \A i \in 1 .. Len(text) : mem'[p][off + i] = text[i]
  BY <1>1, <1>2, <1>5 DEF Wrote
<1>7. Apart(s, vec)
  BY <1>3 DEF Apart
<1>8. Kept(s, a, pages', size', mem')
  <2>1. p \in Reach(pages', a)
    BY <1>4 DEF Reach, Arenas
  <2>2. ASSUME NEW i \in off + 1 .. off + Len(text)
        PROVE  mem'[p][i] \in Chars
    <3>1. i - off \in 1 .. Len(text) /\ off + (i - off) = i
      BY <1>1, <2>2
    <3> QED BY <1>6, <3>1
  <2>3. size'[p] >= off + Len(text)
    BY <1>1, <1>4
  <2> QED BY <1>4, <1>1, <2>1, <2>2, <2>3 DEF Kept
<1>9. ContentIn(mem', s) = text
  <2>1. ContentIn(mem', s) = [i \in 1 .. Len(text) |-> mem'[p][off + i]]
    BY <1>1 DEF ContentIn
  <2>2. text = [i \in 1 .. Len(text) |-> text[i]]
    OBVIOUS
  <2> QED BY <1>6, <2>1, <2>2
<1> HIDE DEF s
<1>10. Bind(v, a, s)
  BY DEF s
<1> QED BY <1>3, <1>7, <1>8, <1>9, <1>10, Rebound

-----------------------------------------------------------------------------
\* A text is the concatenation of its two parts.
LEMMA Joined ==
    ASSUME NEW t1 \in Seq(Chars), NEW t2 \in Seq(Chars), NEW t \in Seq(Chars),
           Len(t) = Len(t1) + Len(t2),
           \A i \in 1 .. Len(t1) : t[i] = t1[i],
           \A i \in 1 .. Len(t2) : t[Len(t1) + i] = t2[i]
    PROVE  t = t1 \o t2
<1>1. Len(t1 \o t2) = Len(t1) + Len(t2) /\ t1 \o t2 \in Seq(Chars)
  OBVIOUS
<1>2. ASSUME NEW i \in 1 .. Len(t)
      PROVE  t[i] = (t1 \o t2)[i]
  <2>1. Len(t1) \in Nat /\ Len(t2) \in Nat
    OBVIOUS
  <2>2. CASE i <= Len(t1)
    <3>1. i \in 1 .. Len(t1)
      BY <1>2, <2>1, <2>2
    <3> QED BY <3>1
  <2>3. CASE i > Len(t1)
    <3>1. i - Len(t1) \in 1 .. Len(t2) /\ Len(t1) + (i - Len(t1)) = i
      BY <1>2, <2>1, <2>3
    <3>2. (t1 \o t2)[i] = t2[i - Len(t1)]
      BY <1>2, <2>1, <2>3
    <3> QED BY <3>1, <3>2
  <2> QED BY <2>1, <2>2, <2>3
<1> DEFINE c == t1 \o t2
<1>3. c \in Seq(Chars) /\ Len(c) = Len(t) /\ \A i \in 1 .. Len(t) : t[i] = c[i]
  BY <1>1, <1>2
<1> HIDE DEF c
<1>4. t = [i \in 1 .. Len(t) |-> t[i]] /\ c = [i \in 1 .. Len(c) |-> c[i]]
  BY <1>3
<1>5. t = c
  BY <1>3, <1>4
<1> QED BY <1>5 DEF c

\* An action gives one variable a text and changes nothing else.
Gives(v, text) == TextInv' /\ Items' = Items /\ Texts' = [Texts EXCEPT ![v] = text]

\* A view of memory that stays is bound.
LEMMA ViewGives ==
    ASSUME TextInv, ArenaInv', NEW v \in Vars, NEW a \in Arenas, NEW s, Bind(v, a, s),
           UNCHANGED heap, UNCHANGED vec, Kept(s, a, pages, size, mem), Apart(s, vec)
    PROVE  Gives(v, ContentIn(mem, s))
<1>1. Undisturbed
  BY HeapSame
<1>2. UNCHANGED <<pages, capacity, size, mem>>
  BY DEF heap
<1>3. Kept(s, a, pages', size', mem')
  BY <1>2
<1>4. /\ TextInv' /\ Items' = Items
      /\ Texts' = [Texts EXCEPT ![v] = ContentIn(mem', s)]
  BY <1>1, <1>3, Rebound
<1> QED BY <1>2, <1>4 DEF Gives

\* What a variable of one arena shows, another may show that does not outlive it.
LEMMA Shareable ==
    ASSUME TextInv, NEW u \in Vars, NEW a \in Arenas, Usable(u, a)
    PROVE  Kept(str[u], a, pages, size, mem) /\ Apart(str[u], vec)
<1>1. scope[u] \in Arenas /\ Kept(str[u], scope[u], pages, size, mem) /\ Apart(str[u], vec)
  BY DEF TextInv, ArenaInv, Typed, Usable
<1>2. Reach(pages, scope[u]) \subseteq Reach(pages, a)
  BY <1>1 DEF Usable, Reach, Arenas
<1> QED BY <1>1, <1>2 DEF Kept

LEMMA LiteralGives ==
    ASSUME TextInv, NEW v \in Vars, NEW off \in 0 .. Len(StaticText),
           NEW len \in 0 .. Len(StaticText), Literal(v, off, len)
    PROVE  \E text \in Seq(Chars) : Gives(v, text)
<1> DEFINE s == [page |-> Static, off |-> off, len |-> len, arenaPage |-> Null]
<1>1. ViewOK(s)
  BY ArenaAssumption DEF Literal, ViewOK, View, Offsets
<1>2. Kept(s, "context", pages, size, mem) /\ Apart(s, vec)
  <2>1. vec.page # Static
    BY ArenaAssumption DEF TextInv, ArenaInv, Typed, Vec
  <2> QED BY <2>1, ArenaAssumption DEF Kept, Apart
<1>3. ContentIn(mem, s) \in Seq(Chars)
  <2> HIDE DEF s
  <2>1. "context" \in Arenas \cup {"none"}
    BY DEF Arenas
  <2> QED BY <1>1, <1>2, <2>1, ContentIsText
<1>4. ArenaInv'
  BY LiteralKeeps DEF TextInv
<1>5. Bind(v, "context", s) /\ UNCHANGED heap /\ UNCHANGED vec /\ "context" \in Arenas
  BY DEF Literal, Arenas
<1> HIDE DEF s
<1>6. Gives(v, ContentIn(mem, s))
  BY <1>2, <1>4, <1>5, ViewGives
<1> QED BY <1>3, <1>6

LEMMA CharIsText == ASSUME NEW c \in Chars PROVE <<c>> \in Seq(Chars) /\ Len(<<c>>) = 1 /\ 1 \in Offsets
BY ArenaAssumption DEF Offsets

LEMMA FromU64Gives ==
    ASSUME TextInv, NEW v \in Vars, NEW a \in Arenas, NEW c \in Digits, FromU64(v, a, c)
    PROVE  \E text \in Seq(Chars) : Gives(v, text)
<1>1. <<c>> \in Seq(Chars) /\ Len(<<c>>) \in Offsets
  BY CharIsText, ArenaAssumption
<1>2. ArenaInv'
  BY FromU64Keeps DEF TextInv
<1>3. PICK p \in Pages : \E off \in Offsets :
        /\ Alloc(a, Len(<<c>>), p, off) /\ Copy(p, off, <<c>>)
        /\ Bind(v, a, [page |-> p, off |-> off, len |-> Len(<<c>>), arenaPage |-> p])
  BY DEF FromU64, Place
<1>4. Gives(v, <<c>>)
  BY <1>1, <1>2, <1>3, PlaceText DEF FromU64, Gives
<1> QED BY <1>1, <1>4

LEMMA FromDataGives ==
    ASSUME TextInv, NEW v \in Vars, NEW a \in Arenas, NEW c \in Chars, FromData(v, a, c)
    PROVE  \E text \in Seq(Chars) : Gives(v, text)
<1>1. <<c>> \in Seq(Chars) /\ Len(<<c>>) \in Offsets /\ Len(<<c>>) = 1
  BY CharIsText
<1>2. ArenaInv'
  BY FromDataKeeps DEF TextInv
<1>3. PICK p \in Pages : \E off \in Offsets :
        /\ Alloc(a, Len(<<c>>), p, off) /\ Copy(p, off, <<c>>)
        /\ Bind(v, a, [page |-> p, off |-> off, len |-> Len(<<c>>), arenaPage |-> Null])
  BY <1>1 DEF FromData
<1>4. Gives(v, <<c>>)
  BY <1>1, <1>2, <1>3, PlaceText DEF FromData, Gives
<1> QED BY <1>1, <1>4

LEMMA AdvanceGives ==
    ASSUME TextInv, NEW v \in Vars, NEW n \in Offsets, Advance(v, n)
    PROVE  /\ Gives(v, SubSeq(Texts[v], n + 1, Len(Texts[v])))
           /\ Texts[v] # NoText /\ Texts[v] \in Seq(Chars) /\ n \in 0 .. Len(Texts[v])
<1> DEFINE old == str[v]
           s == [str[v] EXCEPT !.off = @ + n, !.len = @ - n]
<1>1. /\ ViewOK(old) /\ scope[v] \in Arenas /\ n <= old.len
      /\ Kept(old, scope[v], pages, size, mem) /\ Apart(old, vec)
  BY DEF TextInv, ArenaInv, Typed, Advance
<1>2. s.page = old.page /\ s.off = old.off + n /\ s.len = old.len - n
  BY <1>1 DEF ViewOK, View
<1>3. /\ old.off \in Nat /\ old.len \in Nat /\ n \in Nat /\ vec.off \in Nat /\ vec.cap \in Nat
  BY <1>1, ArenaAssumption DEF ViewOK, View, Offsets, TextInv, ArenaInv, Typed, Vec
<1>4. Bind(v, scope[v], s) /\ UNCHANGED heap /\ UNCHANGED vec
  BY DEF Advance, Bind, TextInv, ArenaInv, Typed
<1>5. ArenaInv'
  BY AdvanceKeeps DEF TextInv
<1>6. Texts[v] = ContentIn(mem, old) /\ Texts[v] \in Seq(Chars) /\ Len(Texts[v]) = old.len
      /\ Texts[v] # NoText
  BY TextOfOne DEF Advance
<1> HIDE DEF old, s
<1>7. Kept(s, scope[v], pages, size, mem)
  <2>1. \A i \in s.off + 1 .. s.off + s.len : i \in old.off + 1 .. old.off + old.len
    BY <1>1, <1>2, <1>3
  <2>2. s.off + s.len = old.off + old.len
    BY <1>1, <1>2, <1>3
  <2> QED BY <1>1, <1>2, <2>1, <2>2 DEF Kept
<1>8. Apart(s, vec)
  BY <1>1, <1>2, <1>3 DEF Apart
<1>9. Gives(v, ContentIn(mem, s))
  BY <1>1, <1>4, <1>5, <1>7, <1>8, ViewGives
<1>10. ContentIn(mem, s) = SubSeq(Texts[v], n + 1, Len(Texts[v]))
  <2>1. ASSUME NEW i \in 1 .. s.len
        PROVE  (IF s.page = Static THEN StaticText[s.off + i] ELSE mem[s.page][s.off + i])
               = ContentIn(mem, old)[n + i]
    <3>1. n + i \in 1 .. old.len /\ s.off + i = old.off + (n + i)
      BY <1>1, <1>2, <1>3, <2>1
    <3> QED BY <1>2, <3>1 DEF ContentIn
  <2>2. SubSeq(Texts[v], n + 1, Len(Texts[v])) = [i \in 1 .. s.len |-> Texts[v][n + i]]
    BY <1>1, <1>2, <1>3, <1>6
  <2>3. ContentIn(mem, s) = [i \in 1 .. s.len |-> Texts[v][n + i]]
    BY <1>6, <2>1 DEF ContentIn
  <2> QED BY <2>2, <2>3
<1> QED BY <1>1, <1>3, <1>6, <1>9, <1>10

LEMMA PopStrGives ==
    ASSUME TextInv, NEW v \in Vars, NEW u \in Vars, NEW from \in Offsets, NEW len \in Offsets,
           PopStr(v, u, from, len)
    PROVE  /\ Gives(v, SubSeq(Texts[u], from + 1, from + len))
           /\ Texts[u] # NoText /\ Texts[u] \in Seq(Chars)
           /\ from \in Nat /\ len \in Nat /\ from + len <= Len(Texts[u])
<1> DEFINE old == str[u]
           s == [page |-> str[u].page, off |-> str[u].off + from, len |-> len, arenaPage |-> Null]
<1>1. /\ ViewOK(old) /\ scope[u] \in Arenas /\ from + len <= old.len
      /\ Kept(old, scope[u], pages, size, mem) /\ Apart(old, vec)
  BY DEF TextInv, ArenaInv, Typed, PopStr
<1>2. s.page = old.page /\ s.off = old.off + from /\ s.len = len
  OBVIOUS
<1>3. /\ old.off \in Nat /\ old.len \in Nat /\ from \in Nat /\ len \in Nat
      /\ vec.off \in Nat /\ vec.cap \in Nat
  BY <1>1, ArenaAssumption DEF ViewOK, View, Offsets, TextInv, ArenaInv, Typed, Vec
<1>4. Bind(v, scope[u], s) /\ UNCHANGED heap /\ UNCHANGED vec
  BY DEF PopStr
<1>5. ArenaInv'
  BY PopStrKeeps DEF TextInv
<1>6. Texts[u] = ContentIn(mem, old) /\ Texts[u] \in Seq(Chars) /\ Len(Texts[u]) = old.len
      /\ Texts[u] # NoText
  BY TextOfOne DEF PopStr
<1> HIDE DEF old, s
<1>7. Kept(s, scope[u], pages, size, mem)
  <2>1. \A i \in s.off + 1 .. s.off + s.len : i \in old.off + 1 .. old.off + old.len
    BY <1>1, <1>2, <1>3
  <2>2. s.off + s.len <= old.off + old.len
    BY <1>1, <1>2, <1>3
  <2>3. old.page \in Pages => size[old.page] \in Nat
    BY ArenaAssumption DEF TextInv, ArenaInv, Typed, Offsets
  <2> QED BY <1>1, <1>2, <1>3, <2>1, <2>2, <2>3 DEF Kept
<1>8. Apart(s, vec)
  BY <1>1, <1>2, <1>3 DEF Apart
<1>9. Gives(v, ContentIn(mem, s))
  BY <1>1, <1>4, <1>5, <1>7, <1>8, ViewGives
<1>10. ContentIn(mem, s) = SubSeq(Texts[u], from + 1, from + len)
  <2>1. ASSUME NEW i \in 1 .. s.len
        PROVE  (IF s.page = Static THEN StaticText[s.off + i] ELSE mem[s.page][s.off + i])
               = ContentIn(mem, old)[from + i]
    <3>1. from + i \in 1 .. old.len /\ s.off + i = old.off + (from + i)
      BY <1>1, <1>2, <1>3, <2>1
    <3> QED BY <1>2, <3>1 DEF ContentIn
  <2>2. SubSeq(Texts[u], from + 1, from + len) = [i \in 1 .. len |-> Texts[u][from + i]]
    BY <1>1, <1>3, <1>6
  <2>3. ContentIn(mem, s) = [i \in 1 .. s.len |-> Texts[u][from + i]]
    BY <1>6, <2>1 DEF ContentIn
  <2> QED BY <1>2, <2>2, <2>3
<1> QED BY <1>1, <1>3, <1>6, <1>9, <1>10

-----------------------------------------------------------------------------
\* Str_Concat.
LEMMA ContentSame == ASSUME NEW s PROVE Content(s) = ContentIn(mem, s)
BY DEF Content, ContentIn

LEMMA EmptyShared == Kept(Empty, "request", pages, size, mem) /\ Kept(Empty, "context", pages, size, mem)
BY ArenaAssumption DEF Kept, Empty

LEMMA EmptyApart == TextInv => Apart(Empty, vec)
BY ArenaAssumption DEF TextInv, ArenaInv, Typed, Vec, Apart, Empty

LEMMA ConcatEmptyGives ==
    ASSUME TextInv, ArenaInv', NEW v \in Vars, NEW u \in Vars, NEW w \in Vars, NEW a \in Arenas,
           Alive(a), Usable(u, a), Usable(w, a), ConcatEmpty(v, u, w, a), UNCHANGED vec
    PROVE  Gives(v, Texts[u] \o Texts[w])
<1> DEFINE s == IF str[w].len = 0 THEN str[u] ELSE str[w]
<1>1. /\ Texts[u] = ContentIn(mem, str[u]) /\ Texts[u] \in Seq(Chars) /\ Len(Texts[u]) = str[u].len
      /\ Texts[w] = ContentIn(mem, str[w]) /\ Texts[w] \in Seq(Chars) /\ Len(Texts[w]) = str[w].len
  BY TextOfOne DEF Usable
<1>2. ContentIn(mem, s) = Texts[u] \o Texts[w] /\ ContentIn(mem, s) \in Seq(Chars)
      /\ Len(ContentIn(mem, s)) = s.len
  <2>1. CASE str[w].len = 0
    <3>1. Texts[w] = <<>>
      BY <1>1, <2>1
    <3> QED BY <1>1, <2>1, <3>1
  <2>2. CASE str[w].len # 0
    <3>1. Texts[u] = <<>>
      BY <1>1, <2>2 DEF ConcatEmpty
    <3> QED BY <1>1, <2>2, <3>1
  <2> QED BY <2>1, <2>2
<1>3. Kept(s, a, pages, size, mem) /\ Apart(s, vec) /\ s.len \in Offsets
  BY Shareable DEF TextInv, ArenaInv, ViewOK, View
<1>4. \/ s.len = 0 /\ Bind(v, a, Empty) /\ UNCHANGED heap
      \/ Bind(v, a, s) /\ UNCHANGED heap
      \/ Place(v, a, Content(s))
  BY DEF ConcatEmpty
<1> HIDE DEF s
<1>5. CASE s.len = 0 /\ Bind(v, a, Empty) /\ UNCHANGED heap
  <2>1. Kept(Empty, a, pages, size, mem) /\ Apart(Empty, vec)
    BY EmptyShared, EmptyApart DEF Arenas
  <2>2. Gives(v, ContentIn(mem, Empty))
    BY <1>5, <2>1, ViewGives
  <2>3. ContentIn(mem, Empty) = <<>> /\ ContentIn(mem, s) = <<>>
    BY <1>2, <1>5 DEF ContentIn, Empty
  <2> QED BY <1>2, <2>2, <2>3
<1>6. CASE Bind(v, a, s) /\ UNCHANGED heap
  BY <1>2, <1>3, <1>6, ViewGives
<1>7. CASE Place(v, a, Content(s))
  <2> DEFINE text == ContentIn(mem, s)
  <2>1. text \in Seq(Chars) /\ Len(text) \in Offsets
    BY <1>2, <1>3
  <2> HIDE DEF text
  <2>2. PICK p \in Pages : \E off \in Offsets :
          /\ Alloc(a, Len(text), p, off) /\ Copy(p, off, text)
          /\ Bind(v, a, [page |-> p, off |-> off, len |-> Len(text), arenaPage |-> p])
    BY <1>7, ContentSame DEF Place, text
  <2>3. Gives(v, text)
    BY <2>1, <2>2, PlaceText DEF Gives
  <2> QED BY <1>2, <2>3 DEF text
<1> QED BY <1>4, <1>5, <1>6, <1>7

LEMMA ConcatTextsGives ==
    ASSUME TextInv, ArenaInv', NEW v \in Vars, NEW u \in Vars, NEW w \in Vars, NEW a \in Arenas,
           Alive(a), Usable(u, a), Usable(w, a), ConcatTexts(v, u, w, a), UNCHANGED vec
    PROVE  Gives(v, Texts[u] \o Texts[w])
<1> DEFINE s1 == str[u]
           s2 == str[w]
           joined == [s1 EXCEPT !.len = s1.len + s2.len]
<1>1. /\ Texts[u] = ContentIn(mem, s1) /\ Texts[u] \in Seq(Chars) /\ Len(Texts[u]) = s1.len
      /\ Texts[w] = ContentIn(mem, s2) /\ Texts[w] \in Seq(Chars) /\ Len(Texts[w]) = s2.len
  BY TextOfOne DEF Usable
<1>2. ViewOK(s1) /\ ViewOK(s2) /\ s1.len > 0 /\ s2.len > 0 /\ s1.len + s2.len <= MaxLen
  BY DEF TextInv, ArenaInv, ConcatTexts
<1>3. /\ Kept(s1, a, pages, size, mem) /\ Apart(s1, vec)
      /\ Kept(s2, a, pages, size, mem) /\ Apart(s2, vec)
  BY Shareable
<1>4. /\ s1.off \in Nat /\ s1.len \in Nat /\ s2.off \in Nat /\ s2.len \in Nat /\ s2.len \in Offsets
      /\ MaxLen \in Nat /\ s1.len + s2.len \in Offsets
      /\ vec.off \in Nat /\ vec.cap \in Nat /\ vec \in Vec
      /\ s1.page \in Pages \cup {Static} /\ s2.page \in Pages \cup {Static}
  <2>1. vec.off \in Nat /\ vec.cap \in Nat /\ vec \in Vec
    BY ArenaAssumption DEF TextInv, ArenaInv, Typed, Vec, Offsets
  <2> HIDE DEF s1, s2
  <2> QED BY <1>2, <2>1, ArenaAssumption DEF ViewOK, View, Offsets
<1>5. /\ joined.page = s1.page /\ joined.off = s1.off /\ joined.len = s1.len + s2.len
      /\ joined.arenaPage = s1.arenaPage
  BY <1>2 DEF ViewOK, View
<1>6. /\ s1.arenaPage # Null => s1.page = s1.arenaPage /\ s1.page \in Pages /\ s1.page # Null
      /\ s2.arenaPage # Null => s2.page = s2.arenaPage
  BY <1>2, ArenaAssumption DEF ViewOK, View
<1>7. vec.page # Null => vec.cap > 0
  BY DEF TextInv, VecKept
<1>8. \/ Adjacent(s1, s2) /\ Bind(v, a, joined) /\ UNCHANGED heap
      \/ /\ AtTail(s1, s2.len, a) /\ Bind(v, a, joined)
         /\ \E p \in Pages : \E off \in Offsets :
              Alloc(a, s2.len, p, off) /\ Copy(p, off, Content(s2))
      \/ Place(v, a, Content(s1) \o Content(s2))
  BY DEF ConcatTexts
<1> HIDE DEF s1, s2, joined
<1>9. CASE Adjacent(s1, s2) /\ Bind(v, a, joined) /\ UNCHANGED heap
  <2>1. s1.page = s2.page /\ s1.page \in Pages /\ s1.page # Null /\ s1.off + s1.len = s2.off
    BY <1>6, <1>9 DEF Adjacent
  <2>2. Kept(joined, a, pages, size, mem)
    <3>1. /\ s1.page \in Reach(pages, a) /\ s2.off + s2.len <= size[s1.page]
          /\ \A i \in s1.off + 1 .. s1.off + s1.len : mem[s1.page][i] \in Chars
          /\ \A i \in s2.off + 1 .. s2.off + s2.len : mem[s1.page][i] \in Chars
      BY <1>3, <2>1 DEF Kept
    <3>2. ASSUME NEW i \in joined.off + 1 .. joined.off + joined.len
          PROVE  mem[s1.page][i] \in Chars
      <4>1. i \in s1.off + 1 .. s1.off + s1.len \/ i \in s2.off + 1 .. s2.off + s2.len
        BY <1>4, <1>5, <2>1, <3>2
      <4> QED BY <3>1, <4>1
    <3>3. joined.off + joined.len = s2.off + s2.len
      BY <1>4, <1>5, <2>1
    <3> QED BY <1>5, <3>1, <3>2, <3>3 DEF Kept
  <2>3. Apart(joined, vec)
    BY <1>3, <1>4, <1>5, <1>7, <2>1 DEF Apart
  <2>4. Gives(v, ContentIn(mem, joined))
    BY <1>9, <2>2, <2>3, ViewGives
  <2>5. ContentIn(mem, joined) \in Seq(Chars) /\ Len(ContentIn(mem, joined)) = s1.len + s2.len
    <3>1. ViewOK(joined)
      <4>1. joined \in View
        BY <1>2, <1>4 DEF joined, ViewOK, View
      <4>2. joined.off + joined.len <= MaxLen
        BY <1>2, <1>4, <1>5, <2>1 DEF ViewOK
      <4>3. joined.page # Static
        BY <1>5, <2>1, ArenaAssumption
      <4> QED BY <1>5, <1>6, <4>1, <4>2, <4>3 DEF ViewOK
    <3> QED BY <1>5, <2>2, <3>1, ContentIsText
  <2>6. \A i \in 1 .. Len(Texts[u]) : ContentIn(mem, joined)[i] = Texts[u][i]
    BY <1>1, <1>4, <1>5, <2>1 DEF ContentIn
  <2>7. ASSUME NEW i \in 1 .. Len(Texts[w])
        PROVE  ContentIn(mem, joined)[Len(Texts[u]) + i] = Texts[w][i]
    <3>1. s1.len + i \in 1 .. s1.len + s2.len /\ s1.off + (s1.len + i) = s2.off + i
      BY <1>1, <1>4, <2>1, <2>7
    <3>2. s1.page # Static
      BY <2>1, ArenaAssumption
    <3>3. ContentIn(mem, joined)[s1.len + i] = mem[s1.page][s1.off + (s1.len + i)]
      BY <1>5, <3>1, <3>2 DEF ContentIn
    <3>4. i \in 1 .. s2.len
      BY <1>1, <2>7
    <3>5. ContentIn(mem, s2)[i] = mem[s1.page][s2.off + i]
      BY <2>1, <3>2, <3>4 DEF ContentIn
    <3> QED BY <1>1, <3>1, <3>3, <3>5
  <2>8. ContentIn(mem, joined) = Texts[u] \o Texts[w]
    <3>1. Len(ContentIn(mem, joined)) = Len(Texts[u]) + Len(Texts[w])
      BY <1>1, <2>5
    <3>2. \A i \in 1 .. Len(Texts[w]) : ContentIn(mem, joined)[Len(Texts[u]) + i] = Texts[w][i]
      BY <2>7
    <3> QED BY <1>1, <2>5, <2>6, <3>1, <3>2, Joined, Zenon
  <2> QED BY <2>4, <2>8
<1>10. CASE /\ AtTail(s1, s2.len, a) /\ Bind(v, a, joined)
            /\ \E p \in Pages : \E off \in Offsets :
                 Alloc(a, s2.len, p, off) /\ Copy(p, off, Content(s2))
  <2> DEFINE text == ContentIn(mem, s2)
  <2>1. PICK p \in Pages : \E off \in Offsets : Alloc(a, s2.len, p, off) /\ Copy(p, off, text)
    BY <1>10, ContentSame
  <2>2. PICK off \in Offsets : Alloc(a, s2.len, p, off) /\ Copy(p, off, text)
    BY <2>1
  <2>3. /\ s1.page = p /\ off = s1.off + s1.len /\ p # Null /\ p # Static
        /\ s1.arenaPage # Null
    BY <1>10, <2>2, ArenaAssumption DEF AtTail, Alloc
  <2>4. HeapOK /\ Typed /\ off \in Nat /\ Len(text) = s2.len
    BY <1>1, HeapFromInv, ArenaAssumption DEF TextInv, ArenaInv, Offsets
  <2>5. Wrote(p, off, text)
    <3> HIDE DEF text
    <3> QED BY <1>4, <2>2, <2>4, CopyInside
  <2>6. Undisturbed /\ (vec.page = p => vec.off + vec.cap <= off)
        /\ ContentIn(mem', s1) = ContentIn(mem, s1)
    <3>1. \A q \in Pages : \A i \in 1 .. MaxLen : (q # p \/ i <= off) => mem'[q][i] = mem[q][i]
      BY <2>5 DEF Wrote
    <3> HIDE DEF text
    <3>2. Undisturbed /\ (vec.page = p => vec.off + vec.cap <= off)
      BY <1>4, <2>2, <3>1, BlockKeeps DEF Undisturbed
    <3> QED BY <3>2 DEF Undisturbed, s1
  <2>7. p \in PgsOf(pages', a) /\ size'[p] = off + s2.len /\ off + s2.len <= MaxLen
    <3> HIDE DEF text
    <3> QED BY <1>4, <2>2, <2>4, AllocGrows, AllocKeeps
  <2>8. \A i \in 1 .. s2.len : mem'[p][off + i] = text[i]
    BY <1>4, <2>4, <2>5, <2>7 DEF Wrote
  <2>9. \A i \in 1 .. s1.len : mem'[p][s1.off + i] = Texts[u][i]
    <3>1. \A i \in 1 .. s1.len : ContentIn(mem', s1)[i] = mem'[p][s1.off + i]
      BY <2>3 DEF ContentIn
    <3> QED BY <1>1, <2>6, <3>1
  <2>10. ASSUME NEW i \in 1 .. s1.len + s2.len
         PROVE  /\ i \in 1 .. s1.len => mem'[p][s1.off + i] = Texts[u][i]
                /\ i \notin 1 .. s1.len => /\ i - s1.len \in 1 .. s2.len
                                          /\ mem'[p][s1.off + i] = Texts[w][i - s1.len]
    <3>1. CASE i \in 1 .. s1.len
      BY <2>9, <3>1
    <3>2. CASE i \notin 1 .. s1.len
      <4>1. i - s1.len \in 1 .. s2.len /\ off + (i - s1.len) = s1.off + i
        BY <1>4, <2>3, <2>10, <3>2
      <4> QED BY <1>1, <2>8, <3>2, <4>1
    <3> QED BY <3>1, <3>2
  <2>11. \A i \in 1 .. s1.len + s2.len : mem'[p][s1.off + i] \in Chars
    BY <1>1, <2>10
  <2>12. Kept(joined, a, pages', size', mem')
    <3>1. p \in Reach(pages', a)
      BY <2>7 DEF Reach, Arenas
    <3>2. ASSUME NEW i \in joined.off + 1 .. joined.off + joined.len
          PROVE  mem'[p][i] \in Chars
      <4>1. i - s1.off \in 1 .. s1.len + s2.len /\ s1.off + (i - s1.off) = i
        BY <1>4, <1>5, <3>2
      <4> QED BY <2>11, <4>1
    <3>3. joined.off + joined.len <= size'[p]
      BY <1>4, <1>5, <2>3, <2>7
    <3> QED BY <1>5, <2>3, <3>1, <3>2, <3>3 DEF Kept
  <2>13. Apart(joined, vec)
    BY <1>3, <1>4, <1>5, <1>7, <2>3, <2>6 DEF Apart
  <2>14. Gives(v, ContentIn(mem', joined))
    BY <1>10, <2>6, <2>12, <2>13, Rebound DEF Gives
  <2>15. ContentIn(mem', joined) = [i \in 1 .. s1.len + s2.len |-> mem'[p][s1.off + i]]
    BY <1>5, <2>3 DEF ContentIn
  <2>16. ContentIn(mem', joined) = Texts[u] \o Texts[w]
    <3> DEFINE t == [i \in 1 .. s1.len + s2.len |-> mem'[p][s1.off + i]]
    <3>1. t \in Seq(Chars) /\ Len(t) = s1.len + s2.len
      BY <1>4, <2>11
    <3>2. \A i \in 1 .. Len(Texts[u]) : t[i] = Texts[u][i]
      BY <1>1, <1>4, <2>9
    <3>3. ASSUME NEW i \in 1 .. Len(Texts[w])
          PROVE  t[Len(Texts[u]) + i] = Texts[w][i]
      <4>1. /\ s1.len + i \in 1 .. s1.len + s2.len /\ s1.len + i \notin 1 .. s1.len
            /\ (s1.len + i) - s1.len = i
        BY <1>1, <1>4, <3>3
      <4> QED BY <1>1, <2>10, <4>1
    <3> HIDE DEF t
    <3>4. \A i \in 1 .. Len(Texts[w]) : t[Len(Texts[u]) + i] = Texts[w][i]
      BY <3>3
    <3>5. Len(t) = Len(Texts[u]) + Len(Texts[w])
      BY <1>1, <3>1
    <3>6. t = Texts[u] \o Texts[w]
      BY <1>1, <3>1, <3>2, <3>4, <3>5, Joined, Zenon
    <3> QED BY <2>15, <3>6 DEF t
  <2> QED BY <2>14, <2>16
<1>11. CASE Place(v, a, Content(s1) \o Content(s2))
  <2> DEFINE text == Texts[u] \o Texts[w]
  <2>1. text \in Seq(Chars) /\ Len(text) \in Offsets
    BY <1>1, <1>4
  <2>2. text = Content(s1) \o Content(s2)
    BY <1>1, ContentSame
  <2> HIDE DEF text
  <2>3. PICK p \in Pages : \E off \in Offsets :
          /\ Alloc(a, Len(text), p, off) /\ Copy(p, off, text)
          /\ Bind(v, a, [page |-> p, off |-> off, len |-> Len(text), arenaPage |-> p])
    BY <1>11, <2>2 DEF Place
  <2>4. Gives(v, text)
    BY <2>1, <2>3, PlaceText DEF Gives
  <2> QED BY <2>4 DEF text
<1> QED BY <1>8, <1>9, <1>10, <1>11

-----------------------------------------------------------------------------
\* Vectors.
LEMMA TextsSame ==
    ASSUME UNCHANGED <<str, scope>>,
           \A v \in Vars : ContentIn(mem', str[v]) = ContentIn(mem, str[v])
    PROVE  Texts' = Texts
<1>1. \A v \in Vars : (IF scope'[v] = "none" THEN NoText ELSE ContentIn(mem', str'[v]))
                      = (IF scope[v] = "none" THEN NoText ELSE ContentIn(mem, str[v]))
  OBVIOUS
<1> QED BY <1>1, TextsIn

LEMMA Appended ==
    ASSUME NEW f \in Seq(Chars), NEW c \in Chars, NEW n \in Nat, Len(f) = n,
           NEW g, g = [i \in 1 .. n + 1 |-> g[i]],
           \A i \in 1 .. n : g[i] = f[i], g[n + 1] = c
    PROVE  g = Append(f, c)
<1> DEFINE h == Append(f, c)
<1>1. h \in Seq(Chars) /\ Len(h) = n + 1 /\ h[n + 1] = c /\ \A i \in 1 .. n : h[i] = f[i]
  OBVIOUS
<1> HIDE DEF h
<1>2. h = [i \in 1 .. n + 1 |-> h[i]]
  BY <1>1
<1>3. \A i \in 1 .. n + 1 : i \in 1 .. n \/ i = n + 1
  OBVIOUS
<1>4. \A i \in 1 .. n + 1 : g[i] = h[i]
  BY <1>1, <1>3
<1>5. g = h
  BY <1>2, <1>4
<1> QED BY <1>5 DEF h

LEMMA ItemsText ==
    ASSUME TextInv, vec.page # Null
    PROVE  /\ Items \in Seq(Chars) /\ Len(Items) = vec.len /\ Items # NoText
           /\ \A i \in 1 .. vec.len : Items[i] = mem[vec.page][vec.off + i]
<1>1. vec.off \in Nat /\ vec.len \in Nat
  BY ArenaAssumption DEF TextInv, ArenaInv, Typed, Vec, Offsets
<1>2. \A i \in 1 .. vec.len : mem[vec.page][vec.off + i] \in Chars
  <2>1. \A i \in 1 .. vec.len : vec.off + i \in vec.off + 1 .. vec.off + vec.len
    BY <1>1
  <2> QED BY <2>1 DEF TextInv, VecKept
<1>3. Items = [i \in 1 .. vec.len |-> mem[vec.page][vec.off + i]]
  BY DEF Items
<1>4. Items \in Seq(Chars) /\ Len(Items) = vec.len
  BY <1>1, <1>2, <1>3
<1> QED BY <1>3, <1>4, ArenaAssumption

\* An action changes the vector's items alone.
Lists(items) == TextInv' /\ Texts' = Texts /\ Items' = items

LEMMA NewVecLists ==
    ASSUME TextInv, NEW cap \in Capacities, NewVec(cap)
    PROVE  Lists(<<>>)
<1>1. cap \in Offsets /\ cap > 0 /\ cap \in Nat /\ "request" \in Arenas /\ Alive("request")
  BY ArenaAssumption DEF Offsets, Arenas, NewVec
<1>2. PICK p \in Pages : \E off \in Offsets :
        Alloc("request", cap, p, off) /\ vec' = [page |-> p, off |-> off, len |-> 0, cap |-> cap]
  BY DEF NewVec
<1>3. PICK off \in Offsets :
        Alloc("request", cap, p, off) /\ vec' = [page |-> p, off |-> off, len |-> 0, cap |-> cap]
  BY <1>2
<1>4. HeapOK /\ p # Null /\ off \in Nat
  BY HeapFromInv, ArenaAssumption DEF TextInv, Offsets
<1>5. p \in PgsOf(pages', "request") /\ size'[p] = off + cap
  BY <1>1, <1>3, <1>4, AllocGrows
<1>6. UNCHANGED <<mem, str, scope>>
  BY DEF NewVec
<1>7. \A v \in Vars : /\ Kept(str[v], scope[v], pages', size', mem')
                      /\ ContentIn(mem', str[v]) = ContentIn(mem, str[v])
                      /\ str[v].page = p => str[v].off + str[v].len <= off
  BY <1>1, <1>3, <1>6, BlockKeeps
<1>8. ArenaInv'
  BY NewVecKeeps DEF TextInv
<1>9. VecKept(vec', pages', size', mem')
  BY <1>1, <1>3, <1>4, <1>5 DEF VecKept
<1>10. \A v \in Vars : Apart(str'[v], vec')
  BY <1>3, <1>6, <1>7 DEF Apart
<1>11. TextInv'
  BY <1>6, <1>7, <1>8, <1>9, <1>10 DEF TextInv
<1>12. Items' = <<>>
  <2>1. Items' = [i \in 1 .. 0 |-> mem'[p][off + i]]
    BY <1>3, <1>4 DEF Items
  <2> QED BY <2>1
<1>13. Texts' = Texts
  BY <1>6, <1>7, TextsSame
<1> QED BY <1>11, <1>12, <1>13 DEF Lists

LEMMA PushLists ==
    ASSUME TextInv, NEW c \in Chars, Push(c)
    PROVE  Lists(Append(Items, c)) /\ Items # NoText
<1>1. /\ vec \in Vec /\ vec.len <= vec.cap /\ vec.off + vec.cap <= MaxLen /\ vec.cap > 0
      /\ vec.page \in Pages /\ vec.page # Null /\ Alive("request") /\ "request" \in Arenas
  BY ArenaAssumption DEF TextInv, ArenaInv, Typed, VecOK, Push, Vec, Arenas
<1>2. /\ vec.off \in Nat /\ vec.len \in Nat /\ vec.cap \in Nat
      /\ vec.off \in Offsets /\ vec.len \in Offsets /\ MaxLen \in Nat
  BY <1>1, ArenaAssumption DEF Vec, Offsets
<1>3. /\ Items \in Seq(Chars) /\ Len(Items) = vec.len /\ Items # NoText
      /\ \A i \in 1 .. vec.len : Items[i] = mem[vec.page][vec.off + i]
  BY <1>1, ItemsText
<1>4. ArenaInv' /\ HeapOK /\ Typed /\ UNCHANGED <<str, scope>>
  BY PushKeeps, HeapFromInv DEF TextInv, ArenaInv, Push
<1>5. CASE vec.len = vec.cap /\ 2 * vec.cap <= MaxLen /\ Grown(c)
  <2> DEFINE text == [i \in 1 .. vec.len + 1 |->
                        IF i <= vec.len THEN mem[vec.page][vec.off + i] ELSE c]
  <2>1. PICK p \in Pages : \E off \in Offsets :
          /\ Alloc("request", 2 * vec.cap, p, off) /\ Copy(p, off, text)
          /\ vec' = [page |-> p, off |-> off, len |-> vec.len + 1, cap |-> 2 * vec.cap]
    BY <1>5 DEF Grown
  <2>2. PICK off \in Offsets :
          /\ Alloc("request", 2 * vec.cap, p, off) /\ Copy(p, off, text)
          /\ vec' = [page |-> p, off |-> off, len |-> vec.len + 1, cap |-> 2 * vec.cap]
    BY <2>1
  <2>3. 2 * vec.cap \in Offsets /\ vec.len + 1 <= 2 * vec.cap /\ off \in Nat /\ p # Null
    BY <1>1, <1>2, <1>5, ArenaAssumption DEF Offsets
  <2>4. text \in Seq(Chars) /\ Len(text) = vec.len + 1 /\ text[vec.len + 1] = c
        /\ \A i \in 1 .. vec.len : text[i] = Items[i]
    <3>1. \A i \in 1 .. vec.len : i <= vec.len /\ i \in 1 .. vec.len + 1
      BY <1>2
    <3>2. \A i \in 1 .. vec.len : text[i] = Items[i]
      BY <1>3, <3>1
    <3>3. text[vec.len + 1] = c /\ vec.len + 1 \in Nat
      BY <1>2
    <3>4. \A i \in 1 .. vec.len + 1 : i \in 1 .. vec.len \/ i = vec.len + 1
      BY <1>2
    <3>5. \A i \in 1 .. vec.len + 1 : text[i] \in Chars
      BY <1>3, <3>2, <3>3, <3>4
    <3>6. text = [i \in 1 .. vec.len + 1 |-> text[i]]
      OBVIOUS
    <3> HIDE DEF text
    <3>7. text \in [1 .. vec.len + 1 -> Chars]
      BY <3>5, <3>6
    <3> QED BY <3>2, <3>3, <3>7
  <2> HIDE DEF text
  <2>5. Wrote(p, off, text)
    BY <1>4, <2>2, <2>3, <2>4, CopyInside
  <2>6. \A v \in Vars : /\ Kept(str[v], scope[v], pages', size', mem')
                        /\ ContentIn(mem', str[v]) = ContentIn(mem, str[v])
                        /\ str[v].page = p => str[v].off + str[v].len <= off
    <3>1. \A q \in Pages : \A i \in 1 .. MaxLen : (q # p \/ i <= off) => mem'[q][i] = mem[q][i]
      BY <2>5 DEF Wrote
    <3> QED BY <1>1, <2>2, <2>3, <3>1, BlockKeeps
  <2>7. p \in PgsOf(pages', "request") /\ size'[p] = off + 2 * vec.cap /\ off + 2 * vec.cap <= MaxLen
    BY <1>1, <1>4, <2>2, <2>3, AllocGrows, AllocKeeps
  <2>8. \A i \in 1 .. vec.len + 1 : mem'[p][off + i] = text[i]
    BY <1>2, <2>3, <2>4, <2>5, <2>7 DEF Wrote
  <2>9. VecKept(vec', pages', size', mem')
    <3>1. ASSUME NEW i \in off + 1 .. off + (vec.len + 1)
          PROVE  mem'[p][i] \in Chars
      <4>1. i - off \in 1 .. vec.len + 1 /\ off + (i - off) = i
        BY <1>2, <2>3, <3>1
      <4>2. text[i - off] \in Chars
        BY <2>4, <4>1
      <4> QED BY <2>8, <4>1, <4>2
    <3>2. 2 * vec.cap > 0 /\ off + 2 * vec.cap <= size'[p]
      BY <1>1, <1>2, <2>3, <2>7
    <3> QED BY <2>2, <2>7, <3>1, <3>2 DEF VecKept
  <2>10. \A v \in Vars : Apart(str'[v], vec')
    BY <1>4, <2>2, <2>6 DEF Apart
  <2>11. TextInv'
    BY <1>4, <2>6, <2>9, <2>10 DEF TextInv
  <2>12. Items' = Append(Items, c)
    <3>1. Items' = [i \in 1 .. vec.len + 1 |-> mem'[p][off + i]]
      BY <2>2, <2>3 DEF Items
    <3>2. Items' = text
      BY <2>4, <2>8, <3>1
    <3>3. /\ Items' = [i \in 1 .. vec.len + 1 |-> Items'[i]]
          /\ Items'[vec.len + 1] = c /\ \A i \in 1 .. vec.len : Items'[i] = Items[i]
      BY <2>4, <3>2
    <3> QED BY <1>2, <1>3, <3>3, Appended
  <2>13. Texts' = Texts
    BY <1>4, <2>6, TextsSame
  <2> QED BY <1>3, <2>11, <2>12, <2>13 DEF Lists
<1>6. CASE /\ vec.len < vec.cap /\ Copy(vec.page, vec.off + vec.len, <<c>>)
           /\ vec' = [vec EXCEPT !.len = @ + 1] /\ UNCHANGED <<pages, capacity, size>>
  <2> DEFINE end == vec.off + vec.len
  <2>1. end \in Offsets /\ end \in Nat /\ end + 1 <= MaxLen
    BY <1>1, <1>2, <1>6, ArenaAssumption DEF Offsets
  <2>2. Wrote(vec.page, end, <<c>>)
    BY <1>1, <1>4, <1>6, <2>1, CopyInside
  <2> HIDE DEF end
  <2>3. /\ \A q \in Pages : \A i \in 1 .. MaxLen :
             (q # vec.page \/ i # end + 1) => mem'[q][i] = mem[q][i]
        /\ mem'[vec.page][end + 1] = c
    <3>1. \A i \in 1 .. MaxLen : i # end + 1 => i <= end \/ i > end + 1
      BY <1>2, <2>1
    <3>2. Len(<<c>>) = 1 /\ <<c>>[1] = c
      OBVIOUS
    <3> QED BY <2>1, <2>2, <3>1, <3>2 DEF Wrote
  <2>4. vec'.len = vec.len + 1 /\ vec'.off = vec.off /\ vec'.cap = vec.cap /\ vec'.page = vec.page
    BY <1>1, <1>6 DEF Vec
  <2>5. ASSUME NEW v \in Vars
        PROVE  /\ Kept(str[v], scope[v], pages', size', mem')
               /\ ContentIn(mem', str[v]) = ContentIn(mem, str[v])
    <3> DEFINE s == str[v]
    <3>1. /\ ViewOK(s) /\ Kept(s, scope[v], pages, size, mem) /\ Apart(s, vec)
          /\ scope[v] \in Arenas \cup {"none"}
      BY DEF TextInv, ArenaInv, Typed
    <3>2. s.off \in Nat /\ s.len \in Nat /\ s.off + s.len <= MaxLen
      BY <3>1, ArenaAssumption DEF ViewOK, View, Offsets
    <3> HIDE DEF s
    <3>3. s.page \in Pages => \A i \in s.off + 1 .. s.off + s.len : mem'[s.page][i] = mem[s.page][i]
      <4>1. SUFFICES ASSUME s.page \in Pages, NEW i \in s.off + 1 .. s.off + s.len
                     PROVE  mem'[s.page][i] = mem[s.page][i]
        OBVIOUS
      <4>2. i \in 1 .. MaxLen
        BY <1>2, <3>2, <4>1
      <4>3. s.page = vec.page => i # end + 1
        BY <1>1, <1>2, <1>6, <3>1, <3>2, <4>1 DEF Apart, end
      <4> QED BY <2>3, <4>1, <4>2, <4>3
    <3>4. ContentIn(mem', s) = ContentIn(mem, s)
      BY <3>1, <3>3, SameContent
    <3>5. Kept(s, scope[v], pages', size', mem')
      BY <1>6, <3>1, <3>3 DEF Kept
    <3> QED BY <3>4, <3>5 DEF s
  <2>6. \A i \in 1 .. vec.len : mem'[vec.page][vec.off + i] = mem[vec.page][vec.off + i]
    <3>1. \A i \in 1 .. vec.len : vec.off + i \in 1 .. MaxLen /\ vec.off + i # end + 1
      BY <1>1, <1>2 DEF end
    <3> QED BY <1>1, <2>3, <3>1
  <2>7. VecKept(vec', pages', size', mem')
    <3>1. ASSUME NEW i \in vec.off + 1 .. vec.off + (vec.len + 1)
          PROVE  mem'[vec.page][i] \in Chars
      <4>1. CASE i = end + 1
        BY <2>3, <4>1
      <4>2. CASE i # end + 1
        <5>1. i - vec.off \in 1 .. vec.len /\ vec.off + (i - vec.off) = i
          BY <1>2, <3>1, <4>2 DEF end
        <5>2. Items[i - vec.off] \in Chars
          BY <1>3, <5>1
        <5> QED BY <1>3, <2>6, <5>1, <5>2
      <4> QED BY <4>1, <4>2
    <3>2. vec.page \in PgsOf(pages, "request") /\ vec.off + vec.cap <= size[vec.page]
      BY <1>1 DEF TextInv, VecKept
    <3> QED BY <1>1, <1>6, <2>4, <3>1, <3>2 DEF VecKept
  <2>8. \A v \in Vars : Apart(str'[v], vec')
    BY <1>4, <2>4 DEF TextInv, Apart
  <2>9. TextInv'
    BY <1>4, <2>5, <2>7, <2>8 DEF TextInv
  <2>10. Items' = Append(Items, c)
    <3>1. Items' = [i \in 1 .. vec.len + 1 |-> mem'[vec.page][vec.off + i]]
      BY <1>1, <2>4 DEF Items
    <3>2. Items' = [i \in 1 .. vec.len + 1 |-> Items'[i]]
      BY <3>1
    <3>3. \A i \in 1 .. vec.len : Items'[i] = Items[i]
      <4>1. \A i \in 1 .. vec.len : i \in 1 .. vec.len + 1
        BY <1>2
      <4> QED BY <1>3, <2>6, <3>1, <4>1
    <3>4. Items'[vec.len + 1] = c
      <4>1. vec.len + 1 \in 1 .. vec.len + 1 /\ vec.off + (vec.len + 1) = end + 1
        BY <1>2 DEF end
      <4> QED BY <2>3, <3>1, <4>1
    <3> QED BY <1>2, <1>3, <3>2, <3>3, <3>4, Appended
  <2>11. Texts' = Texts
    BY <1>4, <2>5, TextsSame
  <2> QED BY <1>3, <2>9, <2>10, <2>11 DEF Lists
<1> QED BY <1>5, <1>6 DEF Push

-----------------------------------------------------------------------------
\* The ends of variables and arenas.
LEMMA LeaveDrops ==
    ASSUME TextInv, NEW v \in Vars, Leave(v)
    PROVE  TextInv' /\ Items' = Items
           /\ Texts' = [u \in Vars |-> IF u \in {v} THEN NoText ELSE Texts[u]]
<1>1. UNCHANGED heap /\ UNCHANGED vec /\ Undisturbed
  BY HeapSame DEF Leave
<1>2. /\ \A u \in Vars : str'[u] = IF u = v THEN Empty ELSE str[u]
      /\ \A u \in Vars : scope'[u] = IF u = v THEN "none" ELSE scope[u]
  BY DEF Leave, TextInv, ArenaInv, Typed
<1>3. Apart(Empty, vec) /\ Kept(Empty, "none", pages', size', mem')
  BY EmptyApart, ArenaAssumption DEF Kept, Empty
<1>4. \A u \in Vars : Kept(str'[u], scope'[u], pages', size', mem') /\ Apart(str'[u], vec')
  BY <1>1, <1>2, <1>3 DEF Undisturbed, TextInv
<1>5. ArenaInv'
  BY LeaveKeeps DEF TextInv
<1>6. TextInv'
  BY <1>1, <1>4, <1>5 DEF TextInv, Undisturbed
<1>7. Texts' = [u \in Vars |-> IF u \in {v} THEN NoText ELSE Texts[u]]
  <2>1. \A u \in Vars : (IF scope'[u] = "none" THEN NoText ELSE ContentIn(mem', str'[u]))
          = IF u \in {v} THEN NoText
            ELSE IF scope[u] = "none" THEN NoText ELSE ContentIn(mem, str[u])
    BY <1>1, <1>2 DEF Undisturbed
  <2> QED BY <2>1, TextsIn
<1> QED BY <1>1, <1>6, <1>7, ItemsSame

Gone == {v \in Vars : scope[v] = "request"}

LEMMA ReleaseDrops ==
    ASSUME TextInv, ArenaInv', NEW kept \in Seq(Pages), LeaveAll,
           pages' = [pages EXCEPT !["request"] = kept], Released(PagesOf("request"))
    PROVE  TextInv' /\ Items' = NoText
           /\ Texts' = [u \in Vars |-> IF u \in Gone THEN NoText ELSE Texts[u]]
<1>1. /\ \A u \in Vars : str'[u] = IF scope[u] = "request" THEN Empty ELSE str[u]
      /\ \A u \in Vars : scope'[u] = IF scope[u] = "request" THEN "none" ELSE scope[u]
      /\ vec' = NoVec
  BY DEF LeaveAll
<1>2. PgsOf(pages', "context") = PgsOf(pages, "context") /\ PgsOf(pages, "context") \subseteq Pages
  BY DEF PgsOf, Arenas, TextInv, ArenaInv, Typed
<1>3. \A q \in PgsOf(pages, "context") : q \notin PagesOf("request")
  BY DEF PgsOf, PagesOf, Arenas, TextInv, ArenaInv, PagesAccounted
<1>4. \A q \in PgsOf(pages, "context") : mem'[q] = mem[q] /\ size'[q] = size[q]
  BY <1>2, <1>3 DEF Released
<1>5. Apart(Empty, NoVec) /\ Kept(Empty, "none", pages', size', mem')
  BY ArenaAssumption DEF Kept, Empty, NoVec, Apart
<1>6. ASSUME NEW u \in Vars, scope[u] # "request"
      PROVE  /\ Kept(str[u], scope[u], pages', size', mem')
             /\ ContentIn(mem', str[u]) = ContentIn(mem, str[u])
             /\ Apart(str[u], NoVec)
  <2>1. /\ ViewOK(str[u]) /\ Kept(str[u], scope[u], pages, size, mem)
        /\ scope[u] \in Arenas \cup {"none"}
    BY DEF TextInv, ArenaInv, Typed
  <2>2. Reach(pages, scope[u]) = PgsOf(pages, "context") /\ Reach(pages', scope[u]) = PgsOf(pages, "context")
    BY <1>2, <1>6 DEF Reach
  <2>3. str[u].page \in Pages => mem'[str[u].page] = mem[str[u].page] /\ size'[str[u].page] = size[str[u].page]
    BY <1>4, <2>1, <2>2 DEF Kept
  <2>4. Kept(str[u], scope[u], pages', size', mem')
    BY <2>1, <2>2, <2>3 DEF Kept
  <2>5. ContentIn(mem', str[u]) = ContentIn(mem, str[u])
    BY <2>1, <2>3, SameContent
  <2>6. Apart(str[u], NoVec)
    BY <2>1, ArenaAssumption DEF ViewOK, View, Apart, NoVec
  <2> QED BY <2>4, <2>5, <2>6
<1>7. \A u \in Vars : Kept(str'[u], scope'[u], pages', size', mem') /\ Apart(str'[u], vec')
  BY <1>1, <1>5, <1>6
<1>8. TextInv'
  BY <1>1, <1>7 DEF TextInv, VecKept, NoVec
<1>9. Items' = NoText
  BY <1>1 DEF Items, NoVec
<1>10. Texts' = [u \in Vars |-> IF u \in Gone THEN NoText ELSE Texts[u]]
  <2>1. \A u \in Vars : (IF scope'[u] = "none" THEN NoText ELSE ContentIn(mem', str'[u]))
          = IF u \in Gone THEN NoText
            ELSE IF scope[u] = "none" THEN NoText ELSE ContentIn(mem, str[u])
    BY <1>1, <1>6 DEF Gone
  <2> QED BY <2>1, TextsIn
<1> QED BY <1>8, <1>9, <1>10

LEMMA ResetDrops ==
    ASSUME TextInv, Reset
    PROVE  TextInv' /\ Items' = NoText
           /\ Texts' = [u \in Vars |-> IF u \in Gone THEN NoText ELSE Texts[u]]
<1>1. <<HeadPage("request")>> \in Seq(Pages)
  <2>1. HeadPage("request") \in Pages
    BY HeapFromInv, Ends DEF Reset, Arenas, TextInv
  <2> QED BY <2>1
<1>2. ArenaInv'
  BY ResetKeeps DEF TextInv
<1> QED BY <1>1, <1>2, ReleaseDrops DEF Reset

LEMMA FreeDrops ==
    ASSUME TextInv, FreeArena
    PROVE  TextInv' /\ Items' = NoText
           /\ Texts' = [u \in Vars |-> IF u \in Gone THEN NoText ELSE Texts[u]]
<1>1. <<>> \in Seq(Pages)
  OBVIOUS
<1>2. ArenaInv'
  BY FreeKeeps DEF TextInv
<1> QED BY <1>1, <1>2, ReleaseDrops DEF FreeArena

LEMMA NewStutters ==
    ASSUME TextInv, New
    PROVE  TextInv' /\ Items' = Items /\ Texts' = Texts
<1>1. PICK p \in Free : /\ pages' = [pages EXCEPT !["request"] = <<p>>]
                        /\ size' = [size EXCEPT ![p] = 0]
  BY DEF New
<1>2. /\ PgsOf(pages, "request") = {} /\ PgsOf(pages', "context") = PgsOf(pages, "context")
      /\ \A q \in PgsOf(pages, "context") : size'[q] = size[q]
  <2>1. p \notin PgsOf(pages, "context")
    BY <1>1 DEF Free, PgsOf, PagesOf
  <2>2. pages'["context"] = pages["context"] /\ pages["request"] = <<>>
    BY <1>1 DEF New, Alive, Arenas, TextInv, ArenaInv, Typed
  <2>3. PgsOf(pages, "context") \subseteq Pages
    BY DEF PgsOf, Arenas, TextInv, ArenaInv, Typed
  <2> QED BY <1>1, <2>1, <2>2, <2>3 DEF PgsOf, TextInv, ArenaInv, Typed
<1>3. UNCHANGED <<mem, str, scope, vec>>
  BY DEF New
<1>4. \A b : Reach(pages, b) \subseteq Reach(pages', b) /\ Reach(pages, b) = PgsOf(pages, "context")
  BY <1>2 DEF Reach
<1>5. \A v \in Vars : Kept(str[v], scope[v], pages', size', mem')
  BY <1>2, <1>3, <1>4 DEF TextInv, Kept
<1>6. vec.page = Null
  BY <1>2 DEF TextInv, VecKept
<1>7. VecKept(vec', pages', size', mem')
  BY <1>3, <1>6 DEF VecKept
<1>8. ArenaInv'
  BY NewKeeps DEF TextInv
<1>9. TextInv'
  BY <1>3, <1>5, <1>7, <1>8 DEF TextInv
<1>10. Items' = Items
  BY <1>3, <1>6 DEF Items
<1>11. Texts' = Texts
  BY <1>3, TextsSame
<1> QED BY <1>9, <1>10, <1>11

-----------------------------------------------------------------------------
\* Every step is one of the abstract specification, or none.
AbstractStep == Promised!Next \/ UNCHANGED <<Texts, Items>>

LEMMA GivesAbstract ==
    ASSUME NEW v \in Vars, NEW text \in Seq(Chars), Gives(v, text)
    PROVE  Texts = [u \in Vars |-> Texts[u]] => Promised!Make(v)
<1> SUFFICES ASSUME Texts = [u \in Vars |-> Texts[u]] PROVE Promised!Make(v)
  OBVIOUS
<1>1. Texts'[v] = text
  BY DEF Gives
<1> QED BY <1>1 DEF Gives, Promised!Make, Promised!Assign

LEMMA TextsFunction == Texts = [u \in Vars |-> Texts[u]]
BY TextsIn

LEMMA ConcatStep ==
    ASSUME TextInv, NEW v \in Vars, NEW u \in Vars, NEW w \in Vars, NEW a \in Arenas,
           Concat(v, u, w, a)
    PROVE  TextInv' /\ Promised!Concat(v, u, w)
<1>1. Texts[u] # NoText /\ Texts[w] # NoText
  BY TextOfOne DEF Concat, Usable
<1>2. ArenaInv'
  BY ConcatKeeps DEF TextInv
<1>3. Gives(v, Texts[u] \o Texts[w])
  BY <1>2, ConcatEmptyGives, ConcatTextsGives DEF Concat
<1> QED BY <1>1, <1>3 DEF Gives, Promised!Concat, Promised!Assign

LEMMA PartStep ==
    ASSUME TextInv, NEW v \in Vars, NEW u \in Vars, NEW from \in Offsets, NEW len \in Offsets,
           PopStr(v, u, from, len)
    PROVE  TextInv' /\ Promised!Part(v, u)
<1>1. /\ Gives(v, SubSeq(Texts[u], from + 1, from + len)) /\ Texts[u] # NoText
      /\ Texts[u] \in Seq(Chars) /\ from \in Nat /\ len \in Nat /\ from + len <= Len(Texts[u])
  BY PopStrGives
<1>2. from + 1 \in 1 .. Len(Texts[u]) + 1 /\ from + len \in 0 .. Len(Texts[u])
  BY <1>1
<1>3. Promised!Assign(v, SubSeq(Texts[u], from + 1, from + len))
  BY <1>1 DEF Gives, Promised!Assign
<1> QED BY <1>1, <1>2, <1>3 DEF Gives, Promised!Part

LEMMA AdvanceStep ==
    ASSUME TextInv, NEW v \in Vars, NEW n \in Offsets, Advance(v, n)
    PROVE  TextInv' /\ Promised!Part(v, v)
<1>1. /\ Gives(v, SubSeq(Texts[v], n + 1, Len(Texts[v])))
      /\ Texts[v] # NoText /\ Texts[v] \in Seq(Chars) /\ n \in 0 .. Len(Texts[v])
  BY AdvanceGives
<1>2. n + 1 \in 1 .. Len(Texts[v]) + 1 /\ Len(Texts[v]) \in 0 .. Len(Texts[v])
  BY <1>1
<1>3. Promised!Assign(v, SubSeq(Texts[v], n + 1, Len(Texts[v])))
  BY <1>1 DEF Gives, Promised!Assign
<1> QED BY <1>1, <1>2, <1>3 DEF Gives, Promised!Part

LEMMA DropStep ==
    ASSUME NEW gone \in SUBSET Vars,
           Texts' = [u \in Vars |-> IF u \in gone THEN NoText ELSE Texts[u]],
           Items' \in {NoText, Items}
    PROVE  Promised!Drop
BY DEF Promised!Drop

LEMMA TextStep ==
    ASSUME TextInv, [Next]_vars
    PROVE  TextInv' /\ AbstractStep
<1>1. ASSUME NEW v \in Vars, Make(v)
      PROVE  TextInv' /\ AbstractStep
  <2>1. \E text \in Seq(Chars) : Gives(v, text)
    BY <1>1, LiteralGives, FromU64Gives, FromDataGives DEF Make
  <2>2. PICK text \in Seq(Chars) : Gives(v, text)
    BY <2>1
  <2>3. Promised!Make(v)
    BY <2>2, GivesAbstract, TextsFunction
  <2> QED BY <2>2, <2>3 DEF Gives, AbstractStep, Promised!Next
<1>2. ASSUME NEW v \in Vars, Leave(v)
      PROVE  TextInv' /\ AbstractStep
  <2>1. TextInv' /\ Promised!Drop
    BY <1>2, LeaveDrops, DropStep
  <2> QED BY <2>1 DEF AbstractStep, Promised!Next
<1>3. ASSUME NEW v \in Vars, NEW n \in Offsets, Advance(v, n)
      PROVE  TextInv' /\ AbstractStep
  <2>1. TextInv' /\ Promised!Part(v, v)
    BY <1>3, AdvanceStep
  <2> QED BY <2>1 DEF AbstractStep, Promised!Next
<1>4. ASSUME NEW v \in Vars, NEW u \in Vars, NEW from \in Offsets, NEW len \in Offsets,
             PopStr(v, u, from, len)
      PROVE  TextInv' /\ AbstractStep
  <2>1. TextInv' /\ Promised!Part(v, u)
    BY <1>4, PartStep
  <2> QED BY <2>1 DEF AbstractStep, Promised!Next
<1>5. ASSUME NEW v \in Vars, NEW u \in Vars, NEW w \in Vars, NEW a \in Arenas,
             Concat(v, u, w, a)
      PROVE  TextInv' /\ AbstractStep
  <2>1. TextInv' /\ Promised!Concat(v, u, w)
    BY <1>5, ConcatStep
  <2> QED BY <2>1 DEF AbstractStep, Promised!Next
<1>6. ASSUME NEW cap \in Capacities, NewVec(cap)
      PROVE  TextInv' /\ AbstractStep
  <2>1. Lists(<<>>)
    BY <1>6, NewVecLists
  <2> QED BY <2>1 DEF Lists, AbstractStep, Promised!Next, Promised!NewList
<1>7. ASSUME NEW c \in Chars, Push(c)
      PROVE  TextInv' /\ AbstractStep
  <2>1. Lists(Append(Items, c)) /\ Items # NoText
    BY <1>7, PushLists
  <2>2. Promised!Push
    BY <2>1 DEF Lists, Promised!Push
  <2> QED BY <2>1, <2>2 DEF Lists, AbstractStep, Promised!Next
<1>8. CASE New
  BY <1>8, NewStutters DEF AbstractStep
<1>9. CASE Reset \/ FreeArena
  <2>1. /\ TextInv' /\ Items' = NoText
        /\ Texts' = [u \in Vars |-> IF u \in Gone THEN NoText ELSE Texts[u]]
    BY <1>9, ResetDrops, FreeDrops
  <2>2. Promised!Drop
    BY <2>1, DropStep DEF Gone
  <2> QED BY <2>1, <2>2 DEF AbstractStep, Promised!Next
<1>10. CASE UNCHANGED vars
  <2>1. UNCHANGED <<pages, capacity, size, mem, str, scope, vec>>
    BY <1>10 DEF vars, heap
  <2>2. ArenaInv'
    BY <1>10, StepInv DEF TextInv
  <2>3. TextInv'
    BY <2>1, <2>2 DEF TextInv
  <2>4. Texts' = Texts
    BY <2>1, TextsSame
  <2>5. Items' = Items
    BY <2>1 DEF Items
  <2> QED BY <2>3, <2>4, <2>5 DEF AbstractStep
<1> QED BY <1>1, <1>2, <1>3, <1>4, <1>5, <1>6, <1>7, <1>8, <1>9, <1>10 DEF Next

LEMMA TextInit == Init => TextInv /\ Promised!Init
<1> SUFFICES ASSUME Init PROVE TextInv /\ Promised!Init
  OBVIOUS
<1>1. \A v \in Vars : Kept(str[v], scope[v], pages, size, mem) /\ Apart(str[v], vec)
  BY ArenaAssumption DEF Init, Kept, Apart, Empty, NoVec
<1>2. TextInv
  BY <1>1, InitInv DEF TextInv, Init, VecKept, NoVec
<1>3. Texts = [v \in Vars |-> NoText] /\ Items = NoText
  BY TextsIn DEF Init, Items, NoVec
<1> QED BY <1>2, <1>3 DEF Promised!Init

\* Whatever strings share, extend in place or leave behind in pages that are reset
\* and used again: each variable behaves as if it held a text of its own
\* (Str_Concat, Arena_Alloc, Arena_Reset, Vec_Push).
THEOREM TextsNeverInterfere == Spec => TextsKept
<1>1. TextInv /\ [Next]_vars => TextInv' /\ [Promised!Next]_(Promised!vars)
  BY TextStep DEF AbstractStep, Promised!vars
<1> QED BY <1>1, TextInit, PTL DEF Spec, TextsKept, Promised!Spec
=============================================================================
