------------------------------- MODULE Strings -------------------------------
(***************************************************************************)
(* What string variables promise their users: each holds a text of its own, *)
(* which no operation on another variable changes, and a concatenation is  *)
(* the one text followed by the other. A list grows at its end.            *)
(***************************************************************************)
EXTENDS Sequences, Integers

CONSTANTS
    Vars,     \* string variables
    Chars,    \* characters
    NoText    \* what a variable out of scope holds

VARIABLES
    value,    \* per variable: its text, or NoText
    list      \* the text pushed to the list so far, or NoText

vars == <<value, list>>

Init == value = [v \in Vars |-> NoText] /\ list = NoText

Assign(v, text) == value' = [value EXCEPT ![v] = text] /\ UNCHANGED list

\* A variable gets a new text.
Make(v) == value'[v] \in Seq(Chars) /\ Assign(v, value'[v])

Concat(v, u, w) ==
    /\ value[u] # NoText /\ value[w] # NoText
    /\ Assign(v, value[u] \o value[w])

\* A part of a text.
Part(v, u) ==
    /\ value[u] # NoText
    /\ \E from \in 1 .. Len(value[u]) + 1 : \E to \in 0 .. Len(value[u]) :
         Assign(v, SubSeq(value[u], from, to))

NewList == list' = <<>> /\ UNCHANGED value

Push ==
    /\ list # NoText
    /\ \E c \in Chars : list' = Append(list, c)
    /\ UNCHANGED value

\* Variables go out of scope.
Drop ==
    /\ \E gone \in SUBSET Vars :
         value' = [v \in Vars |-> IF v \in gone THEN NoText ELSE value[v]]
    /\ list' \in {NoText, list}

Next ==
    \/ \E v \in Vars : Make(v)
    \/ \E v, u \in Vars : Part(v, u)
    \/ \E v, u, w \in Vars : Concat(v, u, w)
    \/ NewList \/ Push \/ Drop

Spec == Init /\ [][Next]_vars
=============================================================================
