----------------------------- MODULE MCOperators -----------------------------
(***************************************************************************)
(* Checks the pure parts of the repository on every small input: range() *)
(* of Paginate as the list view calls it, range(numPages) with one       *)
(* argument, against the contract of spec.md 4.1; and the IE shiv's      *)
(* element names for every name of up to four letters over a two-letter  *)
(* alphabet.  Init chooses one input of one of the two; one step         *)
(* evaluates the call.                                                   *)
(***************************************************************************)
EXTENDS Integers, Sequences, SequencesExt

CONSTANTS UNDEF, Numbers   \* the numeric arguments tried

VARIABLES start, end, ret,  \* range's arguments and its result
          tag, elems        \* a directive name and the elements it shivs

P == INSTANCE Paginate

vars == <<start, end, ret, tag, elems>>
MCNumbers == -1..5   \* includes a negative count and 0
NoResult == << -1 >>     \* the call has not been evaluated yet

MCLowerOf == ("A" :> "a") @@ ("B" :> "b")
S == INSTANCE IeShiv WITH LowerOf <- MCLowerOf
Letters == {"a", "b", "A", "B"}
NoElems == {<< >>}       \* the shiv has not been run yet

(* The list view's only call is Paginate.range(query.numPages): the end  *)
(* is left out.                                                           *)
Init ==
    /\ ret = NoResult /\ elems = NoElems
    /\ \/ /\ start \in Numbers /\ end = UNDEF /\ tag = << >>
       \/ /\ tag \in BoundedSeq(Letters, 4) \ {<< >>}
          /\ start = UNDEF /\ end = UNDEF

CallRange ==
    /\ ret = NoResult /\ tag = << >>
    /\ ret' = P!range(start, end)
    /\ UNCHANGED <<start, end, tag, elems>>

CallShiv ==
    /\ elems = NoElems /\ tag # << >>
    /\ elems' = S!shiv(<< tag >>)
    /\ UNCHANGED <<start, end, ret, tag>>

Spec == Init /\ [][CallRange \/ CallShiv]_vars

(* spec.md 4.1: range(start, end) is the ordered integers of [start, end), *)
(* empty when the range is negative or reversed; with one argument that  *)
(* argument is the end and the start is 0.                               *)
Interval(lo, hi) == [k \in 1..(hi - lo) |-> lo + k - 1]
Contract(s, e) == IF e = UNDEF THEN Interval(0, s) ELSE Interval(s, e)

(* range(n), as the pager's links use it, is the pages 0 .. n-1 of        *)
(* spec.md 4.1 for every count n, none for 0 or a negative count: the    *)
(* '!end' swap of paginate-services.js takes the one argument as the end *)
(* and the for loop stops before it.                                      *)
RangeMeetsContract == ret # NoResult => ret = Contract(start, end)

(* How Angular reads an element name as a directive name: a leading x- or *)
(* data- is dropped, and each ':' or '-' with the letter after it becomes *)
(* that letter in capitals.                                               *)
UpperOf(c) == CHOOSE u \in DOMAIN MCLowerOf : MCLowerOf[u] = c
RECURSIVE Camel(_)
Camel(s) ==
    IF Len(s) <= 1 THEN s
    ELSE IF s[1] \in {":", "-"} THEN << UpperOf(s[2]) >> \o Camel(Tail(Tail(s)))
    ELSE << s[1] >> \o Camel(Tail(s))
Unprefixed(e) ==
    IF IsPrefix(<< "d", "a", "t", "a", "-" >>, e) THEN SubSeq(e, 6, Len(e))
    ELSE IF IsPrefix(<< "x", "-" >>, e) THEN SubSeq(e, 3, Len(e))
    ELSE e
AngularName(e) == Camel(Unprefixed(e))

(* A directive name as the shiv's list holds them: a lower-case first     *)
(* word followed by capitalised words (ngView, uiMapInfoWindow).          *)
DirectiveName(t) ==
    /\ ~S!IsUpper(t[1])
    /\ \E i \in 2..Len(t) : S!IsUpper(t[i])

(* Every element the shiv creates for a directive name is one that        *)
(* Angular reads back as that directive (ng:view, ng-view, x-ng-view and  *)
(* data-ng-view for ngView): the replace/split/join of toCustomElements   *)
(* loses no word boundary and no letter.                                  *)
ShivNamesNormalise ==
    elems # NoElems /\ DirectiveName(tag) =>
        \A e \in elems : AngularName(e) = tag
=============================================================================
