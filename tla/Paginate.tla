------------------------------ MODULE Paginate ------------------------------
(***************************************************************************)
(* The 'Paginate' service of paginate-services.js: range(start, end) and  *)
(* the page cursor moves prevPage / nextPage.  A cursor is the list view's *)
(* query object [currentPage, numPages].  prevPage and nextPage call the   *)
(* caller's paginate function after a move; that call belongs to the      *)
(* caller's action, so here a move is a guard (when the call happens) and *)
(* the moved cursor.                                                       *)
(***************************************************************************)
EXTENDS Integers, Sequences

CONSTANT UNDEF   \* an argument the caller left out (JavaScript undefined)

(* JavaScript truthiness of a numeric-or-missing argument: '!end' holds   *)
(* for undefined and for 0.                                                *)
Falsy(x) == x \in {UNDEF, 0}

(* 'i < end' where either may be undefined: a comparison with undefined is *)
(* false.                                                                  *)
Below(i, end) == i # UNDEF /\ end # UNDEF /\ i < end

(* Mutation: the loop runs while i <= end.                                *)
RECURSIVE PushWhileInclusive(_, _, _)
PushWhileInclusive(i, end, ret) ==
    IF Below(i, end) \/ (i # UNDEF /\ i = end)
    THEN PushWhileInclusive(i + 1, end, Append(ret, i)) ELSE ret

(* The for loop of range: push i while i < end.                           *)
RECURSIVE PushWhile(_, _, _)
PushWhile(i, end, ret) ==
    IF Below(i, end) THEN PushWhile(i + 1, end, Append(ret, i)) ELSE ret

(* range(start, end): a falsy end makes start the end and 0 the start.    *)
range(start, end) ==
    IF Falsy(end) THEN PushWhile(0, start, << >>)
                  ELSE PushWhile(start, end, << >>)

(* Mutation: prevPage tests currentPage >= 0.                             *)
CanPrevPageAtZero(query) == query.currentPage >= 0

(* prevPage: moves back when currentPage > 0.                             *)
CanPrevPage(query) == query.currentPage > 0
prevPage(query) == [query EXCEPT !.currentPage = @ - 1]

(* nextPage: moves forward when currentPage < numPages - 1.               *)
CanNextPage(query) == query.currentPage < query.numPages - 1
nextPage(query) == [query EXCEPT !.currentPage = @ + 1]
=============================================================================
