------------------------------ MODULE BeanList ------------------------------
(***************************************************************************)
(* The bean-list-controller of bean-controller.js together with the       *)
(* backend calls it makes through Config (paginateBeans, deleteBean) and  *)
(* the requestContextChanged events it receives.                          *)
(*                                                                         *)
(* Each HTTP exchange is a record in 'net'.  The backend answers a request *)
(* from its state at the moment it answers ("ok" or "err"), and the       *)
(* browser runs the callbacks of answered requests in any order: nothing  *)
(* orders two $http calls.  A route change between two /bean-list routes  *)
(* keeps the controller (the view is chosen by the 'action' of the route, *)
(* not re-created) and broadcasts requestContextChanged to it.            *)
(* Other clients of the backend may add or remove beans at any time.      *)
(***************************************************************************)
EXTENDS Integers, FiniteSets

CONSTANTS
    Schemas,      \* schema names
    Ids,          \* bean ids; numbers, so that the backend can order them
    PageSize,     \* 'max' (20) of $scope.paginate and of the event handler
    MaxRequests,  \* bound on the requests the user's actions issue
    MaxOther,     \* bound on the writes of other clients
    InitServer,   \* the backend's beans when the view opens
    UNDEF         \* JavaScript undefined

ASSUME /\ Ids \subseteq Nat \ {0}
       /\ PageSize \in Nat \ {0}
       /\ MaxRequests \in Nat
       /\ MaxOther \in Nat
       /\ InitServer \in [Schemas -> SUBSET Ids]

VARIABLES
    server,      \* the backend's beans: [Schemas -> SUBSET Ids]
    route,       \* schema of the current route ($routeParams, pathParams)
    schemaName,  \* $scope.schemaName
    query,       \* $scope.query: [currentPage, numPages]
    beans,       \* $scope.beans: UNDEF or the set of beans shown
    errors,      \* $scope.errors: UNDEF or the sequence of error keys
    net,         \* HTTP exchanges not yet handled by the view
    sent,        \* requests issued so far; names each request
    lastTotal,   \* history: totalCount of the last page result applied
    shownFirst,  \* history: 'first' of the last page result applied
    other        \* writes of other clients so far

vars == <<server, route, schemaName, query, beans, errors, net, sent,
          lastTotal, shownFirst, other>>

Pg == INSTANCE Paginate

Bean == [schema : Schemas, id : Ids]

(* Math.ceil(a / b) for a >= 0, b > 0.                                    *)
Ceil(a, b) == (a + b - 1) \div b

(* The backend's page: the beans of schema s ranked first+1..first+max by *)
(* id.                                                                     *)
Rank(i, S) == Cardinality({j \in S : j <= i})
PageOf(s, first, max) ==
    { [schema |-> s, id |-> i] :
        i \in {j \in server[s] : Rank(j, server[s]) \in (first + 1)..(first + max)} }

(* A deleteBean success issues the refetch of its callback whatever the   *)
(* bound, so at most one request per user request is added.               *)
MaxNames == 2 * MaxRequests

(* The user acts only while fewer than MaxRequests requests were sent.    *)
UserMayAct == sent < MaxRequests

Exchange ==
    [n : 1..MaxNames, op : {"paginate", "delete"}, schema : Schemas,
     first : Nat, id : Ids \cup {0}, state : {"sent", "ok", "err"},
     beans : SUBSET Bean, total : Nat]

Request(op, s, first, id) ==
    [n |-> sent + 1, op |-> op, schema |-> s, first |-> first, id |-> id,
     state |-> "sent", beans |-> {}, total |-> 0]

(* Issue request r, retiring the handled exchanges 'done'.                *)
Issue(r, done) ==
    /\ net' = (net \ done) \cup {r}
    /\ sent' = sent + 1

(* Config.paginateBeans($routeParams.schemaName, currentPage * max, max). *)
PaginateRequest(q) == Request("paginate", route, q.currentPage * PageSize, 0)

(* The requestContextChanged handler, for path schema s: takes s as the   *)
(* schema, clears the errors and fetches the first page.                  *)
ContextChanged(s, done) ==
    /\ schemaName' = s
    /\ errors' = << >>
    /\ Issue(Request("paginate", s, 0, 0), done)

-----------------------------------------------------------------------------
(* Controller construction: query is undefined, so a cursor at page 0 is  *)
(* created and the first page requested.                                  *)
Init ==
    /\ server = InitServer
    /\ route \in Schemas
    /\ schemaName = route
    /\ query = [currentPage |-> 0, numPages |-> 0]
    /\ beans = UNDEF
    /\ errors = UNDEF
    /\ sent = 1
    /\ net = {[Request("paginate", route, 0, 0) EXCEPT !.n = 1]}
    /\ lastTotal = 0
    /\ shownFirst = 0
    /\ other = 0

(* $scope.setPage: a page link of the pager, one per range(numPages).      *)
SetPage(n) ==
    /\ n \in {Pg!range(query.numPages, UNDEF)[k] :
                k \in DOMAIN Pg!range(query.numPages, UNDEF)}
    /\ UserMayAct
    /\ query' = [query EXCEPT !.currentPage = n]
    /\ Issue(PaginateRequest(query'), {})
    /\ UNCHANGED <<server, route, schemaName, beans, errors, lastTotal, shownFirst, other>>

(* $scope.prevPage: Paginate.prevPage(query, $scope.paginate).            *)
PrevPage ==
    /\ UserMayAct
    /\ Pg!CanPrevPage(query)
    /\ query' = Pg!prevPage(query)
    /\ Issue(PaginateRequest(query'), {})
    /\ UNCHANGED <<server, route, schemaName, beans, errors, lastTotal, shownFirst, other>>

(* $scope.nextPage: Paginate.nextPage(query, $scope.paginate).            *)
NextPage ==
    /\ UserMayAct
    /\ Pg!CanNextPage(query)
    /\ query' = Pg!nextPage(query)
    /\ Issue(PaginateRequest(query'), {})
    /\ UNCHANGED <<server, route, schemaName, beans, errors, lastTotal, shownFirst, other>>

(* $scope.delete(schemaName, bean.id) on a bean shown in the list.        *)
Delete(b) ==
    /\ UserMayAct
    /\ beans # UNDEF
    /\ b \in beans
    /\ Issue(Request("delete", schemaName, 0, b.id), {})
    /\ UNCHANGED <<server, route, schemaName, query, beans, errors, lastTotal, shownFirst, other>>

(* The backend answers a page query from its current beans, or fails.     *)
AnswerPaginate(x) ==
    /\ x.op = "paginate" /\ x.state = "sent"
    /\ \/ net' = (net \ {x}) \cup
                 {[x EXCEPT !.state = "ok", !.beans = PageOf(x.schema, x.first, PageSize),
                            !.total = Cardinality(server[x.schema])]}
       \/ net' = (net \ {x}) \cup {[x EXCEPT !.state = "err"]}
    /\ UNCHANGED <<server, route, schemaName, query, beans, errors, sent, lastTotal, shownFirst, other>>

(* The backend deletes a stored bean and answers; the answer may still    *)
(* fail to reach the browser.  An absent bean is an error.                *)
AnswerDelete(x) ==
    /\ x.op = "delete" /\ x.state = "sent"
    /\ \/ /\ x.id \in server[x.schema]
          /\ server' = [server EXCEPT ![x.schema] = @ \ {x.id}]
          /\ \E st \in {"ok", "err"} : net' = (net \ {x}) \cup {[x EXCEPT !.state = st]}
       \/ /\ net' = (net \ {x}) \cup {[x EXCEPT !.state = "err"]}
          /\ UNCHANGED server
    /\ UNCHANGED <<route, schemaName, query, beans, errors, sent, lastTotal, shownFirst, other>>

(* The then-callback of paginateBeans (both callers do the same):         *)
(* numPages = ceil(totalCount / max), beans = the page.                   *)
PaginateDone(x) ==
    /\ x.op = "paginate" /\ x.state = "ok"
    /\ query' = [query EXCEPT !.numPages = Ceil(x.total, PageSize)]
    /\ beans' = x.beans
    /\ lastTotal' = x.total
    /\ shownFirst' = x.first
    /\ net' = net \ {x}
    /\ UNCHANGED <<server, route, schemaName, errors, sent, other>>

(* A rejected paginateBeans promise: no error callback is registered.     *)
PaginateFailed(x) ==
    /\ x.op = "paginate" /\ x.state = "err"
    /\ net' = net \ {x}
    /\ UNCHANGED <<server, route, schemaName, query, beans, errors, sent, lastTotal, shownFirst, other>>

(* Mutation: the success callback broadcasts on $rootScope's parent-less *)
(* path no list handler hears, so the list is not refetched.              *)
DeleteDoneSilent(x) ==
    /\ x.op = "delete" /\ x.state = "ok"
    /\ net' = net \ {x}
    /\ UNCHANGED <<server, route, schemaName, query, beans, errors, sent, lastTotal, shownFirst, other>>

(* deleteBean success: $broadcast("requestContextChanged") reaches the    *)
(* view's own handler.                                                    *)
DeleteDone(x) ==
    /\ x.op = "delete" /\ x.state = "ok"
    /\ ContextChanged(route, {x})
    /\ UNCHANGED <<server, route, query, beans, lastTotal, shownFirst, other>>

(* deleteBean error: errors = [{key: 'bean', httpStatus, msg}].           *)
DeleteFailed(x) ==
    /\ x.op = "delete" /\ x.state = "err"
    /\ errors' = << "bean" >>
    /\ net' = net \ {x}
    /\ UNCHANGED <<server, route, schemaName, query, beans, sent, lastTotal, shownFirst, other>>

(* $routeChangeSuccess to /bean-list/s: render() sets pathParams and the  *)
(* app controller broadcasts requestContextChanged.                       *)
RouteChange(s) ==
    /\ UserMayAct
    /\ s # route
    /\ route' = s
    /\ ContextChanged(s, {})
    /\ UNCHANGED <<server, query, beans, lastTotal, shownFirst, other>>

(* Another client of the backend creates or deletes bean i of schema s.   *)
OtherClient(s, i) ==
    /\ other < MaxOther
    /\ other' = other + 1
    /\ server' = [server EXCEPT ![s] = IF i \in @ THEN @ \ {i} ELSE @ \cup {i}]
    /\ UNCHANGED <<route, schemaName, query, beans, errors, net, sent, lastTotal, shownFirst>>

Next ==
    \/ \E n \in 0..Cardinality(Ids) : SetPage(n)
    \/ PrevPage
    \/ NextPage
    \/ \E b \in Bean : Delete(b)
    \/ \E x \in net : \/ AnswerPaginate(x) \/ AnswerDelete(x)
                      \/ PaginateDone(x) \/ PaginateFailed(x)
                      \/ DeleteDone(x) \/ DeleteFailed(x)
    \/ \E s \in Schemas : RouteChange(s)
    \/ \E s \in Schemas, i \in Ids : OtherClient(s, i)

(* The transport answers every request and the browser runs every         *)
(* answered request's callback; nothing is assumed of the user or of      *)
(* other clients.                                                          *)
Fairness ==
    \A n \in 1..MaxNames :
        /\ WF_vars(\E x \in net : x.n = n /\ (AnswerPaginate(x) \/ AnswerDelete(x)))
        /\ WF_vars(\E x \in net : x.n = n /\ (PaginateDone(x) \/ PaginateFailed(x)
                                             \/ DeleteDone(x) \/ DeleteFailed(x)))

Spec == Init /\ [][Next]_vars /\ Fairness

-----------------------------------------------------------------------------
TypeOK ==
    /\ server \in [Schemas -> SUBSET Ids]
    /\ route \in Schemas /\ schemaName \in Schemas
    /\ query \in [currentPage : Nat, numPages : Nat]
    /\ beans = UNDEF \/ beans \subseteq Bean
    /\ errors \in {UNDEF, << >>, << "bean" >>}
    /\ net \subseteq Exchange
    /\ sent \in 0..MaxNames
    /\ lastTotal \in Nat
    /\ shownFirst \in Nat
    /\ other \in 0..MaxOther

(* Requests issued by this step.                                          *)
NewRequests == {x \in net' : x.n > sent}

(* The pager never asks for a page past the data: every page request past *)
(* the first that prevPage, nextPage or a page link sends starts before   *)
(* the totalCount of the page result last shown.  It rests on numPages =  *)
(* Math.ceil(totalCount / max) in the paginate callback and on the        *)
(* guard currentPage < numPages - 1 of nextPage.                          *)
NoRequestPastReportedEnd ==
    [][\A x \in NewRequests :
          x.op = "paginate" /\ x.first > 0 => x.first < lastTotal]_vars

(* spec.md 4.4: the list shows the page the pager marks.  Whenever no     *)
(* page request is in flight, the rows shown are the page that starts at  *)
(* query.currentPage * max.  setPage, prevPage and nextPage move the      *)
(* cursor before paginateBeans answers, and a rejected paginateBeans has  *)
(* no handler; the event handler fetches page 0 and keeps the cursor.     *)
ShownPageFollowsCursor ==
    beans # UNDEF /\ (\A x \in net : x.op # "paginate")
        => shownFirst = query.currentPage * PageSize

(* The delete button of a row removes the bean of that row: every delete  *)
(* request names the schema and id of a bean the list shows.  $scope.    *)
(* delete is called with $scope.schemaName, which the event handler sets  *)
(* to the new route's schema while the rows of the old page, or a late    *)
(* answer for the old schema, are still on screen.                        *)
DeleteTargetsShownBean ==
    [][\A x \in NewRequests :
          x.op = "delete" => [schema |-> x.schema, id |-> x.id] \in beans]_vars

(* spec.md 4.4 and 6: a delete ends in a refreshed list or an error entry. *)
(* Once a deleteBean is sent, the view eventually shows the 'bean' error, *)
(* or has asked the backend for the list again after it: the success     *)
(* callback broadcasts requestContextChanged, whose handler refetches.   *)
(* This covers a delete the backend applied whose answer is lost.         *)
DeleteOutcomeShown ==
    \A n \in 1..MaxNames :
        (\E x \in net : x.n = n /\ x.op = "delete")
            ~> (errors = << "bean" >> \/ \E y \in net : y.op = "paginate" /\ y.n > n)
=============================================================================
