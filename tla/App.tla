-------------------------------- MODULE App --------------------------------
(***************************************************************************)
(* ConfigAdminController of app-controller.js with the routes of app.js:  *)
(* on every $routeChangeSuccess, render() loads the schema catalog into   *)
(* $rootScope.schemas unless it is already there, records the route's     *)
(* action and path parameters, and the controller broadcasts              *)
(* requestContextChanged.  In the same digest the view of the route's     *)
(* action is built: a route with the action already shown keeps its view  *)
(* (the bean-list view then handles the broadcast, see BeanList); a new    *)
(* action builds the view's controller, and the detail and create         *)
(* controllers read $rootScope.schemas[schemaName] in their constructor.  *)
(*                                                                         *)
(* What a built view then does with its own requests is the subject of    *)
(* BeanList, BeanDetail and BeanCreate; here a view is its action and     *)
(* whether its constructor ran to the end.                                *)
(***************************************************************************)
EXTENDS Integers, FiniteSets

CONSTANTS
    Schemas,      \* the schema names of the backend's catalog
    Ids,          \* bean ids used in detail links
    MaxRequests,  \* bound on the getSchemas requests sent
    UNDEF         \* JavaScript undefined

ASSUME MaxRequests \in Nat

VARIABLES
    schemas,    \* $rootScope.schemas: UNDEF or the catalog
    current,    \* $scope.renderAction and $scope.pathParams: UNDEF or a route
    view,       \* the view built for the action: UNDEF or [action, built]
    net,        \* getSchemas exchanges whose callback has not run
    sent        \* getSchemas requests sent so far

vars == <<schemas, current, view, net, sent>>

(* The routes of app.js: each has an action; the path parameters are     *)
(* schemaName and id where the path names them.                           *)
Route(action, s, i) == [action |-> action, schemaName |-> s, id |-> i]
Routes ==
    {Route("bean.default", UNDEF, UNDEF)}
    \cup {Route("bean.bean-create", s, UNDEF) : s \in Schemas}
    \cup {Route("bean.bean-detail", s, i) : s \in Schemas, i \in Ids}
    \cup {Route("bean.bean-list", s, UNDEF) : s \in Schemas}

(* The getSchemas data: the schema objects by name.                      *)
Catalog == [s \in Schemas |-> [schemaName |-> s]]

Exchange == [n : 1..MaxRequests, state : {"sent", "ok", "err"}]

(* The constructor of the view of action a: the detail and create          *)
(* controllers dereference $scope.schemas[schemaName] and throw while the  *)
(* catalog is undefined; the list controller reads only $routeParams.     *)
Construct(a) ==
    [action |-> a,
     built |-> a \in {"bean.default", "bean.bean-list"} \/ schemas # UNDEF]

(* render(): Config.getSchemas() unless $rootScope.schemas is defined.    *)
LoadSchemas ==
    IF schemas = UNDEF
    THEN /\ sent < MaxRequests
         /\ net' = net \cup {[n |-> sent + 1, state |-> "sent"]}
         /\ sent' = sent + 1
    ELSE UNCHANGED <<net, sent>>

-----------------------------------------------------------------------------
(* The page is loaded: no route has been rendered yet.                    *)
Init ==
    /\ schemas = UNDEF
    /\ current = UNDEF
    /\ view = UNDEF
    /\ net = {}
    /\ sent = 0

(* $routeChangeSuccess to route r: render() (every route of app.js has an *)
(* action, so its early return is not taken), the broadcast, and the view *)
(* of r's action, kept or built.                                          *)
Navigate(r) ==
    /\ r # current
    /\ LoadSchemas
    /\ current' = r
    /\ view' = IF view # UNDEF /\ view.action = r.action THEN view
               ELSE Construct(r.action)
    /\ UNCHANGED schemas

(* $scope.create(schema), on a schema of the catalog's navigation: the    *)
(* path of the create view of schema.schemaName.                          *)
create(s) ==
    /\ schemas # UNDEF
    /\ Navigate(Route("bean.bean-create", schemas[s].schemaName, UNDEF))

(* The backend answers getSchemas, or fails.                              *)
AnswerSchemas(x) ==
    /\ x.state = "sent"
    /\ \E st \in {"ok", "err"} : net' = (net \ {x}) \cup {[x EXCEPT !.state = st]}
    /\ UNCHANGED <<schemas, current, view, sent>>

(* Mutation: the callback stores the whole response, not its data.        *)
SchemasDoneResponse(x) ==
    /\ x.state = "ok"
    /\ schemas' = x
    /\ net' = net \ {x}
    /\ UNCHANGED <<current, view, sent>>

(* getSchemas success: $rootScope.schemas = schemas.                      *)
SchemasDone(x) ==
    /\ x.state = "ok"
    /\ schemas' = Catalog
    /\ net' = net \ {x}
    /\ UNCHANGED <<current, view, sent>>

(* getSchemas error: no error callback is registered.                     *)
SchemasFailed(x) ==
    /\ x.state = "err"
    /\ net' = net \ {x}
    /\ UNCHANGED <<schemas, current, view, sent>>

Next ==
    \/ \E r \in Routes : Navigate(r)
    \/ \E s \in Schemas : create(s)
    \/ \E x \in net : AnswerSchemas(x) \/ SchemasDone(x) \/ SchemasFailed(x)

Spec == Init /\ [][Next]_vars

-----------------------------------------------------------------------------
TypeOK ==
    /\ schemas \in {UNDEF, Catalog}
    /\ current \in Routes \cup {UNDEF}
    /\ view = UNDEF \/ view \in [action : {r.action : r \in Routes}, built : BOOLEAN]
    /\ net \subseteq Exchange
    /\ sent \in 0..MaxRequests

(* spec.md 4.4: the top-level controller loads the schema catalog once.   *)
(* No getSchemas is sent while another is still outstanding.              *)
SchemasRequestedOnce ==
    Cardinality(net) <= 1

(* Every view the routes select is built: no controller throws in its     *)
(* constructor for want of the schema catalog.                            *)
ViewsBuiltWithCatalog ==
    view # UNDEF => view.built
=============================================================================
