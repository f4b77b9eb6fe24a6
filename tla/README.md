# TLA+ models of the confit admin UI

This directory holds TLA+ models of the browser admin UI in
`src/admin-jaxrs/src/main/resources/html/js/`. It is an AngularJS application
that edits "config beans" through a REST backend. Each module below is
translated from the JavaScript source. `PROJECT.json` maps every definition
to the lines it models, and it lists the TLC runs, the mutants that validate
each property, the findings and the hazards.

## 1. Inventory

### Components, their state and their operations

| Component | Source | State | Operations |
|---|---|---|---|
| Paginate service | `paginate-services.js` | none; acts on the caller's `query` object `{currentPage, numPages}` | `range(start, end)`, `prevPage(query, paginate)`, `nextPage(query, paginate)` |
| Property service | `tools4j-config-property-service.js` | none; mutates the caller's `bean.properties` and `dirty` map | `editList`, `edit`, `clear`, `add`, `remove`, `isDirty` |
| Config client | `tools4j-config-services.js` (the module `app.js` loads); `confit-services.js` is the same client with another base path and a few other paths, and no module loads it | none; one `$http` call per operation, returning a promise | `getSchemas`, `getBean`, `setBean`, `createBean`, `deleteBean`, `paginateBeans`, `listBeans`, the raw-config calls (which nothing calls) |
| bean-list-controller | `bean-controller.js:4-65` | `schemaName`, `query`, `beans`, `errors` | construction (page 0), `setPage`, `prevPage`, `nextPage`, `delete`, the `requestContextChanged` handler, and the paginate and delete callbacks |
| bean-detail-controller | `bean-controller.js:67-131` | `bean`, `dirty`, `errors`, the captured `schema` | construction (`getBean`), the Property wrappers, `commit`, `rollback`, and the callbacks |
| bean-create-controller | `bean-controller.js:133-190` | `bean`, `dirty`, `errors` | construction (a blank bean), the Property wrappers, `isDirty` (which returns nothing), `create`, and the callbacks |
| ConfigAdminController | `app-controller.js`, routes in `app.js` | `$rootScope.schemas` (a catalog loaded once), `renderAction`, `renderPath`, nav flags, `pathParams` | `render` on `$routeChangeSuccess`, then a `requestContextChanged` broadcast; `create(schema)` |
| qnValidate directive | `directives.js:1-28` | `form.$myServerErrors` | a watch on the errors list rebuilds the map |
| rightClick directive | `directives.js:30-43` | none | `contextmenu` calls `$apply(expr)` |
| IE shiv | `js-3pp/angular-ui-ieshiv.js` (a saved HTML page; the script is line 456) | none | `toCustomElements(name)` and a `document.createElement` loop over the tag list |

### How the parts interact

- A route change runs `render()`, which may send `getSchemas`. It then
  broadcasts `requestContextChanged` to the views below it.
- A view is chosen by the route's `action` (`bean.bean-list`, ...). The
  routes declare no controller, so moving between two `/bean-list/:schema`
  routes keeps the same list controller. That controller gets the broadcast.
- Views call the Config client. Every call suspends until its callback runs.
  The browser runs callbacks in arrival order, and nothing orders two calls
  (spec.md 5). No request is cancelled: the callbacks of a view the user has
  left still run on its scope.
- Views edit `bean` and `dirty` through the Property service. The form's
  inputs are bound to `bean.properties[name]` (in templates, which are not in
  the repository) and can write a bare string there.
- A failed write sets `errors = [{key: 'bean', ...}]`. qnValidate shows it on
  the form.

### What is hard

This is single-threaded code with no locks. It still has concurrency,
because requests are in flight while the user keeps acting:

- answers applied out of order: pages, and two saves of the same bean;
- state read by a handler that another step has already changed: the cursor
  after a context change, `schemaName` while the old page is still shown;
- a request the backend applied whose answer is lost;
- requests with no error callback: `getBean`, `paginateBeans`;
- numeric edges in pagination: page 0 and the last page;
- a cursor left past the last page when the data shrinks under it;
- construction order: the detail and create views read the schema catalog
  before `getSchemas` may have answered.

### What makes each component correct

- Paginate: `range(n)` gives `[0, n)`. The cursor stays in
  `0..numPages-1` and never asks for a page past the data.
- Property and the detail view: no edit escapes the dirty flags that
  commit's guard reads. Only arrays reach the backend. Every save ends in
  navigation or a visible error. What the backend keeps after the view
  reports success is what the user last saved.
- The list view: requests follow the cursor. A delete is followed by a
  refetch or an error.
- The app controller: the catalog is loaded once, and a view needing it is
  not built before it arrives.

## 2. Modules

| Module | Models | State | Actions / operators |
|---|---|---|---|
| `Paginate` | Paginate service | none; operators | `range` (RECURSIVE loop `PushWhile`), `CanPrevPage`/`prevPage`, `CanNextPage`/`nextPage` |
| `Property` | Property service | none; operators on a property map and a dirty map | `MarkDirty`, `editList`, `edit`, `clear`, `add`, `remove`, `isDirty`, `Normalize` (the loop in commit and create) |
| `QnValidate` | qnValidate directive | none; an operator | `myServerErrors(errors)`: the form annotations the watch builds from an error list |
| `IeShiv` | IE shiv | none; operators on names as sequences of letters | `dashed`, `split`, `join`, `toCustomElements`, `shiv` (the `createElement` loop) |
| `BeanList` | bean-list-controller with `paginateBeans`/`deleteBean` and the backend | `server`, `route`, `schemaName`, `query`, `beans`, `errors`, `net`, `sent`; history `lastTotal`; `other` | `SetPage`, `PrevPage`, `NextPage`, `Delete`, `AnswerPaginate`, `AnswerDelete`, `PaginateDone`, `PaginateFailed`, `DeleteDone`, `DeleteFailed`, `RouteChange`, `OtherClient` |
| `BeanDetail` | bean-detail-controller with `getBean`/`setBean` and the backend | `phase`, `bean`, `dirty`, `errors`, `stored`, `net`, `sent`; history `loaded`, `committed` | `EditList`, `Edit`, `Clear`, `Add`, `Remove`, `BindInput` (the template's input), `Commit`, `Rollback`, `AnswerGet`, `AnswerSet`, `GetDone`, `GetFailed`, `SetDone`, `SetFailed` |
| `BeanCreate` | bean-create-controller with `createBean` and the backend | `phase`, `bean`, `dirty`, `errors`, `created`, `net`, `sent` | the same edit actions and `BindInput`, `create`, `AnswerCreate`, `CreateDone`, `CreateFailed` |
| `App` | ConfigAdminController, the routes of `app.js`, and which view is built | `schemas` (`$rootScope.schemas`), `current` (`renderAction`/`pathParams`), `view`, `net`, `sent` | `Navigate` (render, broadcast, view kept or built), `create`, `AnswerSchemas`, `SchemasDone`, `SchemasFailed` |
| `Http` | the parts of AngularJS `$http` and `$q` the clients use | none; operators | `http`, `get`, `post` (the request a call sends, undefined parameters dropped), `deferred` (the `$q` wrapper of the paginate calls, which loses the status of a rejection) |
| `Tools4jConfig`, `ConfitConfig` | the two Config client files | none; operators | one operator per client function, giving method, URL pieces, query parameters, headers, body and promise kind; `Config(a)` is the object the factory returns. No run uses them (section 4) |
| `EditSession` | abstract: what an edit form promises (spec.md 3, 4.4) | `open`, `value`, `touched`, `base`, `saves` | `Load`, `Change`, `Save`, `Close` |
| `MCOperators`, `MCBeanList`, `MCBeanDetail` | TLC instances | | |

How the models correspond to the code:

- An HTTP exchange is a record in `net` with a number `n`.
- The backend answers it in one step (`Answer*`), using its state at that
  moment. The callback runs in a later step (`*Done`/`*Failed`). Any
  answered exchange can be handled next, which models out-of-order arrival.
- A delete, save or create can be applied by the backend while its answer
  still fails. This is the lost-answer case.
- A value of `bean.properties[name]` carries its `typeof`: `undefined`, a
  bare `string`, or an `array`. This is what `== undefined`, `push`/`splice`
  and the `typeof ... === 'string'` test in commit and create look at. The
  strings are model strings.
- The list model keeps only the ids of beans. The detail and create models
  keep only the properties.
- Each action models the whole handler: the Property call together with the
  dirty flag, and commit's early return, normalisation and post.
- `App` composes the route handling with the views. One `$routeChangeSuccess`
  step is a single action, because the JavaScript runs to completion:
  - `render()`, which may send `getSchemas`;
  - the broadcast;
  - building the view of the new action in the same digest.

  A view is its action and whether its constructor finished. The detail
  and create constructors read `$rootScope.schemas` and throw while it is
  undefined.
- `BeanDetail` defines `Session`, an `INSTANCE EditSession WITH` a
  refinement mapping:
  - `open` is `phase = "ready"`;
  - `value` is `bean` once an open form has received it (`loaded` is set),
    and no bean before. A form left before `getBean` answered stays
    closed: the late callback fills the scope, and no form shows it;
  - `touched` is the names with `dirty[n]`;
  - `base` is `loaded`;
  - `saves` is the number of `setBean` requests.

  The property `SessionRefined == Session!Spec` says every step of the view
  is a step of the abstract edit form.
- A URL is the sequence of the pieces the client concatenates
  (`<< baseUrl, "/getbean/", schemaName, "/", id >>`).
- The shiv's names are sequences of one-letter strings over `a b A B`.
  `LowerOf` stands for `toLowerCase`.

## 3. Runs

| Run | Checks | Shows |
|---|---|---|
| `operators` | `RangeMeetsContract`, `ShivNamesNormalise` | the repository's pure parts on every small input. `range(n)`, the one-argument call behind the pager's links, equals spec.md 4.1's contract (`[0, n)`, empty for 0 or a negative count) for every `n` in `-1..5`; the reference `Contract` is written from the spec, not from the loop. Every element name the IE shiv creates for a directive name (`ng:view`, `ng-view`, `x-ng-view`, `data-ng-view`) reads back, as Angular normalises element names, as that directive |
| `list_pager` | `TypeOK`, `DeleteOutcomeShown` | every action of the list view, with answers in any order, deletes whose answer is lost after the backend applied them, schema switches and other clients, keeps the state well formed (the cursor never goes below 0); and every delete ends in a refetch of the list or a `bean` error |
| `list_end` (violation) | `NoRequestPastReportedEnd` | with three pages that other clients shrink to one while the user is on page 2, the answer sets `numPages = 1` and leaves `currentPage = 2`; `prevPage` then asks for page 1, which starts at the `totalCount` just shown |
| `list_cursor` (violation) | `ShownPageFollowsCursor` | a rejected `paginateBeans` for the page the user chose leaves the cursor on that page and the rows of the previous one, and shows nothing. With rejections excluded the invariant still fails, through an older page answer applied after a newer one, and through the event handler's page-0 fetch |
| `list_delete_schema` (violation) | `DeleteTargetsShownBean` | after a switch from `s1` to `s2` the rows of `s1` are still shown while `$scope.schemaName` is `s2`: delete on row `id 2` sends `deletebean/s2/2` and removes another bean |
| `detail_edit` | `TypeOK`, `OnlyArraysReachBackend`, `CommitOutcomeShown`, `SessionRefined` | with rollback before or after the load, overlapping saves and lost answers: no bare string is posted or stored; every save ends in navigation or a `bean` error on the form (through qnValidate); the view refines the abstract edit session, so commit's guard never hides an edit and untouched properties keep their loaded value |
| `detail_double_save` (violation) | `LastCommitStored` | two overlapping saves: the view leaves on success while the backend keeps the older body |
| `detail_load_failure` (violation) | `LoadFailureReported` | a failed `getBean` shows nothing |
| `create_edit` | `TypeOK`, `OnlyArraysReachBackend`, `CreateOutcomeShown` | with overlapping presses and lost answers, no bare string reaches the backend from the create form, and every `createBean` ends in navigation or a form error |
| `app_catalog` | `TypeOK` | every route of `app.js` in any order, with duplicate `getSchemas` requests answered and failing in any order, keeps the controller's state well formed; the cached catalog is the `getSchemas` data, not the response object |
| `app_schemas_once` (violation) | `SchemasRequestedOnce` | two route changes before the first answer send `getSchemas` twice: the load-once test looks at the cache, not at a request in flight |
| `app_view_before_catalog` (violation) | `ViewsBuiltWithCatalog` | opening the application on a create (or detail) URL builds a controller that throws at `$scope.schemas[schemaName]`, because `getSchemas` was only just sent |

Every property of a passing run has a mutant in `PROJECT.json`. The mutant
is a plausible bug in the definition the property is about, and TLC finds
the property violated with it:

- `PushWhile` loops while `i <= end`;
- the shiv's replace adds no space;
- `prevPage` tests `>= 0`;
- the dirty loop runs past the last property name (in the detail callback
  and in the create constructor);
- the delete success callback does not reach the list's handler;
- commit or create skips its normalisation loop;
- commit loses its `isDirty` early return (this breaks `SessionRefined`);
- the `setBean` or `createBean` error callback is missing;
- the `getSchemas` callback stores the response object instead of its data.

### Bounds

- `MCOperators`: one initial state per input, as a sum of two choices
  and not their product (347 in all):
  - `range(n)` for `n` in `-1..5`, which covers a negative count, 0, 1
    and several pages;
  - shiv names of 1 to 4 letters over `a b A B` (340 names). This includes
    consecutive capitals, a capital at the end, and names with one, two and
    three words.
- `MCBeanList`: two schemas and ids `1..3`, with pages of 2. Schema `s1`
  starts with two pages and `s2` with one bean. This lets the cursor move to
  a second page, lets a delete empty that page, and lets a schema switch
  meet a stale cursor and a stale row whose id exists in both schemas.
  Other settings:
  - `MaxRequests`: the user acts only while fewer than this many requests
    were sent; a delete's success callback sends its refetch regardless, so
    request numbers go up to `2 * MaxRequests`. `list_pager` uses 3 (the
    load and two user actions, e.g. a page move and a delete, or a schema
    switch and a delete), which keeps its liveness check at 19k states; the
    violation runs use 4;
  - `MaxOther = 1`: one write by another client, so a `totalCount` can go
    stale.

  The `End` instance (`list_end`) has one schema of five beans, i.e. three
  pages, `MaxRequests = 6` and `MaxOther = 2`. Its counterexample needs the
  cursor two pages from the first and the data to lose a page under it; the
  main instance has only two pages and one foreign write, which is why
  `NoRequestPastReportedEnd` held there and is not a property of a passing
  run.
- `MCBeanDetail`: one property stored as `["a"]`, arrays of up to 2 strings,
  and `MaxRequests = 3`: the load plus two overlapping saves. One property
  is enough because `isDirty` is an "any" over the map and commit treats
  each property alike.
- `BeanCreate.cfg`: one property, arrays of up to 2 strings, and two
  `createBean` requests, so two presses overlap. With two properties the
  same run takes four and a half minutes and shows nothing new.
- `App.cfg`: two schemas, one id and three `getSchemas` requests. That is
  enough for two requests in flight and a third after a failure, and for
  every route of `app.js`.

`CHECK_DEADLOCK FALSE` is set in the view and app runs. A page whose
requests have all been answered waits for its user, so the UI really may
stop there. The `MCOperators` run also sets it, because each call there ends
after one step.

### Fairness

`BeanList`, `BeanDetail` and `BeanCreate` assume weak fairness of two kinds of action,
per request number:

- the backend answering (the transport eventually completes or fails);
- the browser running an answered request's callback.

They assume no fairness for anything the user does, or for other clients.
`CommitOutcomeShown`, `CreateOutcomeShown` and `DeleteOutcomeShown` are the
liveness properties, and they need exactly these two assumptions. In
`BeanList` the request bound guards only the user's actions, so no
callback is ever disabled by the bound and fairness is not defeated by the
model's finiteness.

## 4. Not modelled, and why

- The Config clients are written out as operators (`Tools4jConfig`,
  `ConfitConfig`), and no run uses them. The calls the views make are the
  request and answer steps of the view modules. `listBeans` and the
  raw-config calls of `tools4j-config-services.js` have no caller, and
  `app.js` does not load `confit-services.js`. The two clients differ in
  more than the base path, so spec.md 4.2's "functionally identical,
  differing only in path casing" does not hold:
  - the bean paths differ in case (`/getbean/` and `/getBean/`), and
    `paginateBeans` goes to `/query/` instead of `/paginatebeans/`;
  - confit's `deleteConfig` sends no `Content-Type` header, which spec.md 6
    and the comment on the loaded client's DELETE calls require.

  Since no view reaches confit-module, the difference has no effect on the
  application, and no run states it.
- `range` with two arguments: `!end` takes an explicit end of 0 as a
  missing end, so `range(3, 0)` is `[0, 1, 2]`, where spec.md 4.1's
  `[start, end)` gives `[]`. The list view calls `range` with one argument
  only, so the application never meets the difference. `operators` checks
  the one-argument form; the two-argument form has no caller and is not
  run.
- The `rightClick` directive is event glue: `preventDefault`, then `$apply`
  of a template expression the repository does not contain. It has no
  state of its own.
- qnValidate's early return for a field outside a form depends on the
  templates. The model assumes the field is inside the form.
- The create view's `isDirty` wrapper (which returns nothing) has no caller
  in the repository.
- The shiv's output for a single-word custom tag (`widget` gives `widget:`
  and `widget-`, never `widget`) is outside the checked domain. No name in
  the shiv's built-in list has that shape, and the repository sets no
  `myCustomTags`.
- Templates are not in the repository. The models assume:
  - an input writes a bare string to a property that `edit` opened (the
    `BindInput` action, not mapped to source);
  - the view is chosen by the route's action, so a route with the same
    action keeps its controller;
  - a row's delete button calls `delete(schemaName, bean.id)`.
- The backend is outside the repository. It is modelled only as far as the
  views observe it:
  - a page is the beans ranked `first+1..first+max` by id;
  - a write may be applied and still answered with an error;
  - the catalog is fixed.

Most of the lines outside the map are the 594-line HTML page that wraps the
shiv's one line of script. The others are `rightClick`, the templates'
side of qnValidate, and the comments and braces of the client files.

## 5. Plan

Done so far:

- `Paginate`, `Property`, `QnValidate`, `IeShiv`, `Http` and the two
  Config clients as operators;
- `BeanList`, `BeanDetail`, `BeanCreate` and `App` as state machines;
- `EditSession` as the abstract spec that `BeanDetail` refines.

Next:

1. `BeanCreate` refines `EditSession` too, with `base` the blank bean. The
   abstract `Save` would then need no "touched" precondition, which is
   exactly the guard the create view lacks.
2. A composed list + `App` model. In it, a `bean-create` success navigates
   to a freshly built list, and the list's construction request races the
   broadcast.
3. An abstract pager (a page index in `0..pages-1` that the list shows)
   that `BeanList` refines. `list_end` and `list_cursor` already show where
   it fails, so it would restate those findings.
