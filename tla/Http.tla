-------------------------------- MODULE Http --------------------------------
(***************************************************************************)
(* The parts of AngularJS $http and $q that the Config clients use, as    *)
(* operators producing the request a call puts on the wire together with  *)
(* the kind of promise the caller gets back.  A URL is the sequence of    *)
(* the pieces the client concatenates.                                    *)
(*                                                                         *)
(*   "http": the HttpPromise of $http; success(data, status) and          *)
(*           error(data, status) receive the body and the HTTP status.    *)
(*   "q":    a $q promise resolved with the body or rejected with it;      *)
(*           deferred.reject(result, status) passes one reason, so the    *)
(*           status is lost.                                               *)
(***************************************************************************)
LOCAL INSTANCE Functions

CONSTANT UNDEF   \* JavaScript undefined

NoParams == << >>
NoHeaders == << >>
JsonContent == [ContentType |-> "application/json"]

(* $http(config): parameters whose value is undefined are left out of the *)
(* query string.                                                           *)
http(method, url, params, headers, data) ==
    [method |-> method, url |-> url,
     params |-> RestrictValues(params, LAMBDA v : v # UNDEF),
     headers |-> headers, data |-> data, promise |-> "http"]

get(url) == http("GET", url, NoParams, NoHeaders, UNDEF)
post(url, data) == http("POST", url, NoParams, NoHeaders, data)

(* var deferred = $q.defer(); $http(...).success(resolve).error(reject);  *)
(* return deferred.promise.                                                *)
deferred(call) == [call EXCEPT !.promise = "q"]
=============================================================================
