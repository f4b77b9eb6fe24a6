----------------------------- MODULE BeanDetail -----------------------------
(***************************************************************************)
(* The bean-detail-controller of bean-controller.js: it loads one bean    *)
(* with Config.getBean, lets the user edit it through the Property        *)
(* service, and commits it with Config.setBean.  The backend keeps the    *)
(* stored bean; each HTTP exchange is a record in 'net', answered from    *)
(* the backend's state when it is answered, and its callback runs later, *)
(* in any order with the others.                                          *)
(*                                                                         *)
(* Before getBean answers, $scope.bean and $scope.dirty are undefined:    *)
(* every edit throws at 'dirty[name] = true' and commit returns at        *)
(* '!isDirty()', so neither changes anything and the model leaves them    *)
(* out of that phase.  After the view has navigated away its scope lives  *)
(* on for the callbacks still to come.                                    *)
(*                                                                         *)
(* The form's text inputs write a bare string into a property once edit  *)
(* has opened it (dirty[name] is true): BindInput.                        *)
(***************************************************************************)
EXTENDS Integers, Sequences

CONSTANTS
    Names,        \* schema.propertyNames of the bean's schema
    Vals,         \* strings a user types or adds
    MaxLen,       \* bound on the length of a property's array
    MaxRequests,  \* bound on the requests the view issues
    InitStored,   \* the bean's properties stored by the backend
    UNDEF         \* JavaScript undefined

VARIABLES
    phase,     \* "loading", "ready"; after $location.path(list) "saved"
               \* (setBean succeeded) or "left" (rollback, before or
               \* after the load)
    bean,      \* $scope.bean.properties: UNDEF or [Names -> value]
    dirty,     \* $scope.dirty: UNDEF or [Names -> BOOLEAN]
    errors,    \* $scope.errors: UNDEF or the sequence of error keys
    stored,    \* the backend's copy of the bean's properties
    net,       \* HTTP exchanges whose callback has not run
    sent,      \* requests issued so far; names each request
    loaded,    \* history: the properties getBean delivered
    committed  \* history: the body of the last setBean issued

vars == <<phase, bean, dirty, errors, stored, net, sent, loaded, committed>>

P == INSTANCE Property
V == INSTANCE QnValidate

Value ==
    {P!Undef} \cup {P!Str(c) : c \in Vals \cup {""}} \cup
    {P!Arr(s) : s \in UNION {[1..k -> Vals \cup {""}] : k \in 0..MaxLen}}
Props == [Names -> Value]

ASSUME /\ MaxLen \in Nat /\ MaxRequests \in Nat
       /\ InitStored \in Props

Exchange ==
    [n : 1..MaxRequests, op : {"getBean", "setBean"}, body : Props,
     state : {"sent", "ok", "err"}]

Request(op, body) == [n |-> sent + 1, op |-> op, body |-> body, state |-> "sent"]

Issue(r) ==
    /\ sent < MaxRequests
    /\ net' = net \cup {r}
    /\ sent' = sent + 1

-----------------------------------------------------------------------------
(* Controller construction: Config.getBean(schemaName, id) is sent.       *)
Init ==
    /\ phase = "loading"
    /\ bean = UNDEF
    /\ dirty = UNDEF
    /\ errors = UNDEF
    /\ stored = InitStored
    /\ sent = 1
    /\ net = {[n |-> 1, op |-> "getBean", body |-> InitStored, state |-> "sent"]}
    /\ loaded = UNDEF
    /\ committed = UNDEF

(* A scope method that calls a Property method: dirty, then the bean.     *)
EditStep(name, newProps) ==
    /\ phase = "ready"
    /\ dirty' = P!MarkDirty(name, dirty)
    /\ bean' = newProps
    /\ UNCHANGED <<phase, errors, stored, net, sent, loaded, committed>>

EditList(name) == EditStep(name, P!editList(name, bean))
Edit(name) == EditStep(name, P!edit(name, bean))
Clear(name) == EditStep(name, P!clear(name, bean))
Add(name, value) ==
    /\ EditStep(name, P!add(name, value, bean))
    /\ (bean[name].t = "array" => Len(bean[name].v) < MaxLen)
Remove(name, pos) == EditStep(name, P!remove(name, pos, bean))

(* A text input bound to bean.properties[name] (the template, not the     *)
(* controller): writes a bare string, leaves the dirty map alone.         *)
BindInput(name, c) ==
    /\ phase = "ready"
    /\ dirty[name]
    /\ bean' = [bean EXCEPT ![name] = P!Str(c)]
    /\ UNCHANGED <<phase, dirty, errors, stored, net, sent, loaded, committed>>

(* Mutation: commit without its early return on a clean form.            *)
CommitUnguarded ==
    /\ phase = "ready"
    /\ bean' = P!Normalize(bean)
    /\ Issue(Request("setBean", bean'))
    /\ committed' = bean'
    /\ UNCHANGED <<phase, dirty, errors, stored, loaded>>

(* $scope.commit: return unless isDirty; turn bare strings into one-      *)
(* element arrays in place; Config.setBean(bean).                         *)
Commit ==
    /\ phase = "ready"
    /\ P!isDirty(dirty)
    /\ bean' = P!Normalize(bean)
    /\ Issue(Request("setBean", bean'))
    /\ committed' = bean'
    /\ UNCHANGED <<phase, dirty, errors, stored, loaded>>

(* $scope.rollback: $location.path('/bean-list/' + schemaName).           *)
Rollback ==
    /\ phase \in {"loading", "ready"}
    /\ phase' = "left"
    /\ UNCHANGED <<bean, dirty, errors, stored, net, sent, loaded, committed>>

(* The backend answers getBean with the stored bean, or fails.            *)
AnswerGet(x) ==
    /\ x.op = "getBean" /\ x.state = "sent"
    /\ \E st \in {"ok", "err"} :
          net' = (net \ {x}) \cup {[x EXCEPT !.body = stored, !.state = st]}
    /\ UNCHANGED <<phase, bean, dirty, errors, stored, sent, loaded, committed>>

(* The backend stores the posted bean and answers, and the answer may    *)
(* still be lost; or it rejects the bean.  JSON drops undefined values,  *)
(* so a cleared property arrives, and is stored, as absent.              *)
AnswerSet(x) ==
    /\ x.op = "setBean" /\ x.state = "sent"
    /\ \/ /\ stored' = x.body
          /\ \E st \in {"ok", "err"} : net' = (net \ {x}) \cup {[x EXCEPT !.state = st]}
       \/ /\ net' = (net \ {x}) \cup {[x EXCEPT !.state = "err"]}
          /\ UNCHANGED stored
    /\ UNCHANGED <<phase, bean, dirty, errors, sent, loaded, committed>>

(* Mutation: the dirty loop runs to i <= propertyNames.length and sets    *)
(* dirty[undefined] = false as well.                                      *)
GetDonePastEnd(x) ==
    /\ x.op = "getBean" /\ x.state = "ok"
    /\ phase' = IF phase = "loading" THEN "ready" ELSE phase
    /\ bean' = x.body
    /\ dirty' = [name \in Names \cup {UNDEF} |-> FALSE]
    /\ loaded' = IF phase = "loading" THEN x.body ELSE loaded
    /\ net' = net \ {x}
    /\ UNCHANGED <<errors, stored, sent, committed>>

(* getBean success: bean = the answer; dirty[p] = false for every name of *)
(* the schema.  A view the user has already left stays left: its scope    *)
(* takes the bean, and no form shows it ('loaded' records only what an    *)
(* open form received).                                                    *)
GetDone(x) ==
    /\ x.op = "getBean" /\ x.state = "ok"
    /\ phase' = IF phase = "loading" THEN "ready" ELSE phase
    /\ bean' = x.body
    /\ dirty' = [name \in Names |-> FALSE]
    /\ loaded' = IF phase = "loading" THEN x.body ELSE loaded
    /\ net' = net \ {x}
    /\ UNCHANGED <<errors, stored, sent, committed>>

(* getBean error: no error callback is registered.                        *)
GetFailed(x) ==
    /\ x.op = "getBean" /\ x.state = "err"
    /\ net' = net \ {x}
    /\ UNCHANGED <<phase, bean, dirty, errors, stored, sent, loaded, committed>>

(* setBean success: $location.path('/bean-list/' + schemaName).           *)
SetDone(x) ==
    /\ x.op = "setBean" /\ x.state = "ok"
    /\ phase' = "saved"
    /\ net' = net \ {x}
    /\ UNCHANGED <<bean, dirty, errors, stored, sent, loaded, committed>>

(* Mutation: the error callback of setBean is missing.                    *)
SetFailedSilent(x) ==
    /\ x.op = "setBean" /\ x.state = "err"
    /\ net' = net \ {x}
    /\ UNCHANGED <<phase, bean, dirty, errors, stored, sent, loaded, committed>>

(* setBean error: errors = [{key: 'bean', httpStatus, msg}].              *)
SetFailed(x) ==
    /\ x.op = "setBean" /\ x.state = "err"
    /\ errors' = << "bean" >>
    /\ net' = net \ {x}
    /\ UNCHANGED <<phase, bean, dirty, stored, sent, loaded, committed>>

Next ==
    \/ \E name \in Names :
          \/ EditList(name) \/ Edit(name) \/ Clear(name)
          \/ \E value \in Vals : Add(name, value) \/ BindInput(name, value)
          \/ \E pos \in 0..(MaxLen - 1) : Remove(name, pos)
    \/ Commit
    \/ Rollback
    \/ \E x \in net : \/ AnswerGet(x) \/ AnswerSet(x)
                      \/ GetDone(x) \/ GetFailed(x) \/ SetDone(x) \/ SetFailed(x)

(* The transport answers every request in the end, and the browser runs  *)
(* every callback: weak fairness on the answers and callbacks only, never *)
(* on what the user does.                                                 *)
Fairness ==
    \A n \in 1..MaxRequests :
        /\ WF_vars(\E x \in net : x.n = n /\ (AnswerGet(x) \/ AnswerSet(x)))
        /\ WF_vars(\E x \in net : x.n = n /\ (GetDone(x) \/ GetFailed(x)
                                             \/ SetDone(x) \/ SetFailed(x)))

Spec == Init /\ [][Next]_vars /\ Fairness

-----------------------------------------------------------------------------
TypeOK ==
    /\ phase \in {"loading", "ready", "saved", "left"}
    /\ bean = UNDEF \/ bean \in Props
    /\ dirty = UNDEF \/ dirty \in [Names -> BOOLEAN]
    /\ errors \in {UNDEF, << "bean" >>}
    /\ stored \in Props
    /\ net \subseteq Exchange
    /\ sent \in 1..MaxRequests
    /\ loaded = UNDEF \/ loaded \in Props
    /\ committed = UNDEF \/ committed \in Props

(* spec.md 3: bean property values are arrays at commit time.  No body    *)
(* posted by setBean, and nothing the backend stores, holds a bare        *)
(* string: commit's loop wraps each one before Config.setBean.            *)
OnlyArraysReachBackend ==
    /\ \A x \in net : \A name \in Names : x.body[name].t # "string"
    /\ \A name \in Names : stored[name].t # "string"

(* Every save the user starts is answered to the user: once a setBean is  *)
(* sent, the view eventually navigates to the list or the form, through   *)
(* qnValidate, marks the 'bean' error.                                    *)
CommitOutcomeShown ==
    \A n \in 1..MaxRequests :
        (\E x \in net : x.n = n /\ x.op = "setBean")
            ~> (phase = "saved" \/ "bean" \in DOMAIN V!myServerErrors(errors))

(* The view implements the edit session of EditSession: the form is open  *)
(* while the view is ready, the touched properties are those marked       *)
(* dirty, the loaded bean is what getBean delivered, and every setBean is  *)
(* a save.  Every step of the view is a step of the session: an edit      *)
(* changes one property and marks it, a text input writes only a marked   *)
(* property, commit saves only a dirty form and rewrites only properties  *)
(* that are marked, and answers and callbacks leave the session alone.    *)
(* A form left before its bean arrived never shows it: the session has    *)
(* no bean while 'loaded' is undefined.                                    *)
Session == INSTANCE EditSession WITH
    open <- phase = "ready",
    value <- IF loaded = UNDEF THEN UNDEF ELSE bean,
    touched <- IF dirty = UNDEF THEN {} ELSE {n \in Names : dirty[n]},
    base <- loaded,
    saves <- sent - 1

SessionRefined == Session!Spec

(* After the view has left on a successful save and the backend has       *)
(* answered every save, the backend holds the bean as last committed.     *)
(* Commit stays enabled while a setBean is in flight, so two saves can    *)
(* reach the backend in either order.                                     *)
LastCommitStored ==
    (/\ phase = "saved"
     /\ ~\E x \in net : x.op = "setBean" /\ x.state = "sent")
        => stored = committed

(* spec.md 4.2: a failed call becomes a user-visible error entry.  When  *)
(* the getBean callback of a failed load runs, the view shows an error.   *)
LoadFailureReported ==
    [][\A x \in net \ net' :
          x.op = "getBean" /\ x.state = "err" => errors' = << "bean" >>]_vars
=============================================================================
