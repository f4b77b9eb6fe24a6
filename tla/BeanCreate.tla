----------------------------- MODULE BeanCreate -----------------------------
(***************************************************************************)
(* The bean-create-controller of bean-controller.js, built once the       *)
(* schema catalog is loaded (App shows what happens otherwise): a blank   *)
(* bean with every property of the schema set to [] and every dirty flag *)
(* false, edited through the Property service and posted with             *)
(* Config.createBean.  Each createBean exchange is a record in 'net',     *)
(* answered by the backend and handled by a later callback, in any order.*)
(* The backend keeps the set of beans it has created from this view.     *)
(*                                                                         *)
(* create has no guard: the view's isDirty calls Property.isDirty and     *)
(* drops its result, so nothing stops an untouched bean or a second       *)
(* press while a createBean is in flight.                                  *)
(***************************************************************************)
EXTENDS Integers, Sequences

CONSTANTS
    Names,        \* schema.propertyNames
    Vals,         \* strings a user types or adds
    MaxLen,       \* bound on the length of a property's array
    MaxRequests,  \* bound on the createBean requests
    UNDEF         \* JavaScript undefined

VARIABLES
    phase,    \* "ready"; "saved" after $location.path(list) on success
    bean,     \* $scope.bean.properties: [Names -> value]
    dirty,    \* $scope.dirty: [Names -> BOOLEAN]
    errors,   \* $scope.errors: UNDEF or the sequence of error keys
    created,  \* the bodies the backend has created
    net,      \* createBean exchanges whose callback has not run
    sent      \* createBean requests issued so far

vars == <<phase, bean, dirty, errors, created, net, sent>>

P == INSTANCE Property
V == INSTANCE QnValidate

Value ==
    {P!Undef} \cup {P!Str(c) : c \in Vals \cup {""}} \cup
    {P!Arr(s) : s \in UNION {[1..k -> Vals \cup {""}] : k \in 0..MaxLen}}
Props == [Names -> Value]

ASSUME MaxLen \in Nat /\ MaxRequests \in Nat

Exchange == [n : 1..MaxRequests, body : Props, state : {"sent", "ok", "err"}]

-----------------------------------------------------------------------------
(* Mutation: the construction loop runs to i <= propertyNames.length and  *)
(* sets dirty[undefined] = false as well.                                 *)
InitPastEnd ==
    /\ phase = "ready"
    /\ bean = [name \in Names |-> P!Arr(<< >>)]
    /\ dirty = [name \in Names \cup {UNDEF} |-> FALSE]
    /\ errors = UNDEF
    /\ created = {}
    /\ net = {}
    /\ sent = 0

(* Controller construction: the blank bean and a clean dirty map.         *)
Init ==
    /\ phase = "ready"
    /\ bean = [name \in Names |-> P!Arr(<< >>)]
    /\ dirty = [name \in Names |-> FALSE]
    /\ errors = UNDEF
    /\ created = {}
    /\ net = {}
    /\ sent = 0

(* A scope method that calls a Property method: dirty, then the bean.     *)
EditStep(name, newProps) ==
    /\ phase = "ready"
    /\ dirty' = P!MarkDirty(name, dirty)
    /\ bean' = newProps
    /\ UNCHANGED <<phase, errors, created, net, sent>>

EditList(name) == EditStep(name, P!editList(name, bean))
Edit(name) == EditStep(name, P!edit(name, bean))
Clear(name) == EditStep(name, P!clear(name, bean))
Add(name, value) ==
    /\ EditStep(name, P!add(name, value, bean))
    /\ (bean[name].t = "array" => Len(bean[name].v) < MaxLen)
Remove(name, pos) == EditStep(name, P!remove(name, pos, bean))

(* A text input bound to bean.properties[name] (the template): writes a   *)
(* bare string into a property that edit has opened.                      *)
BindInput(name, c) ==
    /\ phase = "ready"
    /\ dirty[name]
    /\ bean' = [bean EXCEPT ![name] = P!Str(c)]
    /\ UNCHANGED <<phase, dirty, errors, created, net, sent>>

(* Mutation: the createBean error callback is missing.                    *)
CreateFailedSilent(x) ==
    /\ x.state = "err"
    /\ net' = net \ {x}
    /\ UNCHANGED <<phase, bean, dirty, errors, created, sent>>

(* $scope.create: bare strings become one-element arrays in place, then   *)
(* Config.createBean($scope.bean).                                        *)
create ==
    /\ phase = "ready"
    /\ sent < MaxRequests
    /\ bean' = P!Normalize(bean)
    /\ net' = net \cup {[n |-> sent + 1, body |-> bean', state |-> "sent"]}
    /\ sent' = sent + 1
    /\ UNCHANGED <<phase, dirty, errors, created>>

(* The backend creates the bean and answers, the answer possibly lost;   *)
(* or it rejects the bean.                                                *)
AnswerCreate(x) ==
    /\ x.state = "sent"
    /\ \/ /\ created' = created \cup {x.body}
          /\ \E st \in {"ok", "err"} : net' = (net \ {x}) \cup {[x EXCEPT !.state = st]}
       \/ /\ net' = (net \ {x}) \cup {[x EXCEPT !.state = "err"]}
          /\ UNCHANGED created
    /\ UNCHANGED <<phase, bean, dirty, errors, sent>>

(* createBean success: $location.path('/bean-list/' + schemaName); the    *)
(* $broadcast from this scope reaches no listener of this view.           *)
CreateDone(x) ==
    /\ x.state = "ok"
    /\ phase' = "saved"
    /\ net' = net \ {x}
    /\ UNCHANGED <<bean, dirty, errors, created, sent>>

(* createBean error: errors = [{key: 'bean', httpStatus, msg}].           *)
CreateFailed(x) ==
    /\ x.state = "err"
    /\ errors' = << "bean" >>
    /\ net' = net \ {x}
    /\ UNCHANGED <<phase, bean, dirty, created, sent>>

Next ==
    \/ \E name \in Names :
          \/ EditList(name) \/ Edit(name) \/ Clear(name)
          \/ \E value \in Vals : Add(name, value) \/ BindInput(name, value)
          \/ \E pos \in 0..(MaxLen - 1) : Remove(name, pos)
    \/ create
    \/ \E x \in net : AnswerCreate(x) \/ CreateDone(x) \/ CreateFailed(x)

(* The transport answers every request and the browser runs every         *)
(* callback; nothing is assumed of the user.                               *)
Fairness ==
    \A n \in 1..MaxRequests :
        /\ WF_vars(\E x \in net : x.n = n /\ AnswerCreate(x))
        /\ WF_vars(\E x \in net : x.n = n /\ (CreateDone(x) \/ CreateFailed(x)))

Spec == Init /\ [][Next]_vars /\ Fairness

-----------------------------------------------------------------------------
TypeOK ==
    /\ phase \in {"ready", "saved"}
    /\ bean \in Props
    /\ dirty \in [Names -> BOOLEAN]
    /\ errors \in {UNDEF, << "bean" >>}
    /\ created \subseteq Props
    /\ net \subseteq Exchange
    /\ sent \in 0..MaxRequests

(* spec.md 3 and 4.4: create normalises like commit.  No createBean body, *)
(* and no bean the backend creates, holds a bare string written by a text *)
(* input: create's loop wraps each one before Config.createBean.          *)
OnlyArraysReachBackend ==
    /\ \A x \in net : \A name \in Names : x.body[name].t # "string"
    /\ \A b \in created : \A name \in Names : b[name].t # "string"

(* Every create the user presses is answered to the user: once a          *)
(* createBean is sent, the view eventually navigates to the list or the   *)
(* form, through qnValidate, marks the 'bean' error.                      *)
CreateOutcomeShown ==
    \A n \in 1..MaxRequests :
        (\E x \in net : x.n = n)
            ~> (phase = "saved" \/ "bean" \in DOMAIN V!myServerErrors(errors))
=============================================================================
