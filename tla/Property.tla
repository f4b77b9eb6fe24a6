------------------------------ MODULE Property ------------------------------
(***************************************************************************)
(* The 'Property' service of tools4j-config-property-service.js: edits of *)
(* a bean's properties and of the dirty map.  Every method first sets     *)
(* dirty[name] = true and then changes bean.properties[name]; the two     *)
(* halves are separate operators, applied together by the view actions.  *)
(*                                                                         *)
(* A property value is tagged with its JavaScript type, as typeof sees   *)
(* it: undefined (absent, or set to undefined by clear), a bare string   *)
(* written by a text input, or an array of strings.  A bare string is   *)
(* held as the one-element sequence of its text.                         *)
(***************************************************************************)
EXTENDS Integers, Sequences

CONSTANT UNDEF   \* JavaScript undefined, for a map not yet created

Undef == [t |-> "undefined", v |-> << >>]
Str(c) == [t |-> "string", v |-> << c >>]
Arr(s) == [t |-> "array", v |-> s]

(* 'bean.properties[name] == undefined'.                                  *)
IsUndefined(x) == x.t = "undefined"

(* dirty[name] = true, the first statement of every method.               *)
MarkDirty(name, dirty) == [dirty EXCEPT ![name] = TRUE]

(* editList: an undefined property becomes [].                           *)
editList(name, props) ==
    IF IsUndefined(props[name]) THEN [props EXCEPT ![name] = Arr(<< >>)]
    ELSE props

(* edit: an undefined property becomes [''].                              *)
edit(name, props) ==
    IF IsUndefined(props[name]) THEN [props EXCEPT ![name] = Arr(<< "" >>)]
    ELSE props

(* clear: the property becomes undefined.                                 *)
clear(name, props) == [props EXCEPT ![name] = Undef]

(* add: an undefined property becomes [], then value is pushed.  A bare   *)
(* string has no push: the call throws and the property is left as it is. *)
add(name, value, props) ==
    LET x == IF IsUndefined(props[name]) THEN Arr(<< >>) ELSE props[name]
    IN  IF x.t = "array" THEN [props EXCEPT ![name] = Arr(Append(x.v, value))]
        ELSE props

(* remove: nothing for an undefined property; splice(pos, 1) removes the  *)
(* element at pos when there is one.  A bare string has no splice: the    *)
(* call throws.                                                            *)
remove(name, pos, props) ==
    LET x == props[name]
    IN  IF x.t = "array" /\ pos < Len(x.v)
        THEN [props EXCEPT ![name] =
                Arr(SubSeq(x.v, 1, pos) \o SubSeq(x.v, pos + 2, Len(x.v)))]
        ELSE props

(* isDirty: false for an undefined map, true when some entry is true; a   *)
(* map with no true entry falls off the loop and returns undefined, which *)
(* the callers test as false.                                             *)
isDirty(dirty) ==
    dirty # UNDEF /\ \E name \in DOMAIN dirty : dirty[name]

(* Mutation: the bean is posted without the loop.                        *)
NoNormalize(props) == props

(* The loop before setBean / createBean: a property whose typeof is       *)
(* 'string' becomes the one-element array [value].                        *)
Normalize(props) ==
    [name \in DOMAIN props |->
        IF props[name].t = "string" THEN Arr(props[name].v) ELSE props[name]]
=============================================================================
