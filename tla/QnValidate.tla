----------------------------- MODULE QnValidate -----------------------------
(***************************************************************************)
(* The qnValidate directive of directives.js, on a field inside a form:   *)
(* a watch on the view's error list that, on every change, resets the     *)
(* form's $myServerErrors and adds one invalid entry per error key, a     *)
(* later error of a key replacing an earlier one.  An error is modelled  *)
(* by its key; status and message are carried along unexamined.          *)
(***************************************************************************)
EXTENDS Sequences

CONSTANT UNDEF   \* JavaScript undefined: angular.forEach does nothing

(* form.$myServerErrors after the watch has run on the list 'errors'.      *)
myServerErrors(errors) ==
    LET keys == IF errors = UNDEF THEN {} ELSE {errors[i] : i \in DOMAIN errors}
    IN  [key \in keys |-> [invalid |-> TRUE]]
=============================================================================
