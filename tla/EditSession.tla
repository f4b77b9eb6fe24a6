---------------------------- MODULE EditSession -----------------------------
(***************************************************************************)
(* What an edit form promises, after spec.md 3 and 4.4: a bean is loaded  *)
(* once, with no property touched; the user changes properties, and each  *)
(* change marks its property touched; a save is possible only when some   *)
(* property is touched, and it may reformat touched properties only (the  *)
(* one-element-list normalisation) and nothing else; leaving the form     *)
(* closes it.  Untouched properties therefore always hold the loaded      *)
(* value.                                                                  *)
(***************************************************************************)
EXTENDS Naturals

CONSTANTS
    Names,   \* the schema's property names
    Value,   \* the values a property can hold
    UNDEF    \* no bean loaded yet

VARIABLES
    open,     \* the form is shown and editable
    value,    \* the bean's properties: UNDEF or [Names -> Value]
    touched,  \* the properties changed in this session
    base,     \* the properties as loaded
    saves     \* saves submitted so far

avars == <<open, value, touched, base, saves>>

Init ==
    /\ open = FALSE
    /\ value = UNDEF
    /\ touched = {}
    /\ base = UNDEF
    /\ saves = 0

Load ==
    /\ value = UNDEF
    /\ \E v \in [Names -> Value] : value' = v /\ base' = v
    /\ open' = TRUE
    /\ touched' = {}
    /\ UNCHANGED saves

Change(n) ==
    /\ open
    /\ touched' = touched \cup {n}
    /\ \E x \in Value : value' = [value EXCEPT ![n] = x]
    /\ UNCHANGED <<open, base, saves>>

Save ==
    /\ open
    /\ touched # {}
    /\ \E w \in [Names -> Value] :
          /\ \A n \in Names \ touched : w[n] = value[n]
          /\ value' = w
    /\ saves' = saves + 1
    /\ UNCHANGED <<open, touched, base>>

Close ==
    /\ open
    /\ open' = FALSE
    /\ UNCHANGED <<value, touched, base, saves>>

Next == Load \/ (\E n \in Names : Change(n)) \/ Save \/ Close

Spec == Init /\ [][Next]_avars

(* Untouched properties hold the loaded value.                            *)
UntouchedAsLoaded ==
    open => \A n \in Names \ touched : value[n] = base[n]
=============================================================================
