---------------------------- MODULE MCBeanDetail ----------------------------
(***************************************************************************)
(* Bean detail view for TLC: a schema of one property, stored as ["a"];  *)
(* arrays of up to two strings; a load and two saves, so that two saves *)
(* can be in flight at once.                                              *)
(***************************************************************************)
EXTENDS BeanDetail

MCInitStored == [name \in Names |->
                    P!Arr(<< "a" >>)]
=============================================================================
