---------------------------- MODULE MCBeanList -----------------------------
(***************************************************************************)
(* Bean list view for TLC.  The main instance has two schemas and three   *)
(* ids with pages of two beans: schema s1 starts with two pages, so that  *)
(* the cursor can move and a delete can remove the second page; s2 starts *)
(* with one bean.  The End instance has one schema of five beans, three   *)
(* pages, so that the cursor can stand two pages from the first while the *)
(* data shrinks under it.                                                 *)
(***************************************************************************)
EXTENDS BeanList, TLC

CONSTANTS s1, s2

MCSchemas == {s1, s2}
MCIds == 1..3
MCInitServer == (s1 :> {1, 2, 3}) @@ (s2 :> {2})

EndSchemas == {s1}
EndIds == 1..5
EndInitServer == s1 :> 1..5
=============================================================================
