---------------------------- MODULE MCCafeUpdate ----------------------------
(* Three versions of a game.  From 1 to 3 file 1 gets a new chunk in front  *)
(* of the one it keeps, and file 2 is renamed to file 3.  From 1 to 2 chunk *)
(* "b" moves from file 1, which is replaced first, to file 3.               *)
EXTENDS CafeUpdate, TLC
MCManifest ==
    (1 :> (1 :> <<"a", "b">> @@ 2 :> <<"c">>)) @@
    (2 :> (1 :> <<"d">> @@ 3 :> <<"b">>)) @@
    (3 :> (1 :> <<"d", "a">> @@ 3 :> <<"c">>))
=============================================================================
