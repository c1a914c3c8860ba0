----------------------------- MODULE MCPublish ------------------------------
(* Two producers for versions 1 and 2 of one game, in directories of their   *)
(* own; version 2 is made against version 1 and leaves its chunk out.  A     *)
(* third run shares the first one's directory and makes version 2 as well,   *)
(* of other files.  Two downloads meet them.                                 *)
EXTENDS Publish, TLC
CONSTANTS j1, j2, j3, k1, k2, c1, c2, g
MCGameOf == [p \in {j1, j2, j3, k1, k2} |-> g]
MCVersionOf == (j1 :> 1) @@ (j2 :> 2) @@ (j3 :> 2)
MCFiles == (j1 :> << <<<<"a">>, <<c1>>>> >>)
        @@ (j2 :> << <<<<"a">>, <<c1, c2>>>>, <<<<"b", "c">>, <<c2>>>> >>)
        @@ (j3 :> << <<<<"b">>, <<c2, c2>>>> >>)
MCPrevious == (j1 :> {}) @@ (j2 :> {Hash(c1)}) @@ (j3 :> {})
MCDirOf == (j1 :> "x") @@ (j2 :> "y") @@ (j3 :> "x")
MCWanted == (k1 :> {Hash(c1)}) @@ (k2 :> {Hash(c1), Hash(c2)})
=============================================================================
