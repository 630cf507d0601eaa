---------------------------- MODULE MCMigration ----------------------------
(* A small instance of Migration: two tables of the allowlist and one      *)
(* outside it, with a row each.  The second schema gives a serverId to the *)
(* table that the first and the third know without one; the third is not   *)
(* in the operator's allowlist.                                            *)
EXTENDS Migration, TLC

CONSTANTS a, c, d, apps, disks, stacks, s1, h1, h2, h3, w1

MCRes == {a, c, d}
MCServer == {Local, s1}
MCHash == {h1, h2, h3}
MCAllowed == {h1, h2}
MCTable == {apps, disks, stacks}
MCRetargetTables == {apps, stacks}
MCTableOf == (a :> apps) @@ (c :> stacks) @@ (d :> disks)
MCTableOrder == <<apps, disks, stacks>>
MCPlace == (a :> 1) @@ (d :> 2) @@ (c :> 3)
MCListed == {a, c}
MCRetargetable == (h1 :> {apps, disks}) @@ (h2 :> {apps, disks, stacks})
                  @@ (h3 :> {apps, disks})
MCVersion == (h1 :> 1) @@ (h2 :> 2) @@ (h3 :> 3)
MCRequests == {}
MCWriter == {w1}
=============================================================================
