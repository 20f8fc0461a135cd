---------------------------- MODULE MCFilesystem ----------------------------
(***************************************************************************)
(* Instances of Filesystem.                                                *)
(*   fs_dumps: any number of the 8 blocks is taken at first.  The ninth is *)
(*     past bloques.dat but in its last page, the tenth is past the        *)
(*     mapping; the ninth bit is past the only byte of bitmap.dat.  An     *)
(*     index block has room for four pointers.                             *)
(*   fs_lleno: the two blocks of the disk are those of the data of d1.     *)
(*   fs_doble: two dumps on an empty disk.                                 *)
(***************************************************************************)
EXTENDS FilesystemProps, TLC

CONSTANTS d1, d2

UnDump    == {d1}
DosDumps  == {d1, d2}
Chicos    == d1 :> 9 @@ d2 :> 5
Grandes   == d1 :> 33 @@ d2 :> 17
Todos     == 0..8
Vacia     == {0}
=============================================================================
