---------------------------------- MODULE Vfs ----------------------------------
(***************************************************************************)
(* The RAM disk of kernel/fs/vfs.cpp.  vfs_init fills the table of files   *)
(* at boot and nothing changes it afterwards, so the functions are         *)
(* operators on the table.  Names and contents are sequences of            *)
(* characters; a name is cut to the size of its field.                     *)
(***************************************************************************)
EXTENDS Integers, SequencesExt

CONSTANTS
  MAX_VFS_FILES,
  MAX_FILENAME,  (* size of the name field, its final NUL included         *)
  BuiltIn        (* names and contents of vfs_init's files, in order       *)

Slot == 0 .. MAX_VFS_FILES - 1
Unused == [used |-> FALSE]

strncpy_local(src) == SubSeq(src, 1, Min({Len(src), MAX_FILENAME - 1}))

(* The table after the call; a full one stays as it is. *)
vfs_create_file(files, name, data) ==
  LET free == {i \in Slot : ~files[i].used}
  IN  IF free = {} THEN files
      ELSE [files EXCEPT ![Min(free)] =
              [used |-> TRUE, name |-> strncpy_local(name),
               data |-> data, size |-> Len(data)]]

(* One call of vfs_create_file for each built-in file. *)
vfs_init ==
  LET table[n \in 0 .. Len(BuiltIn)] ==
        IF n = 0 THEN [i \in Slot |-> Unused]
        ELSE vfs_create_file(table[n - 1], BuiltIn[n].name, BuiltIn[n].data)
  IN  table[Len(BuiltIn)]

streql(a, b) == a = b

(* The oldest file of that name; Unused stands for nullptr. *)
vfs_open(files, filename) ==
  LET found == {i \in Slot : files[i].used /\ streql(files[i].name, filename)}
  IN  IF found = {} THEN Unused ELSE files[Min(found)]

(* The first max_out files in use. *)
vfs_list(files, max_out) ==
  LET out_nodes[n \in 0 .. MAX_VFS_FILES] ==
        IF n = 0 THEN <<>>
        ELSE out_nodes[n - 1] \o
               (IF Len(out_nodes[n - 1]) < max_out /\ files[n - 1].used
                THEN <<files[n - 1]>> ELSE <<>>)
  IN  out_nodes[MAX_VFS_FILES]
==============================================================================
