------------------------------- MODULE Upgrade -------------------------------
(***************************************************************************)
(* eat_upgrade_app of internal.c: a file is read into memory and written   *)
(* to the second half of the application's flash, and the vendor's core    *)
(* (external) is told to copy it over the half that runs.                  *)
(*                                                                         *)
(* Of an image only one thing matters: it is a whole application, or not.  *)
(* What could be read of the file decides it, and which writes completed.  *)
(* Images fit their half and the buffer is as large as the image; whether  *)
(* the file is an application at all is the caller's affair.               *)
(***************************************************************************)
EXTENDS Naturals

CONSTANT HeapBlocks   \* how many buffers of that size the heap has room for

ASSUME UpgradeAssumption == HeapBlocks \in Nat

VARIABLES
  up,           \* where eat_upgrade_app is; "out": outside
  data,         \* the buffer holds the whole image
  buffers,      \* buffers the heap still has room for
  storage,      \* external: the second half of the flash holds a whole image
  run,          \* external: so does the half that runs
  pending,      \* external: the update flag of the core, "none" or set, and how
                \* far the update is: "copy", "done" or "failed"
  blind         \* history: the last attempt that got to eat_update_app had
                \* not read the whole file

flash == <<storage, run, pending>>
uvars == <<up, data, buffers, flash, blind>>

UInit ==
  /\ up = "out" /\ data = FALSE
  /\ buffers = HeapBlocks
  /\ storage = FALSE /\ run = TRUE /\ pending = "none"
  /\ blind = FALSE

alloc_unbounded ==      \* a mutant: the heap always has room
  buffers' = buffers - 1

\* eat_mem_alloc: NULL when there is no room, which nobody tests.
eat_mem_alloc == buffers' = IF buffers > 0 THEN buffers - 1 ELSE 0

\* Open, size, allocation, read, close.  No result is looked at: fileHandle is
\* unsigned, so an error is no error, and size is then whatever it was.  A store
\* through the null pointer may also end in a reset, which is possible anywhere.
read_file ==
  /\ up = "out"
  /\ \/ eat_mem_alloc /\ data' \in {FALSE, buffers > 0}
     \/ UNCHANGED buffers /\ data' = FALSE
  /\ up' = "erase"
  /\ UNCHANGED <<flash, blind>>

\* The buffer is not freed on the way out, here or in flash_write.
flash_erase ==
  /\ up = "erase"
  /\ \/ storage' = FALSE /\ up' = "write"
     \/ storage' \in {storage, FALSE} /\ up' = "out"
  /\ UNCHANGED <<data, buffers, run, pending, blind>>

write_unchecked ==      \* a mutant: rc is not looked at after eat_flash_write
  /\ up = "write"
  /\ storage' \in {data, FALSE}
  /\ up' = "update"
  /\ UNCHANGED <<data, buffers, run, pending, blind>>

flash_write ==
  /\ up = "write"
  /\ \/ storage' = data /\ up' = "update"
     \/ storage' = FALSE /\ up' = "out"
  /\ UNCHANGED <<data, buffers, run, pending, blind>>

\* The call that does not return: the module restarts into the copy.
eat_update_app ==
  /\ up = "update"
  /\ pending' = "copy"
  /\ blind' = ~data
  /\ UNCHANGED <<storage, run>>

\* A restart: memory is lost, and what was being erased or written is torn.
upgrade_restart ==
  /\ up' = "out" /\ data' = FALSE
  /\ buffers' = HeapBlocks

torn_storage == storage' \in (IF up \in {"erase", "write"} THEN {storage, FALSE} ELSE {storage})

-----------------------------------------------------------------------------
(* External: the core, before it starts the application *)

copy_image ==
  /\ pending = "copy"
  /\ run' = storage
  /\ pending' = "done"
  /\ UNCHANGED <<up, data, buffers, storage, blind>>

\* The core gives up, before it has touched the half that runs or after, and does
\* not try again.
copy_fails ==
  /\ pending = "copy"
  /\ run' \in {run, FALSE}
  /\ pending' = "failed"
  /\ UNCHANGED <<up, data, buffers, storage, blind>>

\* The flag outlives a power failure, and the copy starts over.
copy_cut ==
  /\ pending = "copy"
  /\ run' = FALSE
  /\ UNCHANGED <<up, data, buffers, storage, pending, blind>>

\* What the core tells app_main of the flag.
is_update_app == pending # "none"
update_app_result == pending = "done"

\* Clears the flag.
eat_update_app_ok ==
  /\ pending' = "none"
  /\ UNCHANGED <<up, data, buffers, storage, run, blind>>
=============================================================================
