---------------------------- MODULE ImageStore ----------------------------
(***************************************************************************)
(* The batch storage of image_store.c: a batch's image data lives in a     *)
(* System V shared-memory segment made by its producer; in STORAGE_MMAP    *)
(* mode image_batch_setup_storage copies it to a fresh file under          *)
(* /usr/share/dipp/data and removes the segment, and image_batch_read_data *)
(* maps that file back when the pipeline completes; in STORAGE_MEM mode    *)
(* read_data attaches the segment.                                          *)
(*                                                                         *)
(* Contents are abstracted to "img" (the producer's bytes), "zeros" (a     *)
(* file created or extended by ftruncate), "absent" (no file) and "none"   *)
(* (no segment).  The queues store descriptors with data = NULL, so        *)
(* batch->data matters only within read_data and its caller: "null",       *)
(* "bad" (MAP_FAILED or (void * )-1), "file" (a mapping of the batch's     *)
(* file) or "seg" (an attached segment).  StorageFails lets every open,    *)
(* fstat, ftruncate, mmap, shmat, shmdt, shmctl and munmap fail.           *)
(***************************************************************************)
CONSTANTS
  Batches,
  StorageFails,  \* whether the storage system calls may fail
  StorageModes   \* the modes STORAGE_MODE may select: a subset of {"MMAP", "MEM"}

VARIABLES
  storageMode,  \* global_storage_mode (get_env_vars)
  shm,          \* the batch's shared-memory segment
  file,         \* the batch's data file
  fname         \* batch->filename[0] != '\0'

storeVars == <<storageMode, shm, file, fname>>

StoreTypeOK ==
  /\ storageMode \in {"MMAP", "MEM"}
  /\ shm \in [Batches -> {"img", "none"}]
  /\ file \in [Batches -> {"absent", "zeros", "img"}]
  /\ fname \in [Batches -> BOOLEAN]

\* STORAGE_MODE selects MEM or MMAP; MMAP is the default.
StoreInit ==
  /\ storageMode \in StorageModes
  /\ shm = [b \in Batches |-> "none"]
  /\ file = [b \in Batches |-> "absent"]
  /\ fname = [b \in Batches |-> FALSE]

(***************************************************************************)
(* persist_data_if_necessary, MMAP with no filename: the filename is set,  *)
(* then open(O_TRUNC), ftruncate, mmap, shmat, memcpy, shmdt,              *)
(* shmctl(IPC_RMID), munmap.  Each record is the [file, shm] a return      *)
(* leaves, by the step that fails.  A mapping left by a failure is never   *)
(* unmapped; mappings are not modelled.                                    *)
(***************************************************************************)
PersistOutcomes(b) ==
  LET attachFails == [file |-> "zeros", shm |-> shm[b]]
      done == IF shm[b] = "img" THEN {[file |-> "img", shm |-> "none"]}
              ELSE {attachFails}
  IN  done \cup
        (IF StorageFails
           THEN {[file |-> "absent", shm |-> shm[b]],        \* open
                 attachFails}                                \* ftruncate, mmap, shmat
                \cup (IF shm[b] = "img"
                        THEN {[file |-> "img", shm |-> "img"],    \* shmdt, shmctl
                              [file |-> "img", shm |-> "none"]}   \* munmap
                        ELSE {})
           ELSE {})

\* image_batch_setup_storage(batch, global_storage_mode).  Its result goes
\* to get_message_from_queue, which ignores it.
SetupStorage(b) ==
  IF storageMode = "MMAP" /\ ~fname[b]
    THEN /\ fname' = [fname EXCEPT ![b] = TRUE]
         /\ \E o \in PersistOutcomes(b) :
              /\ file' = [file EXCEPT ![b] = o.file]
              /\ shm' = [shm EXCEPT ![b] = o.shm]
    ELSE UNCHANGED <<fname, file, shm>>

(***************************************************************************)
(* image_batch_read_data for a batch set up by SetupStorage: in MMAP mode  *)
(* the filename is set, and the file is created (O_CREAT) and extended     *)
(* when missing, or opened without O_TRUNC and extended when short; in MEM *)
(* mode the segment is attached.  The dequeued copy has data = NULL, and a *)
(* failure before mmap leaves it so.  Each record is the data pointer and  *)
(* the file a return leaves.                                               *)
(***************************************************************************)
\* Fault variant: an existing file is opened with O_TRUNC.
ReadOutcomesTruncate(b) ==
  CASE storageMode = "MEM" ->
         {[data |-> IF shm[b] = "img" THEN "seg" ELSE "bad", file |-> file[b]]}
    [] OTHER -> {[data |-> "file", file |-> "zeros"]}

ReadOutcomes(b) ==
  LET fails(f) == IF StorageFails
                    THEN {[data |-> "null", file |-> f],       \* open, fstat, ftruncate
                          [data |-> "bad", file |-> f]}        \* mmap, shmat
                    ELSE {}
  IN  CASE storageMode = "MEM" ->
             {[data |-> IF shm[b] = "img" THEN "seg" ELSE "bad", file |-> file[b]]}
             \cup {r \in fails(file[b]) : r.data = "bad"}
        [] file[b] = "absent" ->
             {[data |-> "file", file |-> "zeros"]}
             \cup fails("zeros")
             \cup (IF StorageFails THEN {[data |-> "null", file |-> "absent"]} ELSE {})
        [] OTHER ->
             {[data |-> "file", file |-> file[b]]} \cup fails(file[b])

\* What upload(data, ...) reads through a pointer; an invalid one faults.
Content(b, p) ==
  CASE p = "file" -> file'[b]
    [] p = "seg" -> shm[b]
    [] OTHER -> "bad"

=============================================================================
