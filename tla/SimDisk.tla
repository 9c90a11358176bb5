------------------------------- MODULE SimDisk -------------------------------
(***************************************************************************)
(* core/disk/disk.c: the simulated disk, as a status with one pending      *)
(* operation.  disk_cmd accepts a command and returns at once; the timer   *)
(* that it arms fires later, at any time, and its handler carries the      *)
(* operation out.  Only disk_cmd arms the timer (once, no repetition) and  *)
(* only with a pending operation, so it is armed while the status is READ  *)
(* or WRITE.  The access time, and with it prev_block, the block the head  *)
(* is at, are abstracted; so is the contents of the blocks.                *)
(***************************************************************************)
EXTENDS Integers

CONSTANTS numblocks, \* blocks in the file behind the disk
          NULL

VARIABLES disk_status, \* disk_t.status of disk.c
          next_block,  \* the block of the pending operation
          buffer       \* the buffer of the pending operation

Commands == {"READ", "WRITE"}

(* The static disk_t before the first command.                              *)
Unknown == disk_status = "UNKNOWN" /\ next_block = 0 /\ buffer = NULL

(* disk_init refuses a disk that is initialised already.                    *)
disk_init ==
  /\ disk_status' = IF disk_status = "UNKNOWN" THEN "IDLE" ELSE disk_status
  /\ next_block' = IF disk_status = "UNKNOWN" THEN 0 ELSE next_block
  /\ UNCHANGED buffer

accepts(block, buf) == disk_status = "IDLE" /\ buf # NULL /\ block \in 0..numblocks-1

(* disk_cmd of DISK_CMD_READ and DISK_CMD_WRITE.                            *)
disk_cmd(cmd, block, buf) ==
  IF accepts(block, buf)
  THEN disk_status' = cmd /\ next_block' = block /\ buffer' = buf
  ELSE UNCHANGED <<disk_status, next_block, buffer>>

(* The handler of SIGIO, up to the raise of SIGUSR1.                        *)
disk_sighandle ==
  /\ disk_status \in Commands
  /\ disk_status' = "IDLE"
  /\ UNCHANGED <<next_block, buffer>>
=============================================================================
