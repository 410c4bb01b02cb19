---------------------------- MODULE BlockDevice ----------------------------
(***************************************************************************)
(* io/device.rs, io/reader.rs and io/writer.rs: the device behind the      *)
(* cache.  The kernel and the disk are external; what the code relies on   *)
(* is that a pread returns what the last pwrite left, and that a block is  *)
(* on the medium once an fsync issued after its pwrite has succeeded.      *)
(* A transfer is a loop over short transfers, so one that fails may have   *)
(* moved a part of the block.                                              *)
(***************************************************************************)
EXTENDS Blocks

CONSTANT Faults   \* the system calls that may fail in a model

ASSUME FaultsAssumption == Faults \subseteq {"pread", "pwrite", "fsync"}

VARIABLES disk,       \* what a pread of each block returns
          unsynced,   \* the blocks written since the last successful fsync
          fd_open     \* FALSE once BlockDevice::drop has closed the fd

deviceVars == <<disk, unsynced, fd_open>>

DeviceTypeOK == /\ disk \in [Lbas -> Contents]
                /\ unsynced \subseteq Lbas
                /\ fd_open \in BOOLEAN

DeviceInit == /\ disk = [l \in Lbas |-> Block(l, 0)]
              /\ unsynced = {}
              /\ fd_open = TRUE

PutBlock(l, d) == /\ disk' = [disk EXCEPT ![l] = d]
                  /\ unsynced' = unsynced \cup {l}
                  /\ UNCHANGED fd_open

\* write_lba() returns Ok: the block was written in full.
write_lba(l, d) == fd_open /\ PutBlock(l, d)

\* write_lba() returns Err: nothing or a part of the block was written.  On
\* a closed fd the first pwrite fails.
write_lba_err(l) == \/ ~fd_open /\ UNCHANGED deviceVars
                    \/ "pwrite" \in Faults /\ UNCHANGED deviceVars
                    \/ "pwrite" \in Faults /\ fd_open /\ PutBlock(l, Torn)

\* What read_lba() may leave in the buffer when it returns Err.
read_lba_err(old) == IF "pread" \in Faults THEN {old, Torn} ELSE {}

\* sync_device(): fsync commits every earlier pwrite, or fails.
sync_device == \/ fd_open /\ unsynced' = {} /\ UNCHANGED <<disk, fd_open>>
               \/ (~fd_open \/ "fsync" \in Faults) /\ UNCHANGED deviceVars
=============================================================================
