---------------------------- MODULE MCDiskManager ----------------------------
(* Instances of DiskManager: the driver and two or three clients.            *)
EXTENDS DiskManager

CONSTANTS driver, t1, t2, t3

TwoClients   == {driver, t1, t2}
ThreeClients == {driver, t1, t2, t3}

DiskSems   == {s_disk}
DiskQueues == {s_disk, DiskQueue}
DiskValues == [s \in Sems |-> 1]
DiskCalls  == {"put", "wake", "wait", "check", "clear", "look", "take", "issue", "sleep"}

DiskPrograms == [t \in Tasks |-> IF t = Driver THEN disk_driver ELSE disk_block_op]

(* Block 0 is the only block of the disk.                                    *)
Read(b, buf)  == [op |-> "READ", block |-> b, buffer |-> buf]
Write(b, buf) == [op |-> "WRITE", block |-> b, buffer |-> buf]

ValidAsks == [t \in Clients |-> {Read(0, t)}]
(* One client whose requests the disk accepts, and one that asks for a block *)
(* that does not exist or gives no buffer.                                   *)
MixedAsks == [t \in Clients |-> IF t = t1 THEN {Read(0, t)} ELSE {Write(1, t), Write(0, NULL)}]

(* Sound where all clients ask for the same: nothing else tells them apart.  *)
SymmetricClients == Permutations(Clients)
=============================================================================
