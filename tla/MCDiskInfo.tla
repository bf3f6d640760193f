---------------------------- MODULE MCDiskInfo -----------------------------
(* A disk, a partition of it and another disk.                               *)
EXTENDS DiskInfo

MCDevices == {"sda", "sda1", "sdb"}
MCRelated == {<<"sda", "sda1">>}
=============================================================================
