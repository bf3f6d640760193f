----------------------------- MODULE DiskInfo ------------------------------
(* initializeDiskInfo: which filesystems the agent follows, each under the   *)
(* key of an I/O device, and which one of them is the root.  A device is     *)
(* known by its base name; a mount point or a setting is a tuple, so that    *)
(* <<"dev", d>> is a setting that names a device and <<"ef", d>> the folder  *)
(* d of /extra-filesystems.                                                  *)
EXTENDS Naturals, Sequences, FiniteSets

CONSTANTS
  Devices,    \* base names of devices
  Related,    \* pairs of devices one of whose names is a prefix of the other
  MaxParts    \* bound: mounted partitions

Slash == "/"
Keys == Devices \cup {Slash, "root", "data"}
RootMount == <<"root">>
Mounts == {RootMount, <<"hosts">>, <<"data">>} \cup {<<"ef", d>> : d \in Devices}
Settings == {RootMount, <<"data">>} \cup {<<"dev", d>> : d \in Devices}
Unset == <<"unset">>
Partitions == [device : Devices, mount : Mounts]
Entry == [root : BOOLEAN, mount : Mounts]

ASSUME DevicesAssumption ==
  /\ Devices \cap {Slash, "root", "data"} = {}
  /\ Related \subseteq Devices \X Devices
  /\ MaxParts \in Nat

VARIABLES
  partitions, filesystem, counters, busiest,   \* the host: partitions in order, FILESYSTEM,
                                               \* the devices in diskstats, the most active
  fsStats,    \* followed filesystems by key
  hasRoot,
  fsNames,    \* the followed filesystems with I/O counters
  step, next  \* progress of the initialisation

diskVars == <<partitions, filesystem, counters, busiest, fsStats, hasRoot, fsNames, step, next>>
host == <<partitions, filesystem, counters, busiest>>

Steps == {"root", "extra", "partitions", "folders", "last", "prune", "done"}

\* The variables stay in their ranges; a device that is not in diskstats has no I/O.
DiskTypeOK ==
  /\ partitions \in UNION {[1 .. n -> Partitions] : n \in 0 .. MaxParts}
  /\ filesystem \in Settings \cup {Unset}
  /\ counters \subseteq Devices /\ busiest \in Devices
  /\ DOMAIN fsStats \subseteq Keys /\ \A k \in DOMAIN fsStats : fsStats[k] \in Entry
  /\ hasRoot \in BOOLEAN
  /\ fsNames \subseteq counters \cap DOMAIN fsStats
  /\ step \in Steps /\ next \in 1 .. MaxParts + 1

DiskInit ==
  /\ partitions \in UNION {[1 .. n -> Partitions] : n \in 0 .. MaxParts}
  /\ filesystem \in Settings \cup {Unset}
  /\ counters \in SUBSET Devices /\ busiest \in Devices
  /\ fsStats = <<>> /\ hasRoot = FALSE /\ fsNames = {}
  /\ step = "root" /\ next = 1

----------------------------------------------------------------------------
(* Names.                                                                    *)

\* normalizeDeviceName of a setting.
Base(setting) ==
  IF Len(setting) = 2 THEN setting[2] ELSE IF setting = RootMount THEN Slash ELSE setting[1]

prefixRelated(a, b) == <<a, b>> \in Related \/ <<b, a>> \in Related

\* The device with the most I/O of a set.
MostActive(devices) == IF busiest \in devices THEN busiest ELSE CHOOSE d \in devices : TRUE

\* The I/O device of a name, as a set: exact, or the most active of the related ones.
findIoDevice(name) ==
  LET candidates == {d \in counters : prefixRelated(d, name)}
  IN IF name \in counters THEN {name}
     ELSE IF candidates = {} THEN {} ELSE {MostActive(candidates)}

filesystemMatchesPartitionSetting(p) ==
  \/ p.mount = filesystem
  \/ p.device = Base(filesystem)
  \/ prefixRelated(p.device, Base(filesystem))

findPartitionByFilesystemSetting(setting) ==
  {i \in 1 .. Len(partitions) : partitions[i].mount = setting \/ <<"dev", partitions[i].device>> = setting}

First(indices) == CHOOSE i \in indices : \A j \in indices : i <= j

\* The first of the sets that has an element, or the default.
Prefer(sets, default) ==
  LET some == {i \in 1 .. Len(sets) : sets[i] # {}}
  IN IF some = {} THEN default ELSE CHOOSE d \in sets[First(some)] : TRUE

\* The key under which a filesystem is registered.
registerFilesystemStats(device, mount, root) ==
  IF device \in counters THEN device
  ELSE IF root
       THEN Prefer(<<findIoDevice(device),
                      IF filesystem = Unset THEN {} ELSE findIoDevice(Base(filesystem))>>, device)
       ELSE Prefer(<<IF mount[1] = "ef" THEN findIoDevice(mount[2]) ELSE {}, findIoDevice(device)>>, device)

With(stats, key, root, mount) ==
  [k \in DOMAIN stats \cup {key} |-> IF k = key THEN [root |-> root, mount |-> mount] ELSE stats[k]]

\* addFsStat: a key that is taken is left alone.
addFsStat(stats, device, mount, root) ==
  LET key == registerFilesystemStats(device, mount, root)
  IN IF key \in DOMAIN stats THEN stats ELSE With(stats, key, root, mount)

----------------------------------------------------------------------------
(* The steps of initializeDiskInfo.                                          *)

addConfiguredRootFs ==
  LET found == {i \in 1 .. Len(partitions) : filesystemMatchesPartitionSetting(partitions[i])}
      io == findIoDevice(Base(filesystem))
  IN
  /\ step = "root" /\ step' = "extra"
  /\ \/ /\ filesystem = Unset \/ (found = {} /\ io = {})
        /\ UNCHANGED <<fsStats, hasRoot>>
     \/ /\ filesystem # Unset /\ found # {}
        /\ LET p == partitions[First(found)] IN
              fsStats' = addFsStat(fsStats, p.device, p.mount, TRUE)
        /\ hasRoot' = TRUE
     \/ /\ filesystem # Unset /\ found = {} /\ io # {}
        /\ \E key \in io : fsStats' = With(fsStats, key, TRUE, RootMount)
        /\ hasRoot' = TRUE
  /\ UNCHANGED <<host, fsNames, next>>

\* One entry of EXTRA_FILESYSTEMS: a partition, or any path with a usage.
addConfiguredExtraFsEntry(setting) ==
  LET found == findPartitionByFilesystemSetting(setting)
  IN IF found # {}
     THEN addFsStat(fsStats, partitions[First(found)].device, partitions[First(found)].mount, FALSE)
     ELSE IF setting \in Mounts THEN addFsStat(fsStats, Base(setting), setting, FALSE)
     ELSE fsStats

addConfiguredExtraFilesystems(setting) ==
  /\ step = "extra" /\ step' = "partitions"
  /\ fsStats' = IF setting = Unset THEN fsStats ELSE addConfiguredExtraFsEntry(setting)
  /\ UNCHANGED <<host, hasRoot, fsNames, next>>

isRootFallbackPartition(p) == p.mount \in {RootMount, <<"hosts">>}

\* addPartitionRootFs: found once the device is, whether or not its key was free.
addPartitionRootFs(p) ==
  LET io == findIoDevice(p.device)
  IN [found |-> io # {},
      stats |-> IF io = {} THEN fsStats ELSE addFsStat(fsStats, CHOOSE d \in io : TRUE, p.mount, TRUE)]

addPartitionExtraFs(stats, p) ==
  IF p.mount[1] = "ef" THEN addFsStat(stats, p.device, p.mount, FALSE) ELSE stats

Partition ==
  /\ step = "partitions" /\ next <= Len(partitions)
  /\ LET p == partitions[next]
         root == IF ~hasRoot /\ isRootFallbackPartition(p) THEN addPartitionRootFs(p)
                 ELSE [found |-> hasRoot, stats |-> fsStats]
     IN hasRoot' = root.found /\ fsStats' = addPartitionExtraFs(root.stats, p)
  /\ next' = next + 1
  /\ UNCHANGED <<host, fsNames, step>>

PartitionsDone ==
  /\ step = "partitions" /\ next > Len(partitions)
  /\ step' = "folders"
  /\ UNCHANGED <<host, fsStats, hasRoot, fsNames, next>>

\* A folder of /extra-filesystems that is no mount point seen so far.
addExtraFilesystemFolders(d) ==
  /\ step = "folders" /\ step' = "last"
  /\ fsStats' = IF \E k \in DOMAIN fsStats : fsStats[k].mount = <<"ef", d>> THEN fsStats
                ELSE addFsStat(fsStats, d, <<"ef", d>>, FALSE)
  /\ UNCHANGED <<host, hasRoot, fsNames, next>>

NoFolders ==
  /\ step = "folders" /\ step' = "last"
  /\ UNCHANGED <<host, fsStats, hasRoot, fsNames, next>>

\* Mutant: a key that is taken is left alone, as by addFsStat.
addLastResortRootFsPolite ==
  /\ step = "last" /\ step' = "prune"
  /\ fsStats' = IF hasRoot \/ counters = {} \/ MostActive(counters) \in DOMAIN fsStats THEN fsStats
                ELSE With(fsStats, MostActive(counters), TRUE, RootMount)
  /\ UNCHANGED <<host, hasRoot, fsNames, next>>

\* Overwrites whatever has the key of the most active device.
addLastResortRootFs ==
  LET key == IF counters # {} THEN MostActive(counters)
             ELSE IF Slash \in DOMAIN fsStats THEN "root" ELSE Slash
  IN
  /\ step = "last" /\ step' = "prune"
  /\ fsStats' = IF hasRoot THEN fsStats ELSE With(fsStats, key, TRUE, RootMount)
  /\ UNCHANGED <<host, hasRoot, fsNames, next>>

Roots == {k \in DOMAIN fsStats : fsStats[k].root}

\* pruneDuplicateRootExtraFilesystems: extras with the root's usage go; then
\* initializeDiskIoStats.
Prune(twins) ==
  LET kept == {k \in DOMAIN fsStats : Roots = {} \/ k \in Roots \/ fsStats[k].mount \notin twins}
  IN
  /\ step = "prune" /\ step' = "done"
  /\ fsStats' = [k \in kept |-> fsStats[k]]
  /\ fsNames' = kept \cap counters
  /\ UNCHANGED <<host, hasRoot, next>>

\* The mounts with the root's usage: at least its own, unless it cannot be read.
Twins ==
  {{}} \cup {{fsStats[r].mount : r \in Roots} \cup more :
              more \in SUBSET {fsStats[k].mount : k \in DOMAIN fsStats}}

----------------------------------------------------------------------------
DiskNext ==
  \/ addConfiguredRootFs
  \/ \E setting \in Settings \cup {Unset} : addConfiguredExtraFilesystems(setting)
  \/ Partition \/ PartitionsDone
  \/ (\E d \in Devices : addExtraFilesystemFolders(d)) \/ NoFolders
  \/ addLastResortRootFs
  \/ \E twins \in Twins : Prune(twins)

DiskSpec == DiskInit /\ [][DiskNext]_diskVars

----------------------------------------------------------------------------
\* After initializeDiskInfo exactly one filesystem is the root, in a host with any
\* partitions and settings, unless an extra filesystem was registered first under the
\* device of the root partition: then there is none.
OneRoot ==
  step = "done" =>
    \/ Cardinality(Roots) = 1
    \/ /\ Roots = {}
       /\ \E i \in 1 .. Len(partitions) :
            /\ isRootFallbackPartition(partitions[i])
            /\ findIoDevice(partitions[i].device) \cap DOMAIN fsStats # {}
=============================================================================
