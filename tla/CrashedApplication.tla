------------------------- MODULE CrashedApplication -------------------------
(***************************************************************************)
(* What drkonqi reads of the crashed application once, when its backend    *)
(* starts, and what may be reported of it.  Whether Sentry gets an event   *)
(* and what the windows offer are decided in two places, by two            *)
(* conditions: the interface's and the window's.                           *)
(***************************************************************************)

(* A line of /proc/pid/maps that names a file: the executable, a library,   *)
(* one that starts with "/memfd", or another; with the kernel's mark, and   *)
(* what stat says of the file of this name now.                             *)
MappedFiles ==
    [file   : {"exe", "library", "memfd", "other"},
     marked : BOOLEAN,
     stat   : {"same", "other inode", "error", "overlay"}]

IsMissing(mapped, check) ==
    \/ mapped.marked
    \/ check = "Stat" /\ mapped.stat \in {"other inode", "error"}

HasMapsDeletedFiles(maps, check) ==
    \E mapped \in maps : mapped.file \in {"exe", "library"} /\ IsMissing(mapped, check)

\* KCrashBackend reads the maps of the process, if it still is there to be read,
\* CoredumpBackend those that systemd-coredump put into the journal.
KCrashDeletedFiles(readable, maps) == readable /\ HasMapsDeletedFiles(maps, "DeletedMarker")
CoredumpDeletedFiles(maps) == HasMapsDeletedFiles(maps, "Stat")

\* The bug address: KDE's, in one of its two spellings, another one, or none.
BugReportAddress(address) == IF address = "submit@bugs.kde.org" THEN "bugs.kde.org" ELSE address
IsKdeBugzilla(address) == BugReportAddress(address) = "bugs.kde.org"

\* --safer and the application's name come from the command line.
Applications ==
    [deleted   : {KCrashDeletedFiles(readable, {m}) : readable \in BOOLEAN, m \in MappedFiles}
                 \cup {CoredumpDeletedFiles({m}) : m \in MappedFiles},
     address   : {"submit@bugs.kde.org", "bugs.kde.org", "elsewhere", ""},
     isDrkonqi : BOOLEAN,
     safer     : BOOLEAN]

\* isCrashEventSendingEnabled(), but for the setting.
IsEligible(a) == ~a.deleted /\ IsKdeBugzilla(a.address)

\* Main.qml: any address will do.
CanReport(a) == a.address # "" /\ ~a.isDrkonqi /\ ~a.safer /\ ~a.deleted
CanAutoReport(a) == CanReport(a) \/ (a.address # "" /\ a.isDrkonqi)

\* All the rest of drkonqi ever asks.
Reportability ==
    {[eligible |-> IsEligible(a), bug |-> CanReport(a), auto |-> CanAutoReport(a)] : a \in Applications}
=============================================================================
