--------------------------- MODULE CoredumpViewer ---------------------------
(***************************************************************************)
(* The viewer of past crashes: its table of patients, the page with the    *)
(* details of one, the debugger and the report that can be started from    *)
(* there.  A report on KDE software is another drkonqi on the coredump     *)
(* backend, whose preparation and whose note in the metadata file are part *)
(* of this module; what else it does is BacktraceGenerator's and           *)
(* CrashReporting's subject.                                               *)
(***************************************************************************)
EXTENDS Naturals, Excavation

CONSTANTS
    Patients,       \* crashes in the journal
    KDEPatients,    \* of those, the ones KCrash has left metadata of
    None,           \* no patient
    MaxPrepares     \* bound: preparations of drkonqi's debugger

ASSUME PatientsAssumption ==
    /\ KDEPatients \subseteq Patients
    /\ None \notin Patients \cup Excavators
    /\ MaxPrepares \in Nat

VARIABLES
    viewer,     \* up, or crashed on a null pointer or an empty optional
    unit,       \* the systemd unit each crash happened in, by its prefix
    source,     \* the core file of each crash, as the user finds it
    metadata,   \* crashes whose metadata file names a Sentry event
    listed,     \* patients in the model
    ready,      \* the journal was read to its end
    patient,    \* m_patient of the details loader and of the page
    loader,     \* the patient m_LoaderProcess runs for
    shown,      \* the patient that the page shows details or an error of
    excavator,  \* m_excavator of each patient, None if there is none
    unpacked,   \* patients whose m_coreFileInfo is the unpacked core
    debugged,   \* history: what debuggers were given
    reported,   \* patients whose fault context says so
    offered,    \* the page's report action follows canReport
    watched,    \* patients whose metadata file is watched
    drkonqi,    \* the patient drkonqi runs for
    digger,     \* m_excavator of its CoredumpBackend
    prepares,   \* how often that prepared
    prepared    \* history: what its debuggers were given

crashVars == <<unit, source, metadata>>
pageVars == <<listed, ready, patient, loader, shown>>
debugVars == <<excavator, unpacked, debugged>>
reportVars == <<reported, offered, watched>>
drkonqiVars == <<drkonqi, digger, prepares, prepared>>
vars == <<viewer, crashVars, pageVars, debugVars, reportVars, drkonqiVars>>

Init ==
    /\ viewer = "up"
    /\ unit \in [Patients -> {"app-flatpak", "snap", "other"}]
    /\ source \in [Patients -> {"readable", "unreadable", "missing"}]
    /\ metadata \in SUBSET KDEPatients
    /\ listed = {} /\ ready = FALSE
    /\ patient = None /\ loader = None /\ shown = None
    /\ excavator = [p \in Patients |-> None] /\ unpacked = {} /\ debugged = {}
    /\ reported = {} /\ offered = TRUE /\ watched = {}
    /\ drkonqi = None /\ digger = NewExcavator /\ prepares = 0 /\ prepared = {}

\* A full disk holds the main thread of the process whose excavator writes.
Hanging == {p \in Patients : excavator[p] # None /\ excavator[p].job = "loop"}
Responds == viewer = "up" /\ Hanging = {}

-----------------------------------------------------------------------------
(* What a patient is.                                                       *)

\* The unit decides; only then is KCrash's metadata looked for.
Entity(p) ==
    CASE unit[p] = "app-flatpak"                    -> "Flatpak"
      [] unit[p] = "snap"                           -> "Snap"
      [] unit[p] = "other" /\ p \in KDEPatients     -> "KDE"
      [] unit[p] = "other" /\ p \notin KDEPatients  -> "Distro"

ReportedToKDE(p) == Entity(p) = "KDE" /\ p \in metadata

\* The metadata file is read again: Sentry's event is in it, or not.
LoadKDEFaultContext(p) ==
    reported' = IF ReportedToKDE(p) THEN reported \cup {p} ELSE reported

-----------------------------------------------------------------------------
(* The table and the page.                                                  *)

\* newDump: the patient is made and read from its metadata file.
NewDump(p) ==
    /\ Responds /\ p \notin listed
    /\ listed' = listed \cup {p}
    /\ LoadKDEFaultContext(p)
    /\ UNCHANGED <<viewer, crashVars, ready, patient, loader, shown, debugVars, offered,
                   watched, drkonqiVars>>

AtLogEnd ==
    /\ Responds /\ ~ready
    /\ ready' = TRUE
    /\ UNCHANGED <<viewer, crashVars, listed, patient, loader, shown, debugVars, reportVars,
                   drkonqiVars>>

Load_FaultStays(p) ==
    /\ loader' = IF loader = None THEN p ELSE loader
    /\ UNCHANGED viewer

\* load(): the new process takes the place of the old one, which is destroyed.
\* If that ran, its finished() comes from within: it is the new process that is
\* released then, and there is none left to set up.
Load(p) ==
    IF loader = None
    THEN loader' = p /\ UNCHANGED viewer
    ELSE viewer' = "crashed" /\ UNCHANGED loader

\* setCurrentIndex() and setPatient(); the page forgets what it shows.
SetPatient(p) ==
    /\ Responds /\ ready /\ p \in listed /\ p # patient
    /\ patient' = p
    /\ shown' = None
    /\ Load(p)
    /\ UNCHANGED <<crashVars, listed, ready, debugVars, reportVars, drkonqiVars>>

\* coredumpctl info ended, well or not, or it never was started.
LoaderFinished ==
    /\ Responds /\ loader # None
    /\ loader' = None
    /\ shown' \in {loader, shown}
    /\ UNCHANGED <<viewer, crashVars, listed, ready, patient, debugVars, reportVars,
                   drkonqiVars>>

-----------------------------------------------------------------------------
(* Debugging.                                                               *)

CanDebug(p) == Entity(p) # "Snap" /\ (p \in unpacked \/ source[p] # "missing")

\* launchDebugger(): flatpak has its own tool, which wants the original.
Given(p, content) == IF Entity(p) = "Flatpak" THEN "original" ELSE content

\* The patient launches the debugger on an unpacked core, and releases an
\* excavator that failed, which takes its directory with it.
Hears(p, outcome) ==
    /\ excavator' = [excavator EXCEPT ![p] = IF outcome.said = "failed" THEN None ELSE After(outcome)]
    /\ IF outcome.said = "excavated"
       THEN unpacked' = unpacked \cup {p} /\ debugged' = debugged \cup {Given(p, outcome.core)}
       ELSE UNCHANGED <<unpacked, debugged>>

DebugFirst(p) ==
    /\ excavator[p] = None
    /\ \E outcome \in ExcavateFrom(NewExcavator, source[p]) : Hears(p, outcome)

DebugAgain_FaultAsks(p) ==
    /\ excavator[p] # None
    /\ \E outcome \in ExcavateFrom(excavator[p], source[p]) : Hears(p, outcome)

\* Once more: while the first is under way the core is still the original, packed.
DebugAgain(p) ==
    /\ excavator[p] # None
    /\ p \in unpacked \/ source[p] = "readable"
    /\ debugged' = debugged \cup
                   {IF p \in unpacked THEN Given(p, excavator[p].core) ELSE "original"}
    /\ UNCHANGED <<excavator, unpacked>>

Debug ==
    /\ Responds /\ patient # None /\ CanDebug(patient)
    /\ DebugFirst(patient) \/ DebugAgain(patient)
    /\ UNCHANGED <<viewer, crashVars, pageVars, reportVars, drkonqiVars>>

ExcavatorProgress(p) ==
    /\ Responds /\ excavator[p] # None
    /\ \E outcome \in Progress(excavator[p]) : Hears(p, outcome)
    /\ UNCHANGED <<viewer, crashVars, pageVars, reportVars, drkonqiVars>>

\* systemd removes old cores; a process that reads one goes on reading.
Vacuum(p) ==
    /\ source[p] # "missing"
    /\ source' = [source EXCEPT ![p] = "missing"]
    /\ UNCHANGED <<viewer, unit, metadata, pageVars, debugVars, reportVars, drkonqiVars>>

-----------------------------------------------------------------------------
(* Reporting.                                                               *)

\* Without a reason the action is on offer.  The distribution has a page for bugs.
ReasonForNoReport(p) ==
    CASE Entity(p) = "Flatpak"                                -> "not supported"
      [] Entity(p) = "KDE" /\ ~CanDebug(p)                    -> "nothing to debug"
      [] Entity(p) = "KDE" /\ CanDebug(p) /\ p \in reported   -> "already reported"
      [] OTHER                                                -> ""

CanReport(p) == ReasonForNoReport(p) = ""

\* The action is disabled then, and does not follow canReport any more.
Offer ==
    /\ Responds /\ patient # None /\ offered /\ CanReport(patient)
    /\ offered' = FALSE

ReportToKDE ==
    /\ Offer /\ Entity(patient) = "KDE"
    /\ drkonqi' = patient
    /\ watched' = watched \cup {patient}
    /\ UNCHANGED <<viewer, crashVars, pageVars, debugVars, reported, digger, prepares, prepared>>

\* A page of the web, and a note in the file: it has no name, so nothing is kept.
MarkAsReported ==
    /\ Offer /\ Entity(patient) \in {"Snap", "Distro"}
    /\ reported' = reported \cup {patient}
    /\ UNCHANGED <<viewer, crashVars, pageVars, debugVars, watched, drkonqiVars>>

Report == ReportToKDE \/ MarkAsReported

\* The watched file changed: the fault context is read again.  drkonqi writes the
\* file in place; read in the midst of that it may have none, which is followed.
Dirty(p) ==
    /\ Responds /\ p \in watched
    /\ \/ LoadKDEFaultContext(p) /\ UNCHANGED viewer
       \/ viewer' = "crashed" /\ UNCHANGED reported
    /\ UNCHANGED <<crashVars, pageVars, debugVars, offered, watched, drkonqiVars>>

\* The processor's own drkonqi has delivered the crash: no viewer is told.
ReportedElsewhere(p) ==
    /\ p \in KDEPatients \ metadata
    /\ metadata' = metadata \cup {p}
    /\ UNCHANGED <<viewer, unit, source, pageVars, debugVars, reportVars, drkonqiVars>>

-----------------------------------------------------------------------------
(* The drkonqi that was started, with its CoredumpBackend.                  *)

\* prepareForDebugger(): one excavator for all of its debuggers.
Prepare ==
    /\ drkonqi # None /\ prepares < MaxPrepares /\ digger.job = "none"
    /\ prepares' = prepares + 1
    /\ \E outcome \in ExcavateFrom(digger, source[drkonqi]) :
         /\ digger' = After(outcome)
         /\ prepared' = IF outcome.said = "excavated" THEN prepared \cup {outcome.core} ELSE prepared
    /\ UNCHANGED <<viewer, crashVars, pageVars, debugVars, reportVars, drkonqi>>

DiggerProgress ==
    /\ drkonqi # None
    /\ \E outcome \in Progress(digger) :
         /\ digger' = After(outcome)
         /\ prepared' = IF outcome.said = "excavated" THEN prepared \cup {outcome.core} ELSE prepared
    /\ UNCHANGED <<viewer, crashVars, pageVars, debugVars, reportVars, drkonqi, prepares>>

\* crashEventSent: the event's id goes to the metadata file.
CrashEventSent ==
    /\ drkonqi # None /\ prepared # {} /\ digger.job # "loop"
    /\ metadata' = metadata \cup {drkonqi}
    /\ UNCHANGED <<viewer, unit, source, pageVars, debugVars, reportVars, drkonqiVars>>

DrkonqiEnds ==
    /\ drkonqi # None
    /\ drkonqi' = None /\ digger' = NewExcavator
    /\ UNCHANGED <<viewer, crashVars, pageVars, debugVars, reportVars, prepares, prepared>>

Next ==
    \/ AtLogEnd \/ LoaderFinished \/ Debug \/ Report
    \/ Prepare \/ DiggerProgress \/ CrashEventSent \/ DrkonqiEnds
    \/ \E p \in Patients :
          NewDump(p) \/ SetPatient(p) \/ ExcavatorProgress(p) \/ Vacuum(p) \/ Dirty(p)
          \/ ReportedElsewhere(p)

Spec == Init /\ [][Next]_vars

-----------------------------------------------------------------------------
TypeOK ==
    /\ viewer \in {"up", "crashed"}
    /\ unit \in [Patients -> {"app-flatpak", "snap", "other"}]
    /\ source \in [Patients -> {"readable", "unreadable", "missing"}]
    /\ metadata \subseteq KDEPatients
    /\ {patient, loader, shown} \subseteq Patients \cup {None}
    /\ drkonqi \in KDEPatients \cup {None}
    /\ excavator \in [Patients -> {None} \cup Excavators] /\ digger \in Excavators
    /\ {listed, unpacked, reported, watched} \subseteq SUBSET Patients
    /\ debugged \cup prepared \subseteq Contents \cup {"original"}
    /\ ready \in BOOLEAN /\ offered \in BOOLEAN /\ prepares \in 0..MaxPrepares

\* What the page shows, details or an error, is of the patient it is about, no
\* matter how patients were changed while coredumpctl ran (DetailsLoader.cpp:8-46).
DetailsAreOfPatient == shown \in {None, patient}

\* A debugger started from the viewer gets the original or a core that coredumpctl
\* said it had unpacked to its end, whatever failed before and however often it was
\* asked for (Patient.cpp:122-143, automaticcoredumpexcavator.cpp:46-99).  Such a
\* core is whole, but for an end that was lost in the flush after that, as
\* coredumpexcavator.cpp:28 does not look at its result.
NoStumpIsDebugged == debugged \subseteq {"original", "whole", "cut"}
=============================================================================
