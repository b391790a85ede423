----------------------------- MODULE Excavation -----------------------------
(***************************************************************************)
(* AutomaticCoredumpExcavator: it has the core of a crash unpacked into a  *)
(* directory of its own, by coredumpctl if the core can be read, else by a *)
(* helper that runs as root once polkit agrees.  An excavator is a record: *)
(* the content of the file "core" in m_coreDir, and who writes it.  A call *)
(* or an event has a set of outcomes: the excavator after it and the       *)
(* signal it emits, which is for the owner to handle: a patient of the     *)
(* viewer or drkonqi's backend, both in module CoredumpViewer.             *)
(***************************************************************************)
Contents == {"none", "empty", "partial", "cut", "whole"}
Jobs == {"none", "coredumpctl", "unstarted", "loop", "helper", "deafHelper"}
Signals == {"silence", "excavated", "failed"}

Excavators == [core : Contents, job : Jobs]
NewExcavator == [core |-> "none", job |-> "none"]

Outcome(signal, content, worker) == [said |-> signal, core |-> content, job |-> worker]

After(outcome) == [core |-> outcome.core, job |-> outcome.job]

\* excavateFrom() on a file that is there: nobody asks how it got there.
FoundCore(e) == {Outcome("excavated", e.core, e.job)}

\* The file is opened before the source is looked at, and stays if that is gone.
\* A coredumpctl that cannot be started never finishes, and nothing else is heard.
OpenCore(source) ==
    CASE source = "missing"    -> {Outcome("failed", "empty", "none")}
      [] source = "readable"   -> {Outcome("silence", "empty", "coredumpctl"),
                                   Outcome("silence", "empty", "unstarted")}
      [] source = "unreadable" -> {Outcome("silence", "empty", "helper")}

\* Neither a directory nor a file may be had.
CannotOpen == {Outcome("failed", "none", "none")}

ExcavateFrom(e, source) ==
    IF e.core # "none" THEN FoundCore(e) ELSE CannotOpen \cup OpenCore(source)

\* What coredumpctl prints is written.  On a full disk the loop around write()
\* does not end, wherever it runs.
DumpArrives(e) ==
    IF e.job \in {"coredumpctl", "helper"} /\ e.core = "empty"
    THEN {Outcome("silence", "partial", e.job)}
    ELSE {}

DiskFull(e) ==
    CASE e.job = "coredumpctl" -> {Outcome("silence", e.core, "loop")}
      [] e.job = "helper"      -> {Outcome("silence", e.core, "deafHelper")}
      [] OTHER                 -> {}

\* coredumpctl did well, and what write() has buffered is flushed: nobody asks
\* whether that failed on a disk that is full by now, and cut the core's end off.
Flushed(e) ==
    IF e.core = "partial"
    THEN {Outcome("excavated", "whole", "none"), Outcome("excavated", "cut", "none")}
    ELSE {}

\* finished(): the exit code tells success.
CoredumpctlFinished(e) ==
    IF e.job = "coredumpctl" THEN {Outcome("failed", e.core, "none")} \cup Flushed(e) ELSE {}

\* saveCoreToFile(): authorised, and coredumpctl did well.
HelperReplies(e) == IF e.job = "helper" THEN Flushed(e) ELSE {}

\* Not authorised, an error in the helper, or its five minutes are over: the one
\* failure after which the directory is discarded.
HelperFails(e) ==
    IF e.job \in {"helper", "deafHelper"} THEN {Outcome("failed", "none", "none")} ELSE {}

Progress(e) == DumpArrives(e) \cup DiskFull(e) \cup CoredumpctlFinished(e)
               \cup HelperReplies(e) \cup HelperFails(e)
=============================================================================
