------------------------ MODULE MCBacktraceGenerator ------------------------
(* TLC instances of BacktraceGenerator: which debugger, which machine.       *)
EXTENDS BacktraceGenerator

RoomySizes   == {"Little", "Spacious"}   \* at least 3 GiB to spare
CrampedSizes == {"Cramped", "Some"}      \* it depends on what else is running
=============================================================================
