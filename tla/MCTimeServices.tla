---------------------------- MODULE MCTimeServices ----------------------------
(* The instances of MCNotification and of MCServices, one after the other.       *)
EXTENDS MCNotification, MCServices

VARIABLE run   \* "time" or "services": which of them

TSInit ==
  \/ run = "time"     /\ MCInit  /\ SerialInit /\ LogInit /\ part = "log"
  \/ run = "services" /\ SvcInit /\ DcreNtfInit /\ inst = "heap"

TSNext ==
  /\ \/ run = "time"     /\ MCNext  /\ UNCHANGED <<serialvars, logvars, part>>
     \/ run = "services" /\ SvcNext /\ UNCHANGED <<dnvars, inst>>
  /\ UNCHANGED run

TSSpec == TSInit /\ [][TSNext]_<<dnvars, inst, serialvars, logvars, part, run>>

TSView == IF run = "time" THEN MCView ELSE SvcView
=============================================================================
