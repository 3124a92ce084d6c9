------------------------------ MODULE MCServices ------------------------------
(* Instances of SerialPort and SystemLog for TLC: two tasks that write, a task   *)
(* that reads with one that writes, two that read with echo, or the system log.  *)
EXTENDS SerialPort, SystemLog

CONSTANTS t1, t2   \* the tasks

VARIABLE part

SvcInit == SerialInit /\ LogInit /\ part \in {"write", "read", "readers", "log"}

Writers == IF part = "write" THEN User ELSE IF part = "read" THEN {t2} ELSE {}
Readers == IF part = "read" THEN {t1} ELSE IF part = "readers" THEN User ELSE {}

\* Writers meet a change of the settings at any time, a reader and a writer between
\* calls; two readers keep those of opening.
SettingsChange ==
  port.openflag /\ port'.openflag =>
    \/ port'.ioctl = port.ioctl \/ part = "write"
    \/ part = "read" /\ \A t \in User : usr[t] = Idle

SerialCalls ==
  \/ PortNext /\ SettingsChange
  \/ \E c \in IF Readers = {} THEN Flow ELSE Flow \union {"data"} : sio_isr_rxi(c)
  \/ \E t \in User : GoOn(t)
  \/ \E t \in Writers, n \in IF part = "write" THEN 1..MaxLen ELSE {1} : _serial_wri_dat(t, n)
  \/ \E t \in Readers : _serial_rea_dat(t, IF t = t2 THEN 1 ELSE MaxLen)

SvcNext ==
  /\ \/ part # "log" /\ SerialCalls /\ UNCHANGED logvars
     \/ part = "log" /\ LogNext /\ UNCHANGED serialvars
  /\ UNCHANGED part

SvcSpec == SvcInit /\ [][SvcNext]_<<serialvars, logvars, part>>

\* What was last told to the peer matters to StopIsRemembered only.
SvcView == <<[port EXCEPT !.lastfc = NONE], usr, logvars, part>>

MCIoctls == {{"ECHO", "CRLF", "FCSND", "FCRCV"}, {"FCSND", "FCANY"}}
MCPlain  == {{"FCRCV"}}
=============================================================================
