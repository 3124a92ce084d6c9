------------------------------ MODULE SerialPort ------------------------------
(***************************************************************************)
(* One port of the serial interface driver (syssvc/serial.c) on the SCI of *)
(* the RX65N (arch/rx_gcc/rx65n/prc_serial.c).  Tasks that write and read  *)
(* are serialised by two semaphores of at most one unit, whose unit is     *)
(* handed on through the full (empty) buffer by the interrupt handlers.    *)
(* A step is a section under CPU lock, a semaphore call or an interrupt    *)
(* handler; tasks interleave in any order.  A semaphore is its counter: a  *)
(* task whose step needs a unit waits for it.                              *)
(***************************************************************************)
EXTENDS Integers, Sequences, FiniteSets

CONSTANTS
  User,        \* the tasks that use the port
  SndBufSz,    \* snd_bufsz
  RcvBufSz,    \* rcv_bufsz
  MaxLen,      \* the longest string a call writes or reads
  IoctlSet,    \* the settings ctl_por is called with
  PortApi      \* the optional calls: "cls_busy" (closing under a running call)

ASSUME SerialPortAssumption ==
  /\ SndBufSz \in Nat \ {0} /\ RcvBufSz \in Nat \ {0} /\ MaxLen \in Nat \ {0}
  /\ IoctlSet \subseteq SUBSET {"ECHO", "CRLF", "FCSND", "FCRCV", "FCANY"}
  /\ "none" \notin User

VARIABLES
  port,   \* the SPCB, its semaphores, and the transmitter
  usr     \* where each task is in _serial_wri_dat or _serial_rea_dat

serialvars == <<port, usr>>

NONE  == "none"
STOP  == "STOP"      \* FC_STOP
START == "START"     \* FC_START
Flow  == {STOP, START}

BUFCNT_STOP  == (RcvBufSz * 3) \div 4
BUFCNT_START == RcvBufSz \div 2

\* tdr: the character in the transmit register; txen: TXI is enabled at the
\* interrupt controller; txreq: its request is latched there; lastfc: the last
\* START or STOP given to the transmitter; rcv_lost (not in the code): a reader
\* released while it waited to echo has taken the receive unit with it.
ClosedPort ==
  [openflag |-> FALSE, errorflag |-> FALSE, ioctl |-> {},
   rcv_count |-> 0, rcv_fc_chr |-> NONE, rcv_stopped |-> FALSE,
   snd |-> << >>, snd_stopped |-> FALSE, snd_sem |-> 1, rcv_sem |-> 0,
   tdr |-> NONE, txen |-> FALSE, txreq |-> TRUE, lastfc |-> START,
   rcv_lost |-> FALSE]

Idle == [at |-> "idle", call |-> "none", left |-> 0, empty |-> TRUE, cr |-> FALSE]

-----------------------------------------------------------------------------
(* The transmitter (prc_serial.c). *)

TDRE(p) == p.tdr = NONE

sio_snd_chr(p, c) == [p EXCEPT !.tdr = c, !.lastfc = IF c \in Flow THEN c ELSE @]

sio_ena_cbr(p) == [p EXCEPT !.txen = TRUE]
sio_dis_cbr(p) == [p EXCEPT !.txen = FALSE]

\* The register hands its character to the line: TXI is requested, whether or
\* not it is enabled.
Transmit ==
  /\ ~TDRE(port)
  /\ port' = [port EXCEPT !.tdr = NONE, !.txreq = TRUE]
  /\ UNCHANGED usr

-----------------------------------------------------------------------------
(* Helpers of the driver. *)

\* sig_sem of a semaphore with maxsem 1; E_QOVR makes the port unusable.
SigSnd(p) == IF p.snd_sem = 0 THEN [p EXCEPT !.snd_sem = 1] ELSE [p EXCEPT !.errorflag = TRUE]
SigRcv(p) == IF p.rcv_sem = 0 THEN [p EXCEPT !.rcv_sem = 1] ELSE [p EXCEPT !.errorflag = TRUE]

SndFull(p) == Len(p.snd) = SndBufSz

serial_snd_chr_NotEnabled(p, c) == IF TDRE(p) THEN sio_snd_chr(p, c) ELSE p

\* serial_snd_chr has sent the character iff TDRE(p).
serial_snd_chr(p, c) == IF TDRE(p) THEN sio_snd_chr(p, c) ELSE sio_ena_cbr(p)

\* The START or STOP is sent at once or left to the send callback.
SendFlow(p, c) ==
  LET q == serial_snd_chr(p, c)
  IN IF TDRE(p) THEN q ELSE [q EXCEPT !.rcv_fc_chr = c]

PutChr_Overtakes(p, c) ==
  IF ~p.snd_stopped /\ TDRE(p) THEN sio_snd_chr(p, c)
  ELSE [(IF ~p.snd_stopped THEN sio_ena_cbr(p) ELSE p) EXCEPT !.snd = Append(@, c)]

\* The section of serial_wri_chr under CPU lock.
PutChr(p, c) ==
  LET tries == p.snd = << >> /\ ~p.snd_stopped
      q     == IF tries THEN serial_snd_chr(p, c) ELSE p
  IN IF tries /\ TDRE(p) THEN q ELSE [q EXCEPT !.snd = Append(@, c)]

\* The first character of the buffer goes to the transmitter.
DrainChr(p) ==
  LET q == sio_snd_chr(p, Head(p.snd))
  IN [(IF SndFull(p) THEN SigSnd(q) ELSE q) EXCEPT !.snd = Tail(@)]

-----------------------------------------------------------------------------
(* The calls of tasks. *)

\* The characters a task may write, or echo; its own mark and "echo" stand for
\* any character but LF.
Chars(t) == {t, "LF"}
EchoChars == {"echo", "LF"}

CanStart(t) == usr[t] = Idle /\ port.openflag /\ ~port.errorflag

_serial_wri_dat(t, len) ==
  /\ CanStart(t)
  /\ usr' = [usr EXCEPT ![t] = [Idle EXCEPT !.at = "wai_snd", !.call = "wri", !.left = len]]
  /\ UNCHANGED port

_serial_rea_dat(t, len) ==
  /\ CanStart(t)
  /\ usr' = [usr EXCEPT ![t] = [Idle EXCEPT !.at = "wai_rcv", !.call = "rea", !.left = len]]
  /\ UNCHANGED port

wai_snd(t) ==
  /\ usr[t].at = "wai_snd" /\ port.snd_sem = 1
  /\ port' = [port EXCEPT !.snd_sem = 0]
  /\ usr' = [usr EXCEPT ![t].at = "put"]

wai_rcv(t) ==
  /\ usr[t].at = "wai_rcv" /\ port.rcv_sem = 1
  /\ port' = [port EXCEPT !.rcv_sem = 0]
  /\ usr' = [usr EXCEPT ![t].at = "get"]

\* Where _serial_rea_dat goes on after a character.
ReadOn(u) ==
  IF u.left > 0 THEN [u EXCEPT !.at = IF u.empty THEN "wai_rcv" ELSE "get"]
  ELSE IF u.empty THEN Idle ELSE [u EXCEPT !.at = "sig_rcv"]

WriteOn_SignalsFull(u, full) ==
  IF u.call = "rea" THEN [u EXCEPT !.at = "sig_snd"]
  ELSE IF u.left > 1 THEN [u EXCEPT !.at = IF full THEN "wai_snd" ELSE "put", !.left = @ - 1]
  ELSE [u EXCEPT !.at = "sig_snd", !.left = 0]

\* Where the caller goes on after serial_wri_chr; `full' is its result.
WriteOn(u, full) ==
  IF u.call = "rea" THEN IF full THEN ReadOn(u) ELSE [u EXCEPT !.at = "sig_snd"]
  ELSE IF u.left > 1 THEN [u EXCEPT !.at = IF full THEN "wai_snd" ELSE "put", !.left = @ - 1]
  ELSE IF full THEN Idle ELSE [u EXCEPT !.at = "sig_snd", !.left = 0]

\* One character; LF is preceded by CR, which may fill the buffer: the task then
\* waits for the unit again before the LF (a reader that echoes keeps the receive
\* unit meanwhile).
serial_wri_chr(t) ==
  /\ usr[t].at = "put"
  /\ \E c \in IF usr[t].cr THEN {"LF"} ELSE IF usr[t].call = "rea" THEN EchoChars ELSE Chars(t) :
       LET first == c = "LF" /\ "CRLF" \in port.ioctl /\ ~usr[t].cr
       IN /\ port' = PutChr(port, IF first THEN "CR" ELSE c)
          /\ usr' = [usr EXCEPT ![t] =
               IF first
               THEN [@ EXCEPT !.cr = TRUE, !.at = IF SndFull(port') THEN "wai_snd" ELSE "put"]
               ELSE WriteOn([@ EXCEPT !.cr = FALSE], SndFull(port'))]

sig_snd(t) ==
  /\ usr[t].at = "sig_snd"
  /\ port' = SigSnd(port)
  /\ usr' = [usr EXCEPT ![t] = IF @.call = "rea" THEN ReadOn(@) ELSE Idle]

\* One character out of the receive buffer, START if that lets the peer go on,
\* and then the echo.
serial_rea_chr(t) ==
  /\ usr[t].at = "get"
  /\ LET p == [port EXCEPT !.rcv_count = @ - 1]
         u == [usr[t] EXCEPT !.left = @ - 1, !.empty = p.rcv_count = 0]
     IN /\ port' = IF p.rcv_stopped /\ p.rcv_count <= BUFCNT_START
                   THEN [SendFlow(p, START) EXCEPT !.rcv_stopped = FALSE]
                   ELSE p
        /\ usr' = [usr EXCEPT ![t] =
             IF "ECHO" \in port.ioctl THEN [u EXCEPT !.at = "wai_snd"] ELSE ReadOn(u)]

sig_rcv(t) ==
  /\ usr[t].at = "sig_rcv"
  /\ port' = SigRcv(port)
  /\ usr' = [usr EXCEPT ![t] = Idle]

_serial_ctl_por ==
  /\ port.openflag /\ ~port.errorflag
  /\ \E f \in IoctlSet : port' = [port EXCEPT !.ioctl = f]
  /\ UNCHANGED usr

-----------------------------------------------------------------------------
(* Releases, opening and closing. *)

Waits(t) ==
  \/ usr[t].at = "wai_snd" /\ port.snd_sem = 0
  \/ usr[t].at = "wai_rcv" /\ port.rcv_sem = 0

\* rel_wai: the call returns at once with what it has done so far.  A reader
\* that waits to echo gives up without giving back the receive unit it holds.
rel_wai(t) ==
  /\ Waits(t)
  /\ port' = IF usr[t].at = "wai_snd" /\ usr[t].call = "rea" /\ ~usr[t].empty
             THEN [port EXCEPT !.rcv_lost = TRUE] ELSE port
  /\ usr' = [usr EXCEPT ![t] = Idle]

_serial_opn_por ==
  /\ ~port.openflag
  /\ port' = [port EXCEPT !.openflag = TRUE, !.errorflag = FALSE,
                !.ioctl = {"ECHO", "CRLF", "FCSND", "FCRCV"},
                !.rcv_count = 0, !.rcv_fc_chr = NONE, !.rcv_stopped = FALSE,
                !.snd = << >>, !.snd_stopped = FALSE, !.lastfc = START]
  /\ UNCHANGED usr

\* ini_sem releases the tasks that wait.
_serial_cls_por ==
  /\ port.openflag
  /\ "cls_busy" \in PortApi \/ \A t \in User : usr[t] = Idle \/ Waits(t)
  /\ port' = [port EXCEPT !.openflag = FALSE, !.snd_sem = 1, !.rcv_sem = 0,
                          !.tdr = NONE, !.txen = FALSE, !.txreq = TRUE,
                          !.rcv_lost = FALSE]
  /\ usr' = [t \in User |-> IF Waits(t) THEN Idle ELSE usr[t]]

-----------------------------------------------------------------------------
(* The interrupt handlers and their callbacks. *)

sio_irdy_snd(p) ==
  IF p.rcv_fc_chr # NONE THEN [sio_snd_chr(p, p.rcv_fc_chr) EXCEPT !.rcv_fc_chr = NONE]
  ELSE IF ~p.snd_stopped /\ p.snd # << >> THEN DrainChr(p)
  ELSE sio_dis_cbr(p)

sio_isr_txi ==
  /\ port.txen /\ port.txreq
  /\ LET p == [port EXCEPT !.txreq = FALSE]
     IN port' = IF TDRE(p) THEN sio_irdy_snd(p) ELSE p
  /\ UNCHANGED usr

\* START has come: characters go to the transmitter as long as it takes them,
\* and the send callback sees to the rest.  n characters are sent, the line
\* having taken all but the last of them.
Resumed(p, n) ==
  LET q == [(IF n > 0 /\ SndFull(p) THEN SigSnd(p) ELSE p) EXCEPT
              !.snd = SubSeq(@, n + 1, Len(@)), !.snd_stopped = FALSE,
              !.tdr = IF n > 0 THEN p.snd[n] ELSE @, !.txreq = IF n > 1 THEN TRUE ELSE @]
  IN IF q.snd = << >> THEN q ELSE sio_ena_cbr(q)

ResumeSending(p) ==
  {Resumed(p, n) : n \in IF TDRE(p) /\ p.snd # << >> THEN 1..Len(p.snd) ELSE {0}}

\* The character is stored, and STOP sent when the buffer fills up.
StoreChr(p) ==
  LET q == [(IF p.rcv_count = 0 THEN SigRcv(p) ELSE p) EXCEPT !.rcv_count = @ + 1]
  IN IF "FCRCV" \in q.ioctl /\ ~q.rcv_stopped /\ q.rcv_count >= BUFCNT_STOP
     THEN [SendFlow(q, STOP) EXCEPT !.rcv_stopped = TRUE]
     ELSE q

\* The ports that may result from receiving c, by the branches of the callback.
sio_irdy_rcv(p, c) ==
  IF "FCSND" \in p.ioctl /\ c = STOP THEN {[p EXCEPT !.snd_stopped = TRUE]}
  ELSE IF p.snd_stopped /\ (c = START \/ "FCANY" \in p.ioctl) THEN ResumeSending(p)
  ELSE IF ("FCSND" \in p.ioctl /\ c = START) \/ p.rcv_count = RcvBufSz THEN {p}
  ELSE {StoreChr(p)}

\* RXI is enabled while the port is open; c is the character in the register.
sio_isr_rxi(c) ==
  /\ port.openflag
  /\ port' \in sio_irdy_rcv(port, c)
  /\ UNCHANGED usr

-----------------------------------------------------------------------------
SerialInit == port = ClosedPort /\ usr = [t \in User |-> Idle]

PortNext ==
  \/ _serial_opn_por \/ _serial_cls_por \/ _serial_ctl_por
  \/ Transmit \/ sio_isr_txi

GoOn(t) ==
  \/ wai_snd(t) \/ serial_wri_chr(t) \/ sig_snd(t)
  \/ wai_rcv(t) \/ serial_rea_chr(t) \/ sig_rcv(t)
  \/ rel_wai(t)

SerialNext ==
  \/ PortNext
  \/ \E c \in Flow \union {"data"} : sio_isr_rxi(c)
  \/ \E t \in User :
       GoOn(t) \/ \E n \in 1..MaxLen : _serial_wri_dat(t, n) \/ _serial_rea_dat(t, n)

SerialSpec == SerialInit /\ [][SerialNext]_serialvars

-----------------------------------------------------------------------------
(* Properties. *)

HoldsSnd(t) == usr[t].at \in {"put", "sig_snd"}
HoldsRcv(t) ==
  \/ usr[t].at \in {"get", "sig_rcv"}
  \/ usr[t].call = "rea" /\ usr[t].at \in {"wai_snd", "put", "sig_snd"} /\ ~usr[t].empty

\* Each buffer has one unit: it is in the semaphore, with one task, or stands
\* for the full (empty) buffer, so that no two tasks ever have it and no call of
\* the driver overflows a semaphore.  Writers never lose it, and readers in one
\* way only: one released while it waits to echo (the E_RLWAI that gen_ercd_wait
\* expects) leaves with it, and nobody reads again until the port is closed.
TokensExact ==
  port.openflag =>
    /\ port.snd_sem + Cardinality({t \in User : HoldsSnd(t)})
         + (IF SndFull(port) THEN 1 ELSE 0) = 1
    /\ port.rcv_sem + Cardinality({t \in User : HoldsRcv(t)})
         + (IF port.rcv_count = 0 THEN 1 ELSE 0) + (IF port.rcv_lost THEN 1 ELSE 0) = 1
    /\ ~port.errorflag

\* Whatever waits to be sent will be: as long as sending is not stopped, a
\* character in the buffer, or a START or STOP put off, has a send interrupt to
\* come (TXI requests are edges: a lost one would never be made again).
SendingGoesOn ==
  (port.openflag /\ (port.rcv_fc_chr # NONE \/ (port.snd # << >> /\ ~port.snd_stopped)))
    => port.txen /\ (port.txreq \/ ~TDRE(port))

Unsent == (IF TDRE(port) \/ port.tdr \in Flow THEN << >> ELSE <<port.tdr>>) \o port.snd

\* Characters leave in the order in which they were written, whether they take
\* the buffer or go straight to the transmitter, and none is sent twice.
SentInOrder ==
  [][\E n \in 0..Len(Unsent) :
       LET rest == SubSeq(Unsent, n + 1, Len(Unsent))
       IN Unsent' = rest \/ (Unsent' # << >> /\ Unsent' = Append(rest, Unsent'[Len(Unsent')]))]_port

\* A peer that was told to stop will be told to go on: when no START or STOP is
\* left to be sent and STOP was the last one, rcv_stopped says so.
StopIsRemembered ==
  (port.openflag /\ port.rcv_fc_chr = NONE /\ port.lastfc = STOP) => port.rcv_stopped
=============================================================================
