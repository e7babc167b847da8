----------------------------- MODULE SerialLink -----------------------------
(***************************************************************************)
(* The serial line between the host program and the power switch:          *)
(*                                                                         *)
(*   host/serial.cpp    SerialUsb: open, flush, sendCommand, close         *)
(*   arduino/main.ino   setup, handleSerial, cmdExec, setGpu               *)
(*                                                                         *)
(* A frame is 'm' 'c' <letter> '\r'.  The firmware parses it one byte at a *)
(* time, echoes "*<cmd>" and executes the command.  The host runs sessions *)
(* (open, a script of commands that stops at the first failure, close);    *)
(* the frame of a call that gave up may be cut anywhere, and what it left  *)
(* in the parser or on the line meets the next session.                    *)
(***************************************************************************)
EXTENDS Naturals, Sequences, PowerCommands

CONSTANTS
  Retries,       \* bound of the answer loop (100 in sendCommand)
  Settled,       \* TRUE: an earlier session's bytes have arrived at open()
  ForeignBytes,  \* what a person types at the board with "cu" (main.ino:3)
  MaxBacklog,    \* BOUND: bytes on their way to the board
  MaxUnread,     \* BOUND: characters that flush() misses
  MaxBoots,      \* BOUND: restarts of the board
  MayKill,       \* the host process may be killed at any point
  Scripts        \* the command sequences of a session

Magic == <<"m", "c">>
Newlines == {"CR", "LF"}
Bytes == {"m", "c", "CR", "LF"}
           \cup {"0", "1", "2", "3", "4", "5", "6", "7", "8", "9"}
Foreign == "foreign"

ASSUME RetriesAssumption == Retries \in Nat
ASSUME SettledAssumption == Settled \in BOOLEAN
ASSUME ForeignBytesAssumption == ForeignBytes \subseteq Bytes
ASSUME BoundsAssumption == MaxBacklog \in Nat \ {0} /\ MaxUnread \in Nat /\ MaxBoots \in Nat
ASSUME ScriptsAssumption == Scripts \subseteq Seq(Cmd) \ {<<>>}

VARIABLES
  fw,        \* handleSerial's static state: [state |-> 0..3, cmd |-> byte]
  gpuPower,  \* what setGpu last drove the MOSFET to
  toDev,     \* bytes on their way to the board, each with the frame it is of
  toHost,    \* characters on their way to the host
  live,      \* the open port is still the board's: it has not re-enumerated
  phase,     \* "closed", "ready" (between calls), "writing", "reading"
  script,    \* commands the session still has to send
  resp,      \* responseData
  retry,     \* the retry counter of the answer loop
  sent,      \* the command of the latest call
  outcome,   \* what it returned (None: no call since open())
  restarted, \* the board restarted since that call began
  boots,     \* restarts so far
  executed   \* the commands of Cmd the board ever executed

board == <<fw, gpuPower>>
host  == <<phase, script, resp, retry, sent, outcome>>
linkVars == <<fw, gpuPower, toDev, toHost, live, phase, script, resp, retry,
              sent, outcome, restarted, boots, executed>>

-----------------------------------------------------------------------------
(* Frames, the parser and the answers *)

Tagged(bytes, of) == [k \in 1..Len(bytes) |-> [b |-> bytes[k], of |-> of]]

\* str[0..3] of sendCommand.
Frame(c) == Tagged(Magic \o <<c, "CR">>, c)

\* Mutants of Parse: one that waits for the newline through anything, and one
\* that does not go back to the magic after a newline.
ParsePatient(p, b) ==
  IF p.state < Len(Magic)
  THEN [p EXCEPT !.state = IF b = Magic[p.state + 1] THEN p.state + 1 ELSE 0]
  ELSE IF p.state = Len(Magic)
  THEN [state |-> p.state + 1, cmd |-> b]
  ELSE [p EXCEPT !.state = IF b \in Newlines THEN 0 ELSE p.state]

ParseSticky(p, b) ==
  IF p.state < Len(Magic)
  THEN [p EXCEPT !.state = IF b = Magic[p.state + 1] THEN p.state + 1 ELSE 0]
  ELSE IF p.state = Len(Magic)
  THEN [state |-> p.state + 1, cmd |-> b]
  ELSE [p EXCEPT !.state = IF b \in Newlines THEN p.state ELSE 0]

\* One turn of handleSerial's loop.  The character that breaks a magic is not
\* looked at again, and anything but a newline after the letter drops it.
Parse(p, b) ==
  IF p.state < Len(Magic)
  THEN [p EXCEPT !.state = IF b = Magic[p.state + 1] THEN p.state + 1 ELSE 0]
  ELSE IF p.state = Len(Magic)
  THEN [state |-> p.state + 1, cmd |-> b]
  ELSE [p EXCEPT !.state = 0]

\* The byte b makes the parser p execute the command it holds.
Fires(p, b) == p.state > Len(Magic) /\ b \in Newlines

\* Serial.println(cmd, DEC): the letter minus '0', in decimal.
Decimal(b) ==
  CASE b = "m"  -> <<"6", "1">>
    [] b = "c"  -> <<"5", "1">>
    [] b = "CR" -> <<"-", "3", "5">>
    [] b = "LF" -> <<"-", "3", "8">>
    [] OTHER    -> <<b>>

Line(chars) == chars \o <<"CR", "LF">>

\* What cmdExec prints; the analog inputs ("3" to "5") as one digit.
Body(c, p) ==
  CASE c = Off              -> Line(<<"-">>)
    [] c = On               -> Line(<<"+">>)
    [] c = "2"              -> Line(<<IF p THEN "+" ELSE "-">>)
    [] c \in {"3","4","5"}  -> Line(<<"7">>)
    [] c = Ping             -> Line(<<"0">>)
    [] OTHER                -> <<>>

Answer(c, p) == Line(<<"*">> \o Decimal(c)) \o Body(c, p)

AnswerSize == 7

\* The loop of sendCommand ends with this much.
Complete(r) == Len(r) >= AnswerSize

\* The header sendCommand compares; the mutant does not look at the echo.
AnyHeader(r, c) == r[1] = "*"
GoodHeader(r, c) == SubSeq(r, 1, 4) = <<"*", c, "CR", "LF">>

-----------------------------------------------------------------------------

Reset == [state |-> 0, cmd |-> Off]

LinkInit ==
  /\ fw = Reset
  /\ gpuPower = TRUE
  /\ toDev = <<>>
  /\ toHost = <<>>
  /\ live = FALSE
  /\ phase = "closed"
  /\ script = <<>>
  /\ resp = <<>>
  /\ retry = 0
  /\ sent = None
  /\ outcome = None
  /\ restarted = FALSE
  /\ boots = 0
  /\ executed = {}

-----------------------------------------------------------------------------
(* The board *)

\* handleSerial takes one byte; a newline that completes a frame prints the
\* echo and runs cmdExec.
FwRead ==
  /\ toDev # <<>>
  /\ LET b == Head(toDev).b IN
     /\ fw' = Parse(fw, b)
     /\ IF Fires(fw, b)
        THEN /\ gpuPower' = Effect(fw.cmd, gpuPower)
             /\ toHost' = toHost \o Answer(fw.cmd, gpuPower)
             /\ executed' = executed \cup ({fw.cmd} \cap Cmd)
        ELSE UNCHANGED <<gpuPower, toHost, executed>>
  /\ toDev' = Tail(toDev)
  /\ UNCHANGED <<live, host, restarted, boots>>

\* A restart of the board runs setup().  The board is its own USB device
\* (/dev/ttyACM0), so the line is emptied and an open port goes dead.
Restart ==
  /\ boots < MaxBoots
  /\ boots' = boots + 1
  /\ fw' = Reset
  /\ gpuPower' = TRUE
  /\ toDev' = <<>>
  /\ toHost' = <<>>
  /\ live' = FALSE
  /\ restarted' = TRUE
  /\ UNCHANGED <<host, executed>>

\* A person types at the board while the program is not running.
TypeByte ==
  /\ phase = "closed"
  /\ Len(toDev) < MaxBacklog
  /\ Len(toHost) <= MaxUnread
  /\ \E b \in ForeignBytes : toDev' = toDev \o Tagged(<<b>>, Foreign)
  /\ UNCHANGED <<board, toHost, live, host, restarted, boots, executed>>

-----------------------------------------------------------------------------
(* The host *)

\* flush() reads once what has arrived: over an unsettled line it can miss a
\* part of an earlier answer.  The mutant reads nothing.
FlushNothing == toHost' = toHost
Flush ==
  IF Settled THEN toHost' = <<>>
  ELSE \E n \in 0..Len(toHost) :
         /\ Len(toHost) - n <= MaxUnread
         /\ toHost' = SubSeq(toHost, n + 1, Len(toHost))

\* A run of the program opens the port.
Start ==
  /\ phase = "closed"
  /\ Len(toDev) < MaxBacklog
  /\ Settled => toDev = <<>>
  /\ Flush
  /\ script' \in Scripts
  /\ live' = TRUE
  /\ phase' = "ready"
  /\ outcome' = None
  /\ UNCHANGED <<board, toDev, resp, retry, sent, restarted, boots, executed>>

\* sendCommand up to waitForBytesWritten.
SendCommand ==
  /\ phase = "ready"
  /\ script # <<>>
  /\ toDev' = IF live THEN toDev \o Frame(Head(script)) ELSE toDev
  /\ phase' = "writing"
  /\ sent' = Head(script)
  /\ outcome' = None
  /\ restarted' = FALSE
  /\ UNCHANGED <<board, toHost, live, script, resp, retry, boots, executed>>

\* sendCommand returns: a session goes on only after a success.
Return(ok) ==
  /\ phase' = "ready"
  /\ outcome' = IF ok THEN "ok" ELSE "fail"
  /\ script' = IF ok THEN Tail(script) ELSE <<>>
  /\ resp' = <<>>
  /\ retry' = 0

\* waitForBytesWritten succeeds.
Written ==
  /\ phase = "writing"
  /\ live
  /\ phase' = "reading"
  /\ retry' = Retries
  /\ UNCHANGED <<board, toDev, toHost, live, script, resp, sent, outcome,
                 restarted, boots, executed>>

\* waitForBytesWritten times out: "BASE_ERROR + 2".
WriteTimeout ==
  /\ phase = "writing"
  /\ Return(FALSE)
  /\ UNCHANGED <<board, toDev, toHost, live, sent, restarted, boots, executed>>

\* One turn of the answer loop in which n characters were readable.  The retry
\* test comes before the size test of the next turn, so an answer completed in
\* the last turn is still a failure.
ReadSome ==
  /\ phase = "reading"
  /\ live
  /\ \E n \in 1..Len(toHost) :
       LET got == resp \o SubSeq(toHost, 1, n) IN
       /\ toHost' = SubSeq(toHost, n + 1, Len(toHost))
       /\ IF retry = 0 THEN Return(FALSE)
          ELSE IF Complete(got) THEN Return(GoodHeader(got, sent))
          ELSE /\ resp' = got
               /\ retry' = retry - 1
               /\ UNCHANGED <<phase, script, outcome>>
  /\ UNCHANGED <<board, toDev, live, sent, restarted, boots, executed>>

\* A mutant of ReadTimeout whose empty turns are not counted.
ReadTimeoutUncounted ==
  /\ phase = "reading"
  /\ IF retry = 0 THEN Return(FALSE) ELSE UNCHANGED <<phase, script, outcome, resp, retry>>
  /\ UNCHANGED <<board, toDev, toHost, live, sent, restarted, boots, executed>>

\* One turn of the answer loop in which nothing came within m_Timeout.
ReadTimeout ==
  /\ phase = "reading"
  /\ IF retry = 0 THEN Return(FALSE)
     ELSE retry' = retry - 1 /\ UNCHANGED <<phase, script, outcome, resp>>
  /\ UNCHANGED <<board, toDev, toHost, live, sent, restarted, boots, executed>>

\* What the port still had to transmit is lost from some byte on.
CutLine == \E n \in 0..Len(toDev) : toDev' = SubSeq(toDev, 1, n)

\* The end of the program closes the port (SerialUsb is an automatic object).
Close ==
  /\ phase = "ready"
  /\ script = <<>>
  /\ phase' = "closed"
  /\ live' = FALSE
  /\ CutLine
  /\ UNCHANGED <<board, toHost, script, resp, retry, sent, outcome, restarted,
                 boots, executed>>

\* The process is killed: the call in progress never returns a success.
Kill ==
  /\ MayKill
  /\ phase # "closed"
  /\ phase' = "closed"
  /\ live' = FALSE
  /\ CutLine
  /\ outcome' = IF phase = "ready" THEN outcome ELSE "fail"
  /\ script' = <<>>
  /\ resp' = <<>>
  /\ retry' = 0
  /\ UNCHANGED <<board, toHost, sent, restarted, boots, executed>>

-----------------------------------------------------------------------------

Host == SendCommand \/ Written \/ WriteTimeout \/ ReadSome \/ ReadTimeout \/ Close

LinkNext ==
  \/ FwRead
  \/ Restart
  \/ TypeByte
  \/ Start
  \/ Host
  \/ Kill

\* Every wait of the host has a timeout, so a running program keeps stepping.
LinkSpec == LinkInit /\ [][LinkNext]_linkVars /\ WF_linkVars(Host)

-----------------------------------------------------------------------------
(* What the link promises: PowerPort, by this mapping *)

\* The parser after each byte of a line, and the bytes at which a command runs.
Run(p, line) ==
  LET run[k \in 0..Len(line)] == IF k = 0 THEN p ELSE Parse(run[k - 1], line[k].b)
  IN  run
Firing(p, line) == {k \in 1..Len(line) : Fires(Run(p, line)[k - 1], line[k].b)}

\* The command the board would execute first if it read the whole line.
FirstOf(ks) == CHOOSE k \in ks : \A j \in ks : k <= j
FirstFired(p, line) ==
  IF Firing(p, line) = {} THEN None
  ELSE Run(p, line)[FirstOf(Firing(p, line)) - 1].cmd
Pending == FirstFired(fw, toDev)

Busy == phase \in {"writing", "reading"}

Port == INSTANCE PowerPort WITH
          power    <- gpuPower,
          inflight <- Pending,
          busy     <- Busy,
          served   <- Busy /\ resp \o toHost # <<>>,
          last     <- sent,
          result   <- outcome,
          rebooted <- restarted

\* Over a settled line every behaviour of the host and the firmware is one of
\* the abstract power port (sendCommand seen through its return value).
ImplementsPowerPort == Port!Spec

-----------------------------------------------------------------------------
(* Properties *)

Parser == [state : 0..3, cmd : Bytes]
Sent == [b : Bytes, of : Cmd \cup {Foreign}]
Chars == Bytes \cup {"*", "+", "-"}

\* The type of the state; sendCommand never keeps a whole answer in resp, its
\* retries stay within m_Timeout / 10, and over a settled line at most one frame
\* joins what is on its way.
LinkTypeOK ==
  /\ fw \in Parser
  /\ gpuPower \in BOOLEAN
  /\ toDev \in Seq(Sent)
  /\ Settled => Len(toDev) <= MaxBacklog + 3
  /\ toHost \in Seq(Chars)
  /\ live \in BOOLEAN
  /\ phase \in {"closed", "ready", "writing", "reading"}
  /\ script \in Seq(Cmd)
  /\ resp \in Seq(Chars)
  /\ Len(resp) < AnswerSize
  /\ retry \in 0..Retries
  /\ sent \in Cmd \cup {None}
  /\ outcome \in {None, "ok", "fail"}
  /\ restarted \in BOOLEAN
  /\ boots \in 0..MaxBoots
  /\ executed \subseteq Cmd

\* The board never executes a command spliced from two frames: a newline sent
\* by the host runs the letter of its own frame or nothing, whatever torn frame
\* or typed text handleSerial had in progress when that frame came.
NoSplicedCommand ==
  toDev # <<>> /\ Fires(fw, Head(toDev).b) => Head(toDev).of \in {fw.cmd, Foreign}

\* A torn frame costs at most the frame after it: once the newline of a whole
\* frame is read, the parser waits for a magic again, whatever it was left in.
Resynchronizes ==
  [][FwRead /\ Head(toDev).b \in Newlines /\ Head(toDev).of # Foreign
       => fw'.state = 0]_linkVars

\* sendCommand returns true only for a command the board has executed at some
\* time, even if the answer it read is one that an earlier session left behind.
AckedWasExecuted == outcome = "ok" => sent \in executed

\* After an acknowledged call the parser is in step, so the next frame of the
\* session cannot be swallowed: reset_GPU's ping guards its power commands.
NextFrameAccepted ==
  [][SendCommand /\ outcome = "ok" /\ live => Pending' = Head(script)]_linkVars

\* A session ends: no answer, half an answer or a dead port keep sendCommand
\* in its loops for ever.
SessionEnds == phase # "closed" ~> phase = "closed"

-----------------------------------------------------------------------------
(* The inductive invariants behind these (see SerialLinkProofs).           *)

\* The newline of a frame comes right after the letter of the same frame, which
\* no parser takes for a part of the magic.
FrameInv ==
  \A k \in 1..Len(toDev) :
    toDev[k].b \in Newlines /\ toDev[k].of # Foreign =>
      IF k = 1 THEN fw.state # 2 /\ (fw.state = 3 => fw.cmd = toDev[k].of)
      ELSE toDev[k - 1] = [b |-> toDev[k].of, of |-> toDev[k].of]

\* Each echo of a command among the characters s is of one in the set done.
EchoesOf(s, done) ==
  \A k \in 1..(Len(s) - 1) : s[k] = "*" /\ s[k + 1] \in Cmd => s[k + 1] \in done

\* What the host has read or can still read of echoes, and the call it is in.
CallInv ==
  /\ EchoesOf(resp \o toHost, executed)
  /\ phase # "reading" => resp = <<>>
  /\ Busy => outcome = None /\ script # <<>> /\ sent = Head(script)
  /\ outcome = "fail" => script = <<>>
  /\ phase = "closed" => script = <<>>
  /\ AckedWasExecuted

\* Over a settled line a call has the line to itself: what is on it is the rest
\* of its frame, then its answer, and after a success nothing.
SettledInv == Settled =>
  /\ phase = "ready" /\ script # <<>> =>
       toDev = <<>> /\ toHost = <<>> /\ (outcome = "ok" /\ live => fw.state = 0)
  /\ Busy => \E n \in 1..5 : toDev = SubSeq(Frame(sent), n, 4)
  /\ Busy /\ resp \o toHost # <<>> =>
       toDev = <<>> /\ (live => /\ fw.state = 0
                               /\ \E p \in BOOLEAN : resp \o toHost = Answer(sent, p))

\* Nobody types a newline: the only one on a settled line is that of a frame.
NewlineInv ==
  \A j, k \in 1..Len(toDev) :
    /\ toDev[k].b \in Newlines => toDev[k].of # Foreign
    /\ toDev[j].b \in Newlines /\ toDev[k].b \in Newlines => j = k

LinkInv == FrameInv /\ CallInv /\ SettledInv

=============================================================================
