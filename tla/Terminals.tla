------------------------------ MODULE Terminals ------------------------------
(***************************************************************************)
(* One interactive terminal of the host: a shell behind a pty, a thread    *)
(* that drains its output into a bounded ring, one that writes its input,  *)
(* one that supervises it, and clients that read the ring by absolute       *)
(* cursors and send input.                                                 *)
(***************************************************************************)
EXTENDS Naturals, Sequences, FiniteSets

CONSTANTS
  MaxOut,        \* bound: bytes of output
  MaxIn,         \* bound: inputs
  RingLimit,     \* 1 MiB in the code
  ReadLimit,     \* 64 KiB
  InputQueue     \* 8

TerminalAssumption == MaxOut \in Nat /\ MaxIn \in Nat /\ {RingLimit, ReadLimit, InputQueue} \subseteq Nat \ {0}

VARIABLES
  open,          \* is it in Terminals.entries?
  shell,         \* "running", "closing" (told to stop), or "exited"
  stopped,       \* the flag the threads watch
  end, kept,     \* Output: bytes ever, and those still in the ring
  pty,           \* bytes the shell has written and nobody has read
  eof,
  queue,         \* inputs that wait for the writer
  writing,       \* the input it writes, 0 for none, and how much of it is written: none, half
  writer,        \* does the writer still run?
  taken,         \* ghost: inputs accepted
  typed,         \* ghost: what the shell got: inputs, and those that stopped halfway
  after,         \* the cursor of the reader
  seen, missed,  \* ghost: bytes it got, and those it was told are gone
  finished       \* was the reader told that there is nothing more?

out    == <<end, kept, pty, eof>>
in     == <<queue, writing, writer, taken, typed>>
reader == <<after, seen, missed, finished>>
vars   == <<open, shell, stopped, out, in, reader>>

Init ==
  /\ open = TRUE /\ shell = "running" /\ stopped = FALSE
  /\ end = 0 /\ kept = 0 /\ pty = 0 /\ eof = FALSE
  /\ queue = <<>> /\ writing = [input |-> 0, half |-> FALSE] /\ writer = TRUE /\ taken = 0 /\ typed = <<>>
  /\ after = 0 /\ seen = {} /\ missed = {} /\ finished = FALSE

-----------------------------------------------------------------------------
(* Output. *)

ShellWrites ==
  /\ shell # "exited" /\ end + pty < MaxOut /\ pty' = pty + 1
  /\ UNCHANGED <<open, shell, stopped, end, kept, eof, in, reader>>

\* The oldest bytes give way.
Drain ==
  /\ ~eof /\ pty > 0
  /\ \E n \in 1 .. pty :
       /\ pty' = pty - n /\ end' = end + n
       /\ kept' = (IF kept + n > RingLimit THEN RingLimit ELSE kept + n)
  /\ UNCHANGED <<open, shell, stopped, eof, in, reader>>

\* The thread ends at the end of the output, or when the shell has been gone for
\* a while, whatever a job in the background still holds open.
DrainEnds ==
  /\ ~eof /\ shell = "exited" /\ eof' = TRUE
  /\ UNCHANGED <<open, shell, stopped, end, kept, pty, in, reader>>

-----------------------------------------------------------------------------
(* The shell ends. *)

Exits ==
  /\ shell # "exited" /\ shell' = "exited"
  /\ UNCHANGED <<open, stopped, out, in, reader>>
Supervised ==
  /\ shell = "exited" /\ ~stopped /\ stopped' = TRUE
  /\ UNCHANGED <<open, shell, out, in, reader>>

\* Control::stop, and the signals that follow it.
Stop == shell' = IF shell = "running" THEN "closing" ELSE shell

\* close: the entry goes, and its drop stops the shell.
Close ==
  /\ open /\ open' = FALSE /\ stopped' = TRUE /\ Stop
  /\ UNCHANGED <<out, in, reader>>

-----------------------------------------------------------------------------
(* Input. *)

Accept ==
  /\ open /\ shell # "exited" /\ writer /\ Len(queue) < InputQueue /\ taken < MaxIn
  /\ taken' = taken + 1 /\ queue' = Append(queue, taken')
  /\ UNCHANGED <<open, shell, stopped, out, writing, writer, typed, reader>>

\* The client waits two seconds, then the terminal is stopped; what it sent is
\* still in the queue.
WriteTimesOut ==
  /\ writer /\ (queue # <<>> \/ writing.input # 0) /\ shell = "running" /\ Stop
  /\ UNCHANGED <<open, stopped, out, in, reader>>

Take ==
  /\ writer /\ writing.input = 0 /\ queue # <<>>
  /\ writing' = [input |-> Head(queue), half |-> FALSE] /\ queue' = Tail(queue)
  /\ UNCHANGED <<open, shell, stopped, out, writer, taken, typed, reader>>

WriteHalf ==
  /\ writer /\ writing.input # 0 /\ ~writing.half /\ writing' = [writing EXCEPT !.half = TRUE]
  /\ UNCHANGED <<open, shell, stopped, out, queue, writer, taken, typed, reader>>
WriteAll ==
  /\ writer /\ writing.input # 0
  /\ typed' = Append(typed, [input |-> writing.input, whole |-> TRUE]) /\ writing' = [input |-> 0, half |-> FALSE]
  /\ UNCHANGED <<open, shell, stopped, out, queue, writer, taken, reader>>

\* A write that fails, is stopped, or takes too long ends the writer.
\* (Fault: it goes on with the next input.)
WriterGoesOn == TRUE
WriterEnds == FALSE
WriterAfter == WriterEnds

WriteFails ==
  /\ writer /\ writing.input # 0
  /\ typed' = IF writing.half THEN Append(typed, [input |-> writing.input, whole |-> FALSE]) ELSE typed
  /\ writing' = [input |-> 0, half |-> FALSE] /\ writer' = WriterAfter /\ Stop
  /\ UNCHANGED <<open, stopped, out, queue, taken, reader>>

-----------------------------------------------------------------------------
(* The reader. *)

Start == end - kept
From == IF after < Start THEN Start ELSE after

\* What was dropped before it was read is said.  (Fault: the cursor moves on.)
TruncatedNever == FALSE
TruncatedBefore == after < Start
Truncated == TruncatedBefore

\* exited is looked up before the bytes are taken; both must be over, the shell
\* and what it wrote.  (Fault: the shell alone.)
ExitedShell == shell = "exited"
ExitedAll == shell = "exited" /\ eof
Exited == ExitedAll

Read ==
  /\ open /\ ~finished
  /\ LET to == IF From + ReadLimit < end THEN From + ReadLimit ELSE end IN
     /\ after' = to /\ seen' = seen \cup (From + 1) .. to
     /\ missed' = missed \cup (IF Truncated THEN (after + 1) .. From ELSE {})
     /\ finished' = (Exited /\ to = end)
  /\ UNCHANGED <<open, shell, stopped, out, in>>

Next ==
  \/ ShellWrites \/ Drain \/ DrainEnds \/ Exits \/ Supervised \/ Close
  \/ Accept \/ WriteTimesOut \/ Take \/ WriteHalf \/ WriteAll \/ WriteFails \/ Read

Spec == Init /\ [][Next]_vars

-----------------------------------------------------------------------------
(* Safety. *)

TypeOK ==
  /\ shell \in {"running", "closing", "exited"} /\ {open, stopped, eof, writer, finished} \subseteq BOOLEAN
  /\ kept \in 0 .. RingLimit /\ end + pty <= MaxOut /\ kept <= end /\ after \in 0 .. end
  /\ Len(queue) <= InputQueue /\ writing.input \in 0 .. taken

\* The reader gets every byte once and in order, or is told which are gone,
\* however the ring ran ahead of it; and when it is told that the terminal is
\* over there is no byte left that it could have had.
OutputAccounted ==
  /\ seen \cup missed = 1 .. after /\ seen \cap missed = {}
  /\ finished => after = end

\* The shell gets the inputs in the order they were accepted; after one of which
\* only a part arrived, or none, nothing follows.
InputsInOrder ==
  \A i \in DOMAIN typed : typed[i].input = i /\ (~typed[i].whole => i = Len(typed))

\* What carries them: nothing comes after the end that was told; and while the
\* writer runs, what it typed, what it writes and what waits are the inputs that
\* were accepted, in their order.
OutputInv ==
  /\ TypeOK /\ end \in Nat /\ pty \in Nat
  /\ finished => eof
  /\ OutputAccounted
InputInv ==
  /\ taken \in Nat /\ queue \in Seq(Nat)
  /\ writing \in [input : Nat, half : BOOLEAN] /\ typed \in Seq([input : Nat, whole : BOOLEAN])
  /\ writer => LET next == Len(typed) + 1
                   first == IF writing.input = 0 THEN next ELSE next + 1 IN
       /\ writing.input \in {0, next} /\ first + Len(queue) = taken + 1
       /\ \A i \in DOMAIN queue : queue[i] = first + i - 1
       /\ \A i \in DOMAIN typed : typed[i].whole
  /\ InputsInOrder
=============================================================================
