----------------------------- MODULE LineInput -----------------------------
(***************************************************************************)
(* The threads of the line interface: the one that reads the input and the  *)
(* one that serves its lines, src/ui/command/runner.rs, reader.rs and       *)
(* windows.rs, with the interrupt bus of src/ui/interrupt.rs.               *)
(*                                                                         *)
(* The reader hands over one line at a time and blocks while the last one   *)
(* lies in the channel.  When the host has left its loop it cancels the     *)
(* reader and joins it: on Unix a byte in a pipe ends the poll, on Windows   *)
(* a read that has begun must be broken off from outside.                   *)
(*                                                                         *)
(* What a line says is chosen where it is served: here it is only a line,   *)
(* whole or not.                                                           *)
(***************************************************************************)
EXTENDS Naturals, Sequences, FiniteSets

CONSTANTS
    None,           \* the absent value
    MaxWaiting      \* bound: the lines that are typed ahead of their reader

VARIABLES
    platform,       \* "unix" or "windows"
    input,          \* the lines that wait to be read, and whether more may come
    reader,         \* the reader thread: where it is, and what it holds
    channel,        \* the line channel, of one place
    listening,      \* the host holds the receiving end
    interrupts,     \* the interrupt bus, of one place
    cancelled,      \* the reader has been told to stop
    canceller,      \* the host inside cancel(), and whether it failed
    joined          \* None, or how the reader thread ended

inputVars == <<platform, input, reader, channel, listening, interrupts, cancelled, canceller, joined>>

\* The reader: between its calls ("idle"), waiting for input or a cancellation
\* ("waiting"), with its read announced ("about"), begun ("active"), about to enter
\* the system ("checked") or inside it ("reading"), back from it ("returned"),
\* handing an event over ("sending": line, eof, cancelled or error), or gone.

\* ReadPhase, as the canceller sees it
Phase ==
    CASE reader.at = "about" -> "AboutToRead"
      [] reader.at \in {"active", "checked", "reading", "returned"} -> "ReadActive"
      [] reader.at = "gone" -> "Exited"
      [] OTHER -> "IdleWaiting"

InputInit ==
    /\ platform \in {"unix", "windows"}
    /\ input = [waiting |-> 0, closed |-> FALSE]
    /\ reader = [at |-> "idle", event |-> None, ready |-> 0, eof |-> FALSE]
    /\ channel = <<>>
    /\ listening = TRUE
    /\ interrupts = 0
    /\ cancelled = FALSE
    /\ canceller = [at |-> "out", error |-> FALSE]
    /\ joined = None

Reader(at) == reader' = [reader EXCEPT !.at = at]
\* An event goes out; what is not a line is the last one.
Hands(event) == reader' = [reader EXCEPT !.at = "sending", !.event = event]

KeepHost == UNCHANGED <<platform, listening, interrupts, cancelled, canceller, joined>>

-----------------------------------------------------------------------------
(* The operator. *)

Type ==
    /\ ~input.closed /\ input.waiting < MaxWaiting
    /\ input' = [input EXCEPT !.waiting = @ + 1]
    /\ UNCHANGED <<reader, channel>> /\ KeepHost

CloseInput ==
    /\ ~input.closed
    /\ input' = [input EXCEPT !.closed = TRUE]
    /\ UNCHANGED <<reader, channel>> /\ KeepHost

\* The handler of the signal: one interrupt waits, another is dropped.
Signal ==
    /\ interrupts = 0
    /\ interrupts' = 1
    /\ UNCHANGED <<platform, input, reader, channel, listening, cancelled, canceller, joined>>

-----------------------------------------------------------------------------
(* The reader thread. *)

\* next_line: lines that a chunk brought along come first, even after a
\* cancellation.
NextLine ==
    /\ reader.at = "idle"
    /\ CASE reader.ready > 0 ->
              reader' = [reader EXCEPT !.at = "sending", !.event = "line", !.ready = @ - 1]
         [] reader.ready = 0 /\ platform = "windows" /\ cancelled -> Hands("cancelled")
         [] reader.ready = 0 /\ ~(platform = "windows" /\ cancelled) /\ reader.eof -> Hands("eof")
         [] OTHER -> Reader("waiting")
    /\ UNCHANGED <<input, channel>> /\ KeepHost

\* A console is also ready when there is no line in it.
Ready == input.waiting > 0 \/ input.closed \/ platform = "windows"

\* The wait returns: a cancellation is looked at before the input, whichever came
\* first.
WaitReturns ==
    /\ reader.at = "waiting"
    /\ \/ cancelled /\ Hands("cancelled")
       \/ ~cancelled /\ Ready /\ Reader(IF platform = "unix" THEN "reading" ELSE "about")
    /\ UNCHANGED <<input, channel>> /\ KeepHost

\* begin_read: the cancellation is looked at again once the read is announced, and
\* once more when it counts as begun.
BeginRead ==
    /\ reader.at \in {"about", "active"}
    /\ IF cancelled THEN Hands("cancelled")
       ELSE Reader(IF reader.at = "about" THEN "active" ELSE "checked")
    /\ UNCHANGED <<input, channel>> /\ KeepHost

EnterRead ==
    /\ reader.at = "checked"
    /\ Reader("reading")
    /\ UNCHANGED <<input, channel>> /\ KeepHost

\* read_ready_stdin and read_ready_input: a chunk holds any number of the lines
\* that were typed, perhaps none; at the end of the input what is left of a line
\* counts as one.
ReadReturns ==
    /\ reader.at = "reading"
    /\ \/ \E n \in 1 .. input.waiting :
             /\ input' = [input EXCEPT !.waiting = @ - n]
             /\ reader' = [reader EXCEPT !.at = "returned", !.event = "line", !.ready = n - 1]
       \/ input.waiting > 0 /\ Reader("returned") /\ UNCHANGED input
       \/ /\ input.waiting = 0 /\ input.closed
          /\ \E event \in {"line", "eof"} :
                reader' = [reader EXCEPT !.at = "returned", !.event = event, !.eof = TRUE]
          /\ UNCHANGED input
    /\ UNCHANGED channel /\ KeepHost

\* The wait or the read may fail.
InputFails ==
    /\ reader.at \in {"waiting", "reading"}
    /\ Hands("error")
    /\ UNCHANGED <<input, channel>> /\ KeepHost

\* end_read: with no whole line yet the reader waits again.
EndRead ==
    /\ reader.at = "returned"
    /\ Reader(IF reader.event = None THEN "waiting" ELSE "sending")
    /\ UNCHANGED <<input, channel>> /\ KeepHost

\* The thread of FallbackHost::run: it ends with its last event, or when nobody
\* listens any more.
Send ==
    /\ reader.at = "sending"
    /\ \/ /\ ~listening
          /\ reader' = [reader EXCEPT !.at = "gone", !.event = None] /\ UNCHANGED channel
       \/ /\ listening /\ channel = <<>>
          /\ channel' = <<reader.event>>
          /\ reader' = [reader EXCEPT !.at = IF reader.event = "line" THEN "idle" ELSE "gone",
                                      !.event = None]
    /\ UNCHANGED input /\ KeepHost

\* The reader may fail in a way that ends its thread.
ReaderPanics ==
    /\ reader.at \in {"idle", "returned"}
    /\ reader' = [reader EXCEPT !.at = "gone", !.event = "error"]
    /\ UNCHANGED <<input, channel>> /\ KeepHost

ReaderSteps ==
    NextLine \/ WaitReturns \/ BeginRead \/ EnterRead \/ ReadReturns \/ EndRead \/ Send

-----------------------------------------------------------------------------
(* The host takes the reader down, once it has left its loop. *)

KeepReader == UNCHANGED <<platform, input, channel, interrupts>>

\* cancel: the flag and the event, or the byte in the pipe; on Windows a read that
\* may have begun is then broken off.
Cancel ==
    /\ ~listening /\ ~cancelled
    /\ cancelled' = TRUE
    /\ canceller' = [canceller EXCEPT !.at = IF platform = "windows" THEN "trying" ELSE "done"]
    /\ UNCHANGED <<reader, listening, joined>> /\ KeepReader

\* A slip: when the system finds no read there is none.
FaultyCancelPendingRead ==
    /\ canceller.at = "trying"
    /\ canceller' = [canceller EXCEPT !.at = "done"]
    /\ \/ /\ reader.at = "reading"
          /\ reader' = [reader EXCEPT !.at = "returned", !.event = "cancelled"]
       \/ reader.at # "reading" /\ UNCHANGED reader
    /\ UNCHANGED <<listening, cancelled, joined>> /\ KeepReader

\* cancel_pending_read: tried again and again while the reader may be about to
\* read; the system finds no read, breaks one off, or refuses.  A refusal is
\* remembered, and the second way of breaking a read off is tried.
CancelPendingRead ==
    /\ canceller.at = "trying"
    /\ IF Phase \in {"IdleWaiting", "Exited"}
       THEN canceller' = [canceller EXCEPT !.at = "done"] /\ UNCHANGED reader
       ELSE \/ /\ reader.at = "reading"                              \* broken off
               /\ reader' = [reader EXCEPT !.at = "returned", !.event = "cancelled"]
               /\ canceller' = [canceller EXCEPT !.at = "done"]
            \/ reader.at # "reading" /\ UNCHANGED <<reader, canceller>>   \* not found: again
            \/ /\ canceller' = [canceller EXCEPT !.error = TRUE]      \* refused
               /\ UNCHANGED reader
            \/ /\ reader.at = "reading"                              \* refused, then broken off
               /\ reader' = [reader EXCEPT !.at = "returned", !.event = "cancelled"]
               /\ canceller' = [canceller EXCEPT !.at = "done", !.error = TRUE]
    /\ UNCHANGED <<listening, cancelled, joined>> /\ KeepReader

Join ==
    /\ canceller.at = "done" /\ joined = None
    /\ reader.at = "gone"
    /\ joined' = IF reader.event = "error" THEN "panicked" ELSE "ended"
    /\ UNCHANGED <<reader, listening, cancelled, canceller>> /\ KeepReader
=============================================================================
