----------------------------- MODULE Interrupts -----------------------------
(***************************************************************************)
(* Interrupts at the REPL: REPL and rep of repl/repl.go.                   *)
(*                                                                         *)
(* Each item has a context and a goroutine that waits for an interrupt or  *)
(* for the end of the item.  All goroutines receive from one channel, of   *)
(* capacity one, into which os/signal puts a SIGINT unless it is full.     *)
(* The goroutine of an item that has ended may not have run since, and its *)
(* select may take an interrupt that is there: which of two ready cases is *)
(* taken is not determined.                                                *)
(***************************************************************************)
EXTENDS Integers, FiniteSets

CONSTANTS
  MaxLines,      \* bound on the items, which are numbered from 1
  MaxInterrupts  \* bound on the interrupts of a session

ASSUME InterruptsAssumption == MaxLines \in Nat /\ MaxInterrupts \in Nat

VARIABLES
  line,        \* the item, the last one begun
  phase,       \* "between" items, "begun", "reading", "executing" or "ended"
  goroutines,  \* the items whose goroutine has not exited
  done,        \* the items whose context is done
  interrupted, \* the number of interrupts in the channel
  sent         \* the number of SIGINTs so far

interruptVars == <<line, phase, goroutines, done, interrupted, sent>>

InterruptsInit ==
  /\ line = 0 /\ phase = "between" /\ goroutines = {} /\ done = {}
  /\ interrupted = 0 /\ sent = 0

\* rep: a context, and the goroutine.
BeginLine ==
  /\ phase = "between" /\ line < MaxLines
  /\ line' = line + 1 /\ phase' = "begun" /\ goroutines' = goroutines \cup {line + 1}
  /\ UNCHANGED <<done, interrupted, sent>>
\* Readline is called, and returns a line: the last of the item, or there are more.
Readline ==
  /\ phase = "begun" /\ phase' = "reading"
  /\ UNCHANGED <<line, goroutines, done, interrupted, sent>>
LineRead ==
  /\ phase = "reading" /\ phase' \in {"begun", "executing"}
  /\ UNCHANGED <<line, goroutines, done, interrupted, sent>>

\* rep returns, and cancel is called: the line is blank, or the item has been executed;
\* Control-C while reading, which sends no signal, or the end of the input.
\* Mutant of Cancelled: the deferred call of cancel is missing.
NotCancelled == done
Cancelled == done \cup {line}
EndLine ==
  /\ phase \in {"reading", "executing"}
  /\ phase' \in IF phase = "reading" THEN {"between", "ended"} ELSE {"between"}
  /\ done' = Cancelled
  /\ UNCHANGED <<line, goroutines, interrupted, sent>>

\* A SIGINT, at any time but when the terminal is being read.
Interrupt ==
  /\ phase \in {"between", "begun", "executing"} /\ sent < MaxInterrupts
  /\ sent' = sent + 1 /\ interrupted' = 1
  /\ UNCHANGED <<line, phase, goroutines, done>>

\* The goroutine of item i.
Receive(i) ==
  /\ i \in goroutines /\ interrupted = 1
  /\ interrupted' = 0
  /\ done' = done \cup {i} /\ goroutines' = goroutines \ {i}
  /\ UNCHANGED <<line, phase, sent>>
Exit(i) ==
  /\ i \in goroutines /\ i \in done
  /\ goroutines' = goroutines \ {i}
  /\ UNCHANGED <<line, phase, done, interrupted, sent>>
Goroutine(i) == Receive(i) \/ Exit(i)

InterruptsNext ==
  \/ BeginLine \/ Readline \/ LineRead \/ EndLine \/ Interrupt
  \/ \E i \in 1..MaxLines : Goroutine(i)

\* Go runs every goroutine that can go on; the user and the items need never go on.
InterruptsFairness == \A i \in 1..MaxLines : WF_interruptVars(Goroutine(i))

(***************************************************************************)
(* InterruptReaches: an interrupt that is sent while an item executes, and *)
(* the goroutines of earlier items have exited, cancels the context of     *)
(* that item, unless it ends by itself before.  Each of those goroutines   *)
(* may take an interrupt for itself, which then reaches no item; but they  *)
(* exit, whether there are interrupts or not.                              *)
(***************************************************************************)
Executing == phase = "executing"
Over(i)   == line > i \/ (line = i /\ phase \in {"between", "ended"})
InterruptReaches ==
  /\ (Executing /\ goroutines \subseteq {line} /\ interrupted = 1) ~> (~Executing \/ line \in done)
  /\ \A i \in 1..MaxLines : Over(i) ~> i \notin goroutines
=============================================================================
