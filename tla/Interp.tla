------------------------------- MODULE Interp -------------------------------
(***************************************************************************)
(* The interpreter: eval.go, with the loader of repl/repl.go.              *)
(*                                                                         *)
(* A step is one move of the recursion of exec, eval, evalCall and         *)
(* Function.Call.  What the program is comes out of the choices: a frame   *)
(* may take any operation its syntax allows, so that the behaviours are    *)
(* those of all programs within the bounds.  Values are left out: of a     *)
(* function its code, which is what the check for recursion goes by.       *)
(* The position of an operation is how many the frame has begun with it,   *)
(* and that of a function is Header.  Stacks have their innermost element  *)
(* first.                                                                  *)
(***************************************************************************)
EXTENDS Integers, Sequences, FiniteSets

CONSTANTS
  Code,      \* the functions of the program, as syntax
  Stray,     \* those nested in a loop: the resolver lets them break out of no loop (Resolver)
  Module,    \* the names that load statements give
  TopLevel,  \* the code of a frame of no function
  Session,   \* the module of an item typed at the REPL, or of the main file
  NoSignal,  \* no error is on its way up
  MaxOps,    \* bound on the operations that a frame begins, by its code
  MaxLoop,   \* bound on the length of what a loop iterates over
  MaxDepth,  \* beyond the frames of a thread and the threads in progress: a bound for mutants
  MaxItems   \* bound on the items of a session

ASSUME InterpAssumption ==
  /\ Stray \subseteq Code /\ TopLevel \notin Code
  /\ Session \notin Module
  /\ MaxOps \in [Code \cup {TopLevel} -> Nat] /\ {MaxLoop, MaxDepth, MaxItems} \subseteq Nat

VARIABLES
  frames,   \* the frames of the running thread: [code, posn, doing, ops]
  module,   \* the module it executes
  loaders,  \* the executions that wait in a load, as [frames, module]
  signal,   \* the error value that is being returned
  cache,    \* MakeLoad's
  runs,     \* history: how often each module was executed through the cache
  items     \* the items begun

interpVars == <<frames, module, loaders, signal, cache, runs, items>>

(***************************************************************************)
(* Frames.  doing holds the constructs whose execution has begun and not   *)
(* ended: a "for" between iterations or in its "body", a "call" whose      *)
(* function and arguments are being evaluated, one "made" to a Starlark    *)
(* function or to a "builtin", a "load".                                   *)
(***************************************************************************)
NewFrame(code) == [code |-> code, posn |-> 0, doing |-> <<>>, ops |-> 0]
Header == -1

Top        == Head(frames)
SetTop(f)  == frames' = [frames EXCEPT ![1] = f]
Within(fs, ks) == Head(fs).doing # <<>> /\ Head(Head(fs).doing).k \in ks
Doing(ks)  == Within(frames, ks)
HeadPos    == Head(Top.doing).pos   \* of the innermost construct
Here       == Top.ops + 1
Push(f, k, left) ==
  [code |-> f.code, posn |-> f.posn, ops |-> f.ops + 1,
   doing |-> <<[k |-> k, pos |-> f.ops + 1, left |-> left]>> \o f.doing]
Turn(f, k, used) == [f EXCEPT !.doing[1] = [k |-> k, pos |-> @.pos, left |-> @.left - used]]
Done(f)    == [f EXCEPT !.doing = Tail(@)]
At(f, pos) == [f EXCEPT !.posn = pos]

Running == frames # <<>> /\ signal = NoSignal
MayDo   == Running /\ ~Doing({"for", "made", "builtin"})
Begin   == MayDo /\ Top.ops < MaxOps[Top.code]
AtStmt  == Top.doing = <<>> \/ Doing({"body"})   \* not within an expression

(***************************************************************************)
(* Errors: the three sentinels and the errors of Go functions, which carry *)
(* nothing, and the EvalError, which carries its frame.  posns is what     *)
(* Backtrace finds in the frames that have been popped since; calls is a   *)
(* history: where each frame was when the error was raised.                *)
(***************************************************************************)
Plain(kind) == [kind |-> kind, frame |-> Len(frames), posns |-> <<>>, calls |-> <<>>]
EvalError(fs, pos) ==
  [kind |-> "eval", frame |-> Len(fs), posns |-> <<>>,
   calls |-> [i \in DOMAIN fs |-> IF i = 1 THEN pos ELSE Head(fs[i].doing).pos]]
Backtrace(fs, s) == s.posns \o [i \in DOMAIN fs |-> fs[i].posn]

\* errorf, in the innermost of the frames fs.
Raise(fs, pos) == /\ frames' = [fs EXCEPT ![1] = At(@, pos)]
                  /\ signal' = EvalError(fs, pos)

InterpInit ==
  /\ frames = <<>> /\ module = Session /\ loaders = <<>> /\ signal = NoSignal
  /\ cache = [m \in Module |-> "absent"] /\ runs = [m \in Module |-> 0]
  /\ items = 0

\* The next item of the session begins in a thread whose frames are all popped.
Item ==
  /\ frames = <<>> /\ items < MaxItems
  /\ frames' = <<NewFrame(TopLevel)>>
  /\ items' = items + 1
  /\ UNCHANGED <<module, loaders, signal, cache, runs>>

(***************************************************************************)
(* Statements and expressions within a frame.                              *)
(***************************************************************************)

\* An operation that fails: a name without a value, an index out of range, an operand.
Fail ==
  /\ MayDo
  /\ Raise(frames, Here)
  /\ UNCHANGED <<module, loaders, cache, runs, items>>

\* The iterable, of n elements, has been evaluated.  The loops of a comprehension are
\* within an expression and take no sentinel; they are left out.
For(n) ==
  /\ Begin /\ AtStmt /\ Top.code # TopLevel
  /\ SetTop(Push(Top, "for", n))
  /\ UNCHANGED <<module, loaders, signal, cache, runs, items>>
Iterate ==
  /\ Running /\ Doing({"for"}) /\ Head(Top.doing).left > 0
  /\ SetTop(Turn(Top, "body", 1))
  /\ UNCHANGED <<module, loaders, signal, cache, runs, items>>
EndBody ==
  /\ Running /\ Doing({"body"})
  /\ SetTop(Turn(Top, "for", 0))
  /\ UNCHANGED <<module, loaders, signal, cache, runs, items>>
EndFor ==
  /\ Running /\ Doing({"for"}) /\ Head(Top.doing).left = 0
  /\ SetTop(Done(Top))
  /\ UNCHANGED <<module, loaders, signal, cache, runs, items>>

\* break and continue, where the resolver lets them stand.
InLoop == \E i \in DOMAIN Top.doing : Top.doing[i].k = "body"
Branch(kind) ==
  /\ Running /\ AtStmt /\ (InLoop \/ Top.code \in Stray)
  /\ signal' = Plain(kind)
  /\ UNCHANGED <<frames, module, loaders, cache, runs, items>>
Return ==
  /\ Running /\ AtStmt /\ Top.code # TopLevel
  /\ signal' = Plain("return")
  /\ UNCHANGED <<frames, module, loaders, cache, runs, items>>

(***************************************************************************)
(* Calls: evalCall, Call and Function.Call.                                *)
(***************************************************************************)

\* The function and the arguments are evaluated: calls of their own, between this and the call.
EvalArgs ==
  /\ Begin
  /\ SetTop(Push(Top, "call", 0))
  /\ UNCHANGED <<module, loaders, signal, cache, runs, items>>

\* Mutant of Calling: the position is the one that the arguments left.
CallingUnset == IF Doing({"call"}) THEN Turn(Top, "made", 0) ELSE [Top EXCEPT !.ops = @ + 1]
\* The frame that makes the call, its position set; a builtin's call leaves it alone.
Calling  == IF Doing({"call"}) THEN At(Turn(Top, "made", 0), HeadPos) ELSE [Top EXCEPT !.ops = @ + 1]
MayCall  == Running /\ (Doing({"call"}) \/ (Doing({"builtin"}) /\ Top.ops < MaxOps[Top.code]))

\* Mutant of Active: only the caller is looked at.
ActiveCaller(code) == Top.code = code
\* The loop that detects recursion.
Active(code) == \E i \in DOMAIN frames : frames[i].code = code
Recursive(code) ==
  /\ MayCall /\ Active(code)
  /\ SetTop(Calling)
  /\ signal' = Plain("error")
  /\ UNCHANGED <<module, loaders, cache, runs, items>>
Enter(code) ==
  /\ MayCall /\ ~Active(code)
  /\ frames' = <<NewFrame(code)>> \o [frames EXCEPT ![1] = Calling]
  /\ UNCHANGED <<module, loaders, signal, cache, runs, items>>
\* setArgs fails in the new frame, at the position of the function (Calls).
BadArgs(code) ==
  /\ MayCall /\ ~Active(code)
  /\ Raise(<<NewFrame(code)>> \o [frames EXCEPT ![1] = Calling], Header)
  /\ UNCHANGED <<module, loaders, cache, runs, items>>

EnterBuiltin ==
  /\ Running /\ Doing({"call"})
  /\ SetTop(At(Turn(Top, "builtin", 0), HeadPos))
  /\ UNCHANGED <<module, loaders, signal, cache, runs, items>>
EndBuiltin ==
  /\ Running /\ Doing({"builtin"})
  /\ SetTop(Done(Top))
  /\ UNCHANGED <<module, loaders, signal, cache, runs, items>>
\* A builtin, or the call of what is not callable, answers an error of its own.
BuiltinFails ==
  /\ Running /\ Doing({"builtin"})
  /\ signal' = Plain("error")
  /\ UNCHANGED <<frames, module, loaders, cache, runs, items>>
\* The optimized path for the methods of builtins sets no position, unless the method fails.
Method ==
  /\ Running /\ Doing({"call"})
  /\ \/ SetTop(Done(Top)) /\ UNCHANGED signal
     \/ signal' = Plain("error") /\ UNCHANGED frames
  /\ UNCHANGED <<module, loaders, cache, runs, items>>

\* A function has returned to the frames fs: its caller goes on.
Resume(fs) == IF Within(fs, {"made"}) THEN [fs EXCEPT ![1] = Done(@)] ELSE fs
EndFunction ==
  /\ Running /\ Top.doing = <<>> /\ Len(frames) > 1
  /\ frames' = Resume(Tail(frames))
  /\ UNCHANGED <<module, loaders, signal, cache, runs, items>>

(***************************************************************************)
(* An error on its way up.                                                 *)
(***************************************************************************)
Raised == frames # <<>> /\ signal # NoSignal

\* A loop takes break and continue and lets the rest pass, its iterator done.
UnwindFor ==
  /\ Raised /\ Doing({"body"})
  /\ SetTop(IF signal.kind = "continue" THEN Turn(Top, "for", 0) ELSE Done(Top))
  /\ signal' = IF signal.kind \in {"break", "continue"} THEN NoSignal ELSE signal
  /\ UNCHANGED <<module, loaders, cache, runs, items>>

\* wrapError.  What the arguments raise is an EvalError already.
\* Mutant of Wrapped: the sentinels pass.
WrappedButSentinels == signal.kind \in {"eval", "break", "continue"}
Wrapped == signal.kind = "eval"
UnwindCall ==
  /\ Raised /\ Doing({"call", "made", "builtin"})
  /\ IF Wrapped THEN SetTop(Done(Top)) /\ UNCHANGED signal
     ELSE Raise([frames EXCEPT ![1] = Done(@)], HeadPos)
  /\ UNCHANGED <<module, loaders, cache, runs, items>>

\* Function.Call: return is no error to the caller.
UnwindFunction ==
  /\ Raised /\ Top.doing = <<>> /\ Len(frames) > 1
  /\ IF signal.kind = "return"
     THEN frames' = Resume(Tail(frames)) /\ signal' = NoSignal
     ELSE frames' = Tail(frames) /\ signal' = [signal EXCEPT !.posns = Append(@, Top.posn)]
  /\ UNCHANGED <<module, loaders, cache, runs, items>>

(***************************************************************************)
(* load, at the top level only, and the end of an execution.  A module is  *)
(* executed in a thread of its own.                                        *)
(***************************************************************************)

\* The statement of the frames fs has the answer: the globals, where a name may be
\* missing, which has a position of its own, or an error, which it wraps.
LoadAnswer(fs, ok) ==
  LET after == [fs EXCEPT ![1] = Done(@)]
  IN  \/ ok /\ frames' = after /\ signal' = NoSignal
      \/ ok /\ Raise(after, Head(fs).ops + 1)
      \/ ~ok /\ Raise(after, Head(Head(fs).doing).pos)
LoadBegun == <<At(Push(Top, "load", 0), Here)>>

MayLoad == Begin /\ Top.doing = <<>> /\ Len(frames) = 1

\* The module's load is in progress, or its entry is there.
\* Mutant of InProgress: no placeholder is added.
NeverInProgress(m) == FALSE
InProgress(m) == cache[m] = "loading"
LoadCached(m) ==
  /\ MayLoad /\ (InProgress(m) \/ cache[m] \in {"ok", "failed"})
  /\ LoadAnswer(LoadBegun, cache[m] = "ok")
  /\ UNCHANGED <<module, loaders, cache, runs, items>>
Load(m) ==
  /\ MayLoad /\ ~InProgress(m) /\ cache[m] \notin {"ok", "failed"}
  /\ loaders' = <<[frames |-> LoadBegun, module |-> module]>> \o loaders
  /\ frames' = <<NewFrame(TopLevel)>> /\ module' = m
  /\ cache' = [cache EXCEPT ![m] = "loading"] /\ runs' = [runs EXCEPT ![m] = @ + 1]
  /\ UNCHANGED <<signal, items>>

\* The end of the file, reached or by an error; the entry is stored, and the loader goes on.
EndModule ==
  /\ frames # <<>> /\ Top.doing = <<>> /\ Len(frames) = 1 /\ loaders # <<>>
  /\ cache' = [cache EXCEPT ![module] = IF signal = NoSignal THEN "ok" ELSE "failed"]
  /\ LoadAnswer(Head(loaders).frames, signal = NoSignal)
  /\ module' = Head(loaders).module /\ loaders' = Tail(loaders)
  /\ UNCHANGED <<runs, items>>
EndItem ==
  /\ frames # <<>> /\ Top.doing = <<>> /\ Len(frames) = 1 /\ loaders = <<>>
  /\ frames' = <<>> /\ signal' = NoSignal
  /\ UNCHANGED <<module, loaders, cache, runs, items>>

InterpStep ==
  \/ Item \/ EndItem
  \/ Fail \/ (\E n \in 0..MaxLoop : For(n)) \/ Iterate \/ EndBody \/ EndFor
  \/ Branch("break") \/ Branch("continue") \/ Return
  \/ EvalArgs \/ (\E code \in Code : Recursive(code) \/ Enter(code) \/ BadArgs(code))
  \/ EnterBuiltin \/ EndBuiltin \/ BuiltinFails \/ Method \/ EndFunction
  \/ UnwindFor \/ UnwindCall \/ UnwindFunction
  \/ (\E m \in Module : Load(m) \/ LoadCached(m)) \/ EndModule

InterpNext == Len(frames) < MaxDepth /\ Len(loaders) < MaxDepth /\ InterpStep

InterpSpec == InterpInit /\ [][InterpNext]_interpVars /\ WF_interpVars(InterpNext)

(***************************************************************************)
(* ControlContained: a break, continue or return never leaves the function *)
(* whose statement it is, except to become an EvalError at once in the     *)
(* call that is returning: the loop of a caller is not ended by a callee,  *)
(* stray statements included, and no sentinel reaches the client.          *)
(***************************************************************************)
Sentinels == {"break", "continue", "return"}
ControlContained ==
  signal # NoSignal /\ signal.kind \in Sentinels =>
    \/ signal.frame = Len(frames) /\ (Top.doing = <<>> => Len(frames) > 1)
    \/ /\ signal.frame = Len(frames) + 1 /\ signal.kind # "return"
       /\ Doing({"made", "builtin"})

(***************************************************************************)
(* BacktraceExact: at any time after an EvalError is raised, its Backtrace *)
(* shows for each frame, popped or not, where it was when the error was    *)
(* raised: for all but the innermost, the call in progress.  The position  *)
(* of a frame is set after the arguments are evaluated, with their calls,  *)
(* and by nothing between a call and its return.                           *)
(***************************************************************************)
BacktraceExact ==
  signal # NoSignal /\ signal.kind = "eval" => Backtrace(frames, signal) = signal.calls

(***************************************************************************)
(* LoadsExact: the placeholders of the cache are the modules in progress,  *)
(* once each, and a module is executed once, whatever came of it; an       *)
(* execution that waits for a load is at its top level, which makes the    *)
(* check for recursion of each thread good for all of them together.       *)
(***************************************************************************)
InProgressNow == <<module>> \o [i \in DOMAIN loaders |-> loaders[i].module]
LoadsExact ==
  /\ \A i, j \in DOMAIN InProgressNow : i # j => InProgressNow[i] # InProgressNow[j]
  /\ \A m \in Module :
       /\ cache[m] = "loading" <=> \E i \in DOMAIN InProgressNow : InProgressNow[i] = m
       /\ runs[m] = IF cache[m] = "absent" THEN 0 ELSE 1
  /\ \A i \in DOMAIN loaders : Len(loaders[i].frames) = 1 /\ loaders[i].frames[1].code = TopLevel

(***************************************************************************)
(* Terminates: every item of a session ends.  A language without recursion *)
(* and without unbounded loops must; here it rests on the check in         *)
(* Function.Call, on the placeholders of the loader, and on every          *)
(* construct that is begun being ended, by a step or by an error.          *)
(***************************************************************************)
Terminates == frames # <<>> ~> frames = <<>>

(***************************************************************************)
(* What makes these inductive: every frame but the innermost is in a call, *)
(* the last construct it has begun, and its position that of the call; no  *)
(* code occurs twice in a thread; the outermost frame is the module's,     *)
(* which has no loops.                                                     *)
(***************************************************************************)
Construct == [k : {"for", "body", "call", "made", "builtin", "load"}, pos : Int, left : Int]
Frame     == [code : Code \cup {TopLevel}, posn : Int, doing : Seq(Construct), ops : Int]
Kinds     == {"eval", "error"} \cup Sentinels
Signals   == [kind : Kinds, frame : Int, posns : Seq(Int), calls : Seq(Int)]

InCall(f) == f.doing # <<>> /\ Head(f.doing).k \in {"made", "builtin"} /\ f.posn = Head(f.doing).pos
Calm(f) == \A j \in DOMAIN f.doing : f.doing[j].k \in {"made", "builtin"} => j = 1 /\ InCall(f)
Loopless(f) == \A j \in DOMAIN f.doing : f.doing[j].k \notin {"for", "body"}
NoRecursion(fs) == \A i, j \in DOMAIN fs : i # j => fs[i].code # fs[j].code
Stack(fs) ==
  /\ \A i \in 2..Len(fs) : InCall(fs[i])
  /\ NoRecursion(fs)
  /\ \A i \in DOMAIN fs : fs[i].code = TopLevel <=> i = Len(fs)
  /\ \A i \in DOMAIN fs : Calm(fs[i]) /\ (fs[i].code = TopLevel => Loopless(fs[i]))
Waiting(l) == Len(l.frames) = 1 /\ Stack(l.frames) /\ Within(l.frames, {"load"})

ThreadTypeOK == frames \in Seq(Frame) /\ signal \in {NoSignal} \cup Signals
LoaderTypeOK ==
  /\ module \in Module \cup {Session}
  /\ loaders \in Seq([frames : Seq(Frame), module : Module \cup {Session}])
  /\ cache \in [Module -> {"absent", "loading", "ok", "failed"}]
  /\ runs \in [Module -> Int]
InterpTypeOK == ThreadTypeOK /\ LoaderTypeOK

SentinelInFunction ==
  signal # NoSignal /\ signal.kind \in Sentinels /\ signal.frame = Len(frames) => Len(frames) > 1
ThreadInv ==
  /\ ThreadTypeOK /\ Stack(frames)
  /\ frames = <<>> => signal = NoSignal
  /\ SentinelInFunction /\ ControlContained /\ BacktraceExact
LoaderInv ==
  /\ LoaderTypeOK
  /\ \A i \in DOMAIN loaders : Waiting(loaders[i])
  /\ \A i \in DOMAIN InProgressNow : InProgressNow[i] = Session <=> i = Len(loaders) + 1
  /\ LoadsExact
InterpInv == ThreadInv /\ LoaderInv
=============================================================================
