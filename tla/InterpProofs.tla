---------------------------- MODULE InterpProofs ----------------------------
(***************************************************************************)
(* Proofs about Interp, for any program, any modules and any bounds.       *)
(* InterpInv is inductive.  The lemmas go from sequences to frames, from   *)
(* frames to stacks, and from stacks to the errors raised in them; then    *)
(* there is one step per action, for the thread (ThreadInv), which looks   *)
(* at the loader in EndModule only, and for the loader (LoaderInv).        *)
(***************************************************************************)
EXTENDS Interp, SequenceTheorems, TLAPS

\* The first element of a sequence is replaced.
LEMMA Replaced ==
  ASSUME NEW S, NEW s \in Seq(S), s # <<>>, NEW x \in S
  PROVE  LET t == [s EXCEPT ![1] = x]
         IN  t \in Seq(S) /\ t # <<>> /\ Len(t) = Len(s) /\ t[1] = x /\ Head(t) = x
             /\ (\A i \in 2..Len(s) : t[i] = s[i]) /\ Tail(t) = Tail(s) 
<1> DEFINE t == [s EXCEPT ![1] = x]
<1>1. 1 \in DOMAIN s
  OBVIOUS
<1>2. t \in Seq(S) /\ Len(t) = Len(s)
  BY <1>1
<1>3. t[1] = x /\ \A i \in 2..Len(s) : t[i] = s[i]
  BY <1>1
<1>4. Tail(t) = Tail(s)
  BY <1>2, <1>3
<1> QED
  BY <1>1, <1>2, <1>3, <1>4

\* An element is put before the first.
LEMMA Pushed ==
  ASSUME NEW S, NEW s \in Seq(S), NEW x \in S
  PROVE  LET t == <<x>> \o s
         IN  t \in Seq(S) /\ t # <<>> /\ Len(t) = Len(s) + 1 /\ t[1] = x /\ Head(t) = x
             /\ \A i \in 1..Len(s) : t[i + 1] = s[i]
  OBVIOUS

\* Concatenation, regrouped.
LEMMA JoinedThrice ==
  ASSUME NEW p \in Seq(Int), NEW u \in Seq(Int), NEW r \in Seq(Int)
  PROVE  (p \o u) \o r = p \o (u \o r)
BY ConcatAssociative

\* The first position of a sequence moves to the end of the one before it.
LEMMA Shifted ==
  ASSUME NEW p \in Seq(Int), NEW a \in Seq(Int), NEW r \in Seq(Int),
         Len(a) = Len(r) + 1, \A i \in 1..Len(r) : a[i + 1] = r[i]
  PROVE  p \o a = Append(p, a[1]) \o r
<1>1. a[1] \in Int /\ Len(a) \in Nat \ {0} /\ Len(r) \in Nat
  OBVIOUS
<1> DEFINE t == <<a[1]>> \o r
<1>2. /\ t \in Seq(Int) /\ Len(t) = Len(r) + 1 /\ t[1] = a[1]
      /\ \A i \in 1..Len(r) : t[i + 1] = r[i]
  BY <1>1, Pushed
<1> HIDE DEF t
<1>3. \A i \in 1..Len(a) : a[i] = t[i]
  <2> SUFFICES ASSUME NEW i \in 1..Len(a), i # 1 PROVE a[i] = t[i]
    BY <1>2
  <2>1. i - 1 \in 1..Len(r) /\ i = (i - 1) + 1
    BY <1>1
  <2> QED
    BY <1>2, <2>1
<1>4. a = t
  BY <1>1, <1>2, <1>3, SeqEqual
<1>5. Append(p, a[1]) = p \o <<a[1]>>
  BY <1>1
<1>6. (p \o <<a[1]>>) \o r = p \o (<<a[1]>> \o r)
  <2> DEFINE u == <<a[1]>>
  <2>1. u \in Seq(Int)
    BY <1>1
  <2> HIDE DEF u
  <2>2. (p \o u) \o r = p \o (u \o r)
    BY <2>1, JoinedThrice
  <2> QED
    BY <2>2 DEF u
<1> QED
  BY <1>4, <1>5, <1>6 DEF t

\* The first element is taken away.
LEMMA Popped ==
  ASSUME NEW S, NEW s \in Seq(S), s # <<>>
  PROVE  Tail(s) \in Seq(S) /\ Len(Tail(s)) = Len(s) - 1 /\ \A i \in 1..(Len(s) - 1) : Tail(s)[i] = s[i + 1]
  OBVIOUS

(***************************************************************************)
(* Frames: what the operators of a frame keep of it.                       *)
(***************************************************************************)
Unmade(f) == \A j \in DOMAIN f.doing : f.doing[j].k \notin {"made", "builtin"}
Follows(f, g) == /\ g \in Frame /\ g.code = f.code /\ Calm(g)
                 /\ Loopless(f) /\ f.code = TopLevel => Loopless(g)

\* In a frame that calls nothing, no construct is a call that has been made.
LEMMA CalmUnmade ==
  ASSUME NEW f \in Frame, Calm(f), f.doing = <<>> \/ Head(f.doing).k \notin {"made", "builtin"}
  PROVE  Unmade(f)
<1>1. f.doing \in Seq(Construct) /\ (f.doing # <<>> => Head(f.doing) = f.doing[1])
  BY DEF Frame
<1> QED
  BY <1>1 DEF Calm, Unmade

\* The position of a frame that calls nothing may be set.
LEMMA FrameAt ==
  ASSUME NEW f \in Frame, Unmade(f), NEW p \in Int
  PROVE  Follows(f, At(f, p)) /\ At(f, p).posn = p /\ At(f, p).doing = f.doing
<1>1. At(f, p) \in Frame /\ At(f, p).code = f.code /\ At(f, p).posn = p /\ At(f, p).doing = f.doing
  BY DEF Frame, At
<1> HIDE DEF At
<1> QED
  BY <1>1 DEF Follows, Calm, Unmade, Loopless

\* The innermost construct of a frame ends, whatever its kind.
LEMMA FrameDone ==
  ASSUME NEW f \in Frame, Calm(f), f.doing # <<>>
  PROVE  /\ Follows(f, Done(f)) /\ Done(f).posn = f.posn
         /\ \A p \in Int : Follows(Done(f), At(Done(f), p)) /\ At(Done(f), p).posn = p
<1> DEFINE d == Done(f)
<1>1. f.doing \in Seq(Construct) /\ Len(f.doing) \in Nat \ {0}
  BY DEF Frame
<1>2. /\ Tail(f.doing) \in Seq(Construct) /\ Len(Tail(f.doing)) = Len(f.doing) - 1
      /\ \A i \in 1..(Len(f.doing) - 1) : Tail(f.doing)[i] = f.doing[i + 1]
  BY <1>1, Popped
<1>3. d \in Frame /\ d.code = f.code /\ d.posn = f.posn /\ d.doing = Tail(f.doing)
  BY <1>2 DEF Frame, Done
<1> HIDE DEF d
<1>4. \A i \in DOMAIN d.doing : i + 1 \in DOMAIN f.doing /\ i + 1 # 1 /\ d.doing[i] = f.doing[i + 1]
  BY <1>1, <1>2, <1>3
<1>5. Unmade(d) /\ (Loopless(f) => Loopless(d))
  BY <1>4 DEF Unmade, Calm, Loopless
<1>6. Calm(d)
  BY <1>5 DEF Unmade, Calm
<1>7. \A p \in Int : Follows(d, At(d, p)) /\ At(d, p).posn = p
  BY <1>3, <1>5, FrameAt
<1> QED
  BY <1>3, <1>5, <1>6, <1>7 DEF Follows, d

\* A construct begins.
LEMMA FramePush ==
  ASSUME NEW f \in Frame, Unmade(f), NEW k \in {"for", "call", "load"}, NEW n \in Int,
         k = "for" => f.code # TopLevel
  PROVE  /\ Follows(f, Push(f, k, n)) /\ Push(f, k, n).posn = f.posn /\ Unmade(Push(f, k, n))
         /\ Push(f, k, n).doing # <<>> /\ Head(Push(f, k, n).doing).k = k
<1> DEFINE c == [k |-> k, pos |-> f.ops + 1, left |-> n]
<1>1. c \in Construct /\ c.k = k
  BY DEF Construct, Frame
<1>2. f.doing \in Seq(Construct)
  BY DEF Frame
<1> DEFINE d == <<c>> \o f.doing
           g == Push(f, k, n)
<1>3. /\ d \in Seq(Construct) /\ d # <<>> /\ Head(d) = c /\ Len(d) = Len(f.doing) + 1 /\ d[1] = c
      /\ \A i \in 1..Len(f.doing) : d[i + 1] = f.doing[i]
  BY <1>1, <1>2, Pushed
<1>4. g = [code |-> f.code, posn |-> f.posn, doing |-> d, ops |-> f.ops + 1]
  BY DEF Push
<1> HIDE DEF c, d, g
<1>5. g \in Frame /\ g.code = f.code /\ g.posn = f.posn /\ g.doing = d
  BY <1>3, <1>4 DEF Frame
<1>6. \A j \in DOMAIN d : \/ j = 1 /\ d[j] = c
                          \/ j - 1 \in DOMAIN f.doing /\ d[j] = f.doing[j - 1]
  <2> SUFFICES ASSUME NEW j \in DOMAIN d, j # 1
               PROVE  j - 1 \in DOMAIN f.doing /\ d[j] = f.doing[j - 1]
    BY <1>3
  <2>1. j - 1 \in 1..Len(f.doing) /\ j = (j - 1) + 1
    BY <1>2, <1>3
  <2> QED
    BY <1>2, <1>3, <2>1
<1>7. Unmade(g)
  BY <1>1, <1>5, <1>6 DEF Unmade
<1>8. Loopless(f) /\ f.code = TopLevel => Loopless(g)
  BY <1>1, <1>5, <1>6 DEF Loopless
<1> QED
  BY <1>1, <1>3, <1>5, <1>7, <1>8 DEF Follows, Calm, Unmade, g

\* The innermost construct goes on to another part of itself.
LEMMA FrameTurn ==
  ASSUME NEW f \in Frame, Calm(f), f.doing # <<>>, NEW k \in {"for", "body", "made", "builtin"}, NEW n \in Int,
         Head(f.doing).k \notin {"made", "builtin"},
         k \in {"for", "body"} => Head(f.doing).k \in {"for", "body"}
  PROVE  LET g == Turn(f, k, n)
         IN  /\ g \in Frame /\ g.code = f.code /\ g.posn = f.posn
             /\ g.doing # <<>> /\ Head(g.doing).k = k /\ Head(g.doing).pos = Head(f.doing).pos
             /\ k \in {"for", "body"} => Follows(f, g)
             /\ LET h == At(g, Head(f.doing).pos)
                IN  /\ (Follows(f, h) /\ InCall(h)) \/ k \in {"for", "body"}
                    /\ h.doing = g.doing /\ h.posn = Head(f.doing).pos
<1> DEFINE c == [k |-> k, pos |-> f.doing[1].pos, left |-> f.doing[1].left - n]
           d == [f.doing EXCEPT ![1] = c]
           g == Turn(f, k, n)
           h == At(g, Head(f.doing).pos)
<1>1. f.doing \in Seq(Construct) /\ f.doing[1] \in Construct /\ Head(f.doing) = f.doing[1] /\ 1 \in DOMAIN f.doing
  BY DEF Frame
<1>2. c \in Construct /\ c.k = k /\ c.pos = f.doing[1].pos /\ c.pos \in Int
  BY <1>1 DEF Construct
<1>3. g = [code |-> f.code, posn |-> f.posn, doing |-> d, ops |-> f.ops]
  <2>1. g = [f EXCEPT !.doing = d]
    BY <1>1 DEF Turn, Frame
  <2> QED
    BY <2>1 DEF Frame
<1> HIDE DEF c, g
<1>4. /\ d \in Seq(Construct) /\ d # <<>> /\ Head(d) = c /\ Len(d) = Len(f.doing) /\ d[1] = c
      /\ \A i \in 2..Len(f.doing) : d[i] = f.doing[i]
  BY <1>1, <1>2, Replaced
<1> HIDE DEF d
<1>5. g \in Frame /\ g.code = f.code /\ g.posn = f.posn /\ g.doing = d
  BY <1>3, <1>4 DEF Frame
<1>6. h \in Frame /\ h.code = f.code /\ h.posn = c.pos /\ h.doing = d
  BY <1>1, <1>2, <1>5 DEF Frame, At
<1> HIDE DEF h
<1>7. \A j \in DOMAIN d : j = 1 \/ (j \in DOMAIN f.doing /\ d[j] = f.doing[j] /\ d[j].k \notin {"made", "builtin"})
  BY <1>1, <1>4 DEF Calm
<1>8. ASSUME k \in {"for", "body"} PROVE Follows(f, g)
  <2>1. Calm(g)
    BY <1>2, <1>4, <1>5, <1>7, <1>8 DEF Calm
  <2>2. ~Loopless(f)
    BY <1>1, <1>8 DEF Loopless
  <2> QED
    BY <1>5, <2>1, <2>2 DEF Follows
<1>9. ASSUME k \notin {"for", "body"} PROVE Follows(f, h) /\ InCall(h)
  <2>1. InCall(h)
    BY <1>2, <1>4, <1>6, <1>9 DEF InCall
  <2>2. Calm(h)
    BY <1>6, <1>7, <2>1 DEF Calm
  <2>3. Loopless(f) => Loopless(h)
    BY <1>2, <1>4, <1>6, <1>7, <1>9 DEF Loopless
  <2> QED
    BY <1>6, <2>1, <2>2, <2>3 DEF Follows
<1> QED
  BY <1>1, <1>2, <1>4, <1>5, <1>6, <1>8, <1>9 DEF g, h

\* An operation of a builtin.
LEMMA FrameOps ==
  ASSUME NEW f \in Frame, Calm(f), NEW n \in Int
  PROVE  LET g == [f EXCEPT !.ops = n]
         IN  Follows(f, g) /\ g.doing = f.doing /\ g.posn = f.posn
<1> DEFINE g == [f EXCEPT !.ops = n]
<1>1. g \in Frame /\ g.code = f.code /\ g.doing = f.doing /\ g.posn = f.posn
  BY DEF Frame
<1> HIDE DEF g
<1> QED
  BY <1>1 DEF Follows, Calm, InCall, Loopless, g

(***************************************************************************)
(* Stacks of frames.                                                       *)
(***************************************************************************)
\* The innermost frame is replaced by one of the same code.
LEMMA StackSet ==
  ASSUME NEW fs \in Seq(Frame), fs # <<>>, Stack(fs),
         NEW f, Follows(Head(fs), f)
  PROVE  LET gs == [fs EXCEPT ![1] = f]
         IN  gs \in Seq(Frame) /\ gs # <<>> /\ Len(gs) = Len(fs) /\ Head(gs) = f /\ Tail(gs) = Tail(fs) /\ Stack(gs)
<1> DEFINE gs == [fs EXCEPT ![1] = f]
<1>1. /\ gs \in Seq(Frame) /\ gs # <<>> /\ Len(gs) = Len(fs) /\ Head(gs) = f /\ Tail(gs) = Tail(fs) /\ gs[1] = f
      /\ \A i \in 2..Len(fs) : gs[i] = fs[i]
  BY Replaced DEF Follows
<1> HIDE DEF gs
<1>2. Head(fs) = fs[1] /\ DOMAIN fs = 1..Len(fs) /\ DOMAIN gs = 1..Len(fs) /\ 1 \in DOMAIN fs
  BY <1>1
<1>3. \A i \in DOMAIN gs : gs[i].code = fs[i].code
  BY <1>1, <1>2 DEF Follows
<1>4. \A i \in 2..Len(gs) : InCall(gs[i])
  BY <1>1 DEF Stack
<1>5. NoRecursion(gs)
  BY <1>2, <1>3 DEF Stack, NoRecursion
<1>6. \A i \in DOMAIN gs : gs[i].code = TopLevel <=> i = Len(gs)
  BY <1>1, <1>2, <1>3 DEF Stack
<1>7. \A i \in DOMAIN gs : Calm(gs[i]) /\ (gs[i].code = TopLevel => Loopless(gs[i]))
  BY <1>1, <1>2 DEF Stack, Follows
<1> QED
  BY <1>1, <1>4, <1>5, <1>6, <1>7 DEF Stack, gs

\* A frame of a code that is not active is put on the stack.
LEMMA StackPush ==
  ASSUME NEW fs \in Seq(Frame), fs # <<>>, Stack(fs), InCall(Head(fs)),
         NEW f \in Frame, f.code # TopLevel, Calm(f), \A i \in DOMAIN fs : fs[i].code # f.code
  PROVE  LET gs == <<f>> \o fs
         IN  gs \in Seq(Frame) /\ gs # <<>> /\ Len(gs) = Len(fs) + 1 /\ Head(gs) = f /\ Stack(gs)
<1> DEFINE gs == <<f>> \o fs
<1>1. /\ gs \in Seq(Frame) /\ gs # <<>> /\ Len(gs) = Len(fs) + 1 /\ Head(gs) = f /\ gs[1] = f
      /\ \A i \in 1..Len(fs) : gs[i + 1] = fs[i]
  BY Pushed
<1> HIDE DEF gs
<1>2. Head(fs) = fs[1] /\ Len(fs) \in Nat \ {0}
  OBVIOUS
<1>3. \A i \in 2..Len(gs) : i - 1 \in 1..Len(fs) /\ gs[i] = fs[i - 1]
  BY <1>1, <1>2
<1>4. \A i \in 2..Len(gs) : InCall(gs[i])
  <2> SUFFICES ASSUME NEW i \in 2..Len(gs) PROVE InCall(fs[i - 1])
    BY <1>3
  <2> QED
    BY <1>1, <1>2, <1>3 DEF Stack
<1>5. NoRecursion(gs)
  <2> SUFFICES ASSUME NEW i \in 1..Len(gs), NEW j \in 1..Len(gs), i # j PROVE gs[i].code # gs[j].code
    BY <1>1 DEF NoRecursion
  <2>1. CASE i = 1
    BY <1>1, <1>2, <1>3, <2>1
  <2>2. CASE j = 1
    BY <1>1, <1>2, <1>3, <2>2
  <2>3. CASE i # 1 /\ j # 1
    <3>1. i - 1 \in 1..Len(fs) /\ j - 1 \in 1..Len(fs) /\ i - 1 # j - 1
      BY <1>1, <1>2, <2>3
    <3>2. gs[i] = fs[i - 1] /\ gs[j] = fs[j - 1]
      BY <1>1, <1>2, <1>3, <2>3
    <3> QED
      BY <3>1, <3>2 DEF Stack, NoRecursion
  <2> QED
    BY <2>1, <2>2, <2>3
<1>6. \A i \in DOMAIN gs : gs[i].code = TopLevel <=> i = Len(gs)
  BY <1>1, <1>2, <1>3 DEF Stack
<1>7. \A i \in DOMAIN gs : Calm(gs[i]) /\ (gs[i].code = TopLevel => Loopless(gs[i]))
  BY <1>1, <1>2, <1>3 DEF Stack
<1> QED
  BY <1>1, <1>4, <1>5, <1>6, <1>7 DEF Stack, gs

\* The innermost frame leaves a stack.
LEMMA StackPop ==
  ASSUME NEW fs \in Seq(Frame), Len(fs) > 1, Stack(fs)
  PROVE  LET gs == Tail(fs)
         IN  gs \in Seq(Frame) /\ gs # <<>> /\ Len(gs) = Len(fs) - 1 /\ InCall(Head(gs)) /\ Stack(gs)
<1> DEFINE gs == Tail(fs)
<1>1. gs \in Seq(Frame) /\ Len(gs) = Len(fs) - 1 /\ \A i \in 1..(Len(fs) - 1) : gs[i] = fs[i + 1]
  BY Popped
<1> HIDE DEF gs
<1>2. Len(gs) \in Nat \ {0} /\ Len(fs) \in Nat /\ gs # <<>>
  BY <1>1
<1>3. \A i \in 1..Len(gs) : gs[i] = fs[i + 1] /\ i + 1 \in 2..Len(fs) /\ i + 1 \in DOMAIN fs
  BY <1>1, <1>2
<1>4. \A i \in 1..Len(gs) : InCall(gs[i])
  BY <1>3 DEF Stack
<1>5. NoRecursion(gs)
  <2> SUFFICES ASSUME NEW i \in 1..Len(gs), NEW j \in 1..Len(gs), i # j PROVE gs[i].code # gs[j].code
    BY <1>1 DEF NoRecursion
  <2>1. i + 1 \in DOMAIN fs /\ j + 1 \in DOMAIN fs /\ i + 1 # j + 1 /\ gs[i] = fs[i + 1] /\ gs[j] = fs[j + 1]
    BY <1>2, <1>3
  <2> QED
    BY <2>1 DEF Stack, NoRecursion
<1>6. \A i \in 1..Len(gs) : gs[i].code = TopLevel <=> i = Len(gs)
  <2> SUFFICES ASSUME NEW i \in 1..Len(gs) PROVE gs[i].code = TopLevel <=> i = Len(gs)
    OBVIOUS
  <2>1. gs[i].code = TopLevel <=> i + 1 = Len(fs)
    BY <1>3 DEF Stack
  <2> QED
    BY <1>1, <1>2, <2>1
<1>7. \A i \in 1..Len(gs) : Calm(gs[i]) /\ (gs[i].code = TopLevel => Loopless(gs[i]))
  BY <1>3 DEF Stack
<1>8. DOMAIN gs = 1..Len(gs) /\ Head(gs) = gs[1] /\ 2..Len(gs) \subseteq 1..Len(gs) /\ 1 \in 1..Len(gs)
  BY <1>1, <1>2
<1> QED
  BY <1>1, <1>2, <1>4, <1>5, <1>6, <1>7, <1>8 DEF Stack, gs
\* A new frame: no construct has begun in it.
LEMMA FrameNew ==
  ASSUME NEW code \in Code \cup {TopLevel}
  PROVE  LET f == NewFrame(code)
         IN  f \in Frame /\ f.code = code /\ f.doing = <<>> /\ Calm(f) /\ Unmade(f) /\ Loopless(f)
<1> DEFINE f == NewFrame(code)
<1>1. f = [code |-> code, posn |-> 0, doing |-> <<>>, ops |-> 0]
  BY DEF NewFrame
<1> HIDE DEF f
<1>2. f \in Frame /\ f.code = code /\ f.doing = <<>>
  BY <1>1 DEF Frame
<1> QED
  BY <1>2 DEF Calm, Unmade, Loopless, f

\* An execution begins with the frame of the top level.
LEMMA StackNew == LET fs == <<NewFrame(TopLevel)>>
                  IN  fs \in Seq(Frame) /\ fs # <<>> /\ Len(fs) = 1 /\ Stack(fs)
<1> DEFINE f == NewFrame(TopLevel)
           fs == <<f>>
<1>1. f \in Frame /\ f.code = TopLevel /\ Calm(f) /\ Loopless(f)
  BY FrameNew
<1> HIDE DEF f
<1>2. fs \in Seq(Frame) /\ Len(fs) = 1 /\ fs[1] = f /\ DOMAIN fs = {1} /\ 2..Len(fs) = {}
  BY <1>1
<1>3. fs # <<>>
  BY <1>1
<1> HIDE DEF fs
<1> QED
  BY <1>1, <1>2, <1>3 DEF Stack, NoRecursion, f, fs

(***************************************************************************)
(* What the end of an error, and the beginning of one, make of the thread. *)
(***************************************************************************)
\* Without an error, what is said of errors holds.
LEMMA Quiet ==
  ASSUME frames' \in Seq(Frame), Stack(frames'), signal' = NoSignal
  PROVE  ThreadInv'
BY DEF ThreadInv, ThreadTypeOK, Stack, SentinelInFunction, ControlContained, BacktraceExact

\* Not an EvalError, in the innermost frame.  If it is a sentinel, that of a function.
LEMMA PlainInv ==
  ASSUME frames' \in Seq(Frame), frames' # <<>>, Stack(frames'), NEW kind \in {"error"} \cup Sentinels,
         signal' = Plain(kind), Len(frames') = Len(frames), kind \in Sentinels => Len(frames) > 1
  PROVE  ThreadInv'
<1>1. /\ signal' \in Signals /\ signal'.kind = kind /\ signal'.frame = Len(frames')
  BY DEF Plain, Signals, Kinds
<1>2. kind # "eval"
  BY DEF Sentinels
<1> QED
  BY <1>1, <1>2 DEF ThreadInv, ThreadTypeOK, Stack, SentinelInFunction, ControlContained, BacktraceExact

\* An EvalError raised in the innermost of the frames fs, which calls nothing.
LEMMA RaiseInv ==
  ASSUME NEW fs \in Seq(Frame), fs # <<>>, Stack(fs), NEW pos \in Int,
         Follows(Head(fs), At(Head(fs), pos)), At(Head(fs), pos).posn = pos,
         Raise(fs, pos)
  PROVE  ThreadInv'
<1> DEFINE f == At(Head(fs), pos)
           gs == [fs EXCEPT ![1] = f]
           calls == [i \in DOMAIN fs |-> IF i = 1 THEN pos ELSE Head(fs[i].doing).pos]
           posns == [i \in DOMAIN gs |-> gs[i].posn]
<1>1. Head(fs) = fs[1] /\ 1 \in DOMAIN fs /\ DOMAIN fs = 1..Len(fs) /\ Len(fs) \in Nat
  OBVIOUS
<1>2. frames' = gs /\ signal' = [kind |-> "eval", frame |-> Len(fs), posns |-> <<>>, calls |-> calls]
  BY <1>1 DEF Raise, EvalError
<1>3. gs \in Seq(Frame) /\ gs # <<>> /\ Len(gs) = Len(fs) /\ Stack(gs)
  BY StackSet
<1>4. gs[1] = f /\ (\A i \in 2..Len(fs) : gs[i] = fs[i]) /\ DOMAIN gs = DOMAIN fs
  BY <1>1
<1> HIDE DEF f, gs
<1>5. \A i \in DOMAIN fs : calls[i] = gs[i].posn /\ gs[i].posn \in Int
  <2> SUFFICES ASSUME NEW i \in DOMAIN fs PROVE calls[i] = gs[i].posn /\ gs[i].posn \in Int
    OBVIOUS
  <2>1. gs[i] \in Frame
    BY <1>3, <1>4
  <2>2. CASE i = 1
    BY <1>4, <2>2 DEF f
  <2>3. CASE i # 1
    <3>1. i \in 2..Len(fs) /\ gs[i] = fs[i]
      BY <1>1, <1>4, <2>3
    <3>2. InCall(fs[i])
      BY <3>1 DEF Stack
    <3> QED
      BY <2>1, <2>3, <3>1, <3>2 DEF InCall, Frame
  <2> QED
    BY <2>2, <2>3
<1>6. calls \in Seq(Int) /\ posns \in Seq(Int) /\ posns = calls
  <2>1. calls \in [1..Len(fs) -> Int] /\ posns \in [1..Len(fs) -> Int]
    BY <1>1, <1>4, <1>5
  <2> QED
    BY <1>1, <1>4, <1>5, <2>1
<1> HIDE DEF calls
<1>7. signal' \in Signals /\ signal'.kind = "eval" /\ signal'.posns = <<>> /\ signal'.calls = calls
  BY <1>1, <1>2, <1>6 DEF Signals, Kinds
<1>8. BacktraceExact'
  <2>1. Backtrace(frames', signal') = <<>> \o posns
    BY <1>2, <1>7 DEF Backtrace
  <2>2. <<>> \o posns = posns
    BY <1>6
  <2> QED
    BY <1>6, <1>7, <2>1, <2>2 DEF BacktraceExact
<1>9. SentinelInFunction' /\ ControlContained'
  BY <1>7 DEF SentinelInFunction, ControlContained, Sentinels
<1> QED
  BY <1>2, <1>3, <1>7, <1>8, <1>9 DEF ThreadInv, ThreadTypeOK, Stack

\* The same where a construct ends, and with it a call that was made.
LEMMA RaiseDone ==
  ASSUME NEW fs \in Seq(Frame), fs # <<>>, Stack(fs), Head(fs).doing # <<>>, NEW pos \in Int,
         Raise([fs EXCEPT ![1] = Done(@)], pos)
  PROVE  ThreadInv'
<1> DEFINE gs == [fs EXCEPT ![1] = Done(Head(fs))]
<1>1. Head(fs) = fs[1] /\ Head(fs) \in Frame /\ Calm(Head(fs))
  BY DEF Stack
<1>2. Follows(Head(fs), Done(Head(fs)))
  BY <1>1, FrameDone
<1>3. gs \in Seq(Frame) /\ gs # <<>> /\ Head(gs) = Done(Head(fs)) /\ Stack(gs)
  BY <1>2, StackSet
<1>4. gs = [fs EXCEPT ![1] = Done(@)]
  BY <1>1
<1> HIDE DEF gs
<1>5. Follows(Head(gs), At(Head(gs), pos)) /\ At(Head(gs), pos).posn = pos
  BY <1>1, <1>3, FrameDone
<1> QED
  BY <1>3, <1>4, <1>5, RaiseInv

(***************************************************************************)
(* The steps of a thread.                                                  *)
(***************************************************************************)
\* Arithmetic.
LEMMA BeyondOne == ASSUME NEW n \in Nat \ {0}, n # 1 PROVE n > 1
OBVIOUS

\* The innermost frame of a running thread.
LEMMA TopFacts ==
  ASSUME ThreadInv, frames # <<>>
  PROVE  /\ Top \in Frame /\ Top = frames[1] /\ Calm(Top) /\ (Top.code = TopLevel => Loopless(Top))
         /\ frames \in Seq(Frame) /\ Stack(frames) /\ Len(frames) \in Nat \ {0}
         /\ (Top.code = TopLevel <=> Len(frames) = 1)
         /\ Top.doing \in Seq(Construct)
         /\ Top.doing # <<>> => Head(Top.doing) \in Construct /\ HeadPos \in Int
<1>1. frames \in Seq(Frame) /\ Stack(frames) /\ Len(frames) \in Nat \ {0} /\ 1 \in DOMAIN frames
  BY DEF ThreadInv, ThreadTypeOK
<1>2. Top = frames[1] /\ Top \in Frame
  BY <1>1 DEF Top
<1>3. Calm(Top) /\ (Top.code = TopLevel => Loopless(Top)) /\ (Top.code = TopLevel <=> Len(frames) = 1)
  BY <1>1, <1>2 DEF Stack
<1>4. Top.doing \in Seq(Construct)
  BY <1>2 DEF Frame
<1>5. ASSUME Top.doing # <<>> PROVE Head(Top.doing) \in Construct /\ HeadPos \in Int
  <2>1. Head(Top.doing) \in Construct
    BY <1>4, <1>5
  <2> QED
    BY <2>1 DEF HeadPos, Construct
<1> QED
  BY <1>1, <1>2, <1>3, <1>4, <1>5

\* A step within the innermost frame that raises nothing.
LEMMA SetTopQuiet ==
  ASSUME ThreadInv, frames # <<>>, NEW f, Follows(Top, f), SetTop(f), signal' = NoSignal
  PROVE  ThreadInv'
<1>1. frames' = [frames EXCEPT ![1] = f] /\ Follows(Head(frames), f)
  BY DEF SetTop, Top
<1>2. frames' \in Seq(Frame) /\ Stack(frames')
  BY <1>1, TopFacts, StackSet
<1> QED
  BY <1>2, Quiet

\* The error passes, with the position of the frame as it was.
LEMMA Passed ==
  ASSUME ThreadInv, frames # <<>>, signal # NoSignal, NEW f, Follows(Top, f), f.posn = Top.posn, SetTop(f),
         signal' = signal, signal.kind = "eval" \/ Doing({"body"})
  PROVE  ThreadInv'
<1> DEFINE gs == [frames EXCEPT ![1] = f]
<1>1. frames' = gs /\ Follows(Head(frames), f)
  BY DEF SetTop, Top
<1>2. gs \in Seq(Frame) /\ gs # <<>> /\ Len(gs) = Len(frames) /\ Stack(gs)
  BY <1>1, TopFacts, StackSet
<1>3. DOMAIN gs = DOMAIN frames /\ \A i \in DOMAIN frames : gs[i].posn = frames[i].posn
  BY TopFacts
<1> HIDE DEF gs
<1>4. Backtrace(gs, signal) = Backtrace(frames, signal)
  BY <1>3 DEF Backtrace
<1>5. BacktraceExact'
  BY <1>1, <1>4 DEF ThreadInv, BacktraceExact
<1>6. CASE signal.kind = "eval"
  BY <1>1, <1>2, <1>5, <1>6 DEF ThreadInv, ThreadTypeOK, Stack, SentinelInFunction, ControlContained, Sentinels
<1>7. CASE Doing({"body"})
  <2>1. ~Doing({"made", "builtin"})
    BY <1>7 DEF Doing, Within
  <2>2. signal.kind \in Sentinels => signal.frame = Len(frames) /\ Len(frames) > 1
    BY <2>1 DEF ThreadInv, ControlContained, SentinelInFunction
  <2>3. SentinelInFunction' /\ ControlContained'
    BY <1>1, <1>2, <2>2 DEF SentinelInFunction, ControlContained
  <2> QED
    BY <1>1, <1>2, <1>5, <2>3 DEF ThreadInv, ThreadTypeOK, Stack
<1> QED
  BY <1>6, <1>7

\* The frame that makes a call is in it, at its position.
LEMMA CallingInCall ==
  ASSUME ThreadInv, MayCall
  PROVE  frames # <<>> /\ Follows(Top, Calling) /\ InCall(Calling)
<1>1. frames # <<>> /\ signal = NoSignal /\ (Doing({"call"}) \/ Doing({"builtin"}))
  BY DEF MayCall, Running
<1>2. CASE Doing({"call"})
  <2>1. Top.doing # <<>> /\ Head(Top.doing).k = "call"
    BY <1>2 DEF Doing, Within, Top
  <2>2. Calling = At(Turn(Top, "made", 0), Head(Top.doing).pos)
    BY <1>2 DEF Calling, HeadPos
  <2> QED
    BY <1>1, <2>1, <2>2, TopFacts, FrameTurn
<1>3. CASE ~Doing({"call"})
  <2>1. Top.doing # <<>> /\ Head(Top.doing).k = "builtin"
    BY <1>1, <1>3 DEF Doing, Within, Top
  <2>2. Calling = [Top EXCEPT !.ops = Top.ops + 1] /\ Top.ops + 1 \in Int
    BY <1>1, <1>3, TopFacts DEF Calling, Frame
  <2>3. Follows(Top, Calling) /\ Calling.doing = Top.doing /\ Calling.posn = Top.posn
    BY <1>1, <2>2, TopFacts, FrameOps
  <2>4. InCall(Top)
    BY <1>1, <2>1, TopFacts DEF Calm
  <2> QED
    BY <1>1, <2>3, <2>4 DEF InCall
<1> QED
  BY <1>2, <1>3

\* The frame of a function joins the stack.
LEMMA Entered ==
  ASSUME ThreadInv, MayCall, NEW code \in Code, ~Active(code)
  PROVE  LET gs == <<NewFrame(code)>> \o [frames EXCEPT ![1] = Calling]
         IN  gs \in Seq(Frame) /\ gs # <<>> /\ Head(gs) = NewFrame(code) /\ Stack(gs)
<1> DEFINE fs == [frames EXCEPT ![1] = Calling]
           f  == NewFrame(code)
<1>1. frames # <<>> /\ Follows(Head(frames), Calling) /\ InCall(Calling)
  BY CallingInCall DEF Top
<1>2. fs \in Seq(Frame) /\ fs # <<>> /\ Len(fs) = Len(frames) /\ Head(fs) = Calling /\ Stack(fs)
  BY <1>1, TopFacts, StackSet
<1>3. \A i \in DOMAIN fs : i \in DOMAIN frames /\ fs[i].code = frames[i].code
  BY <1>1, TopFacts DEF Follows, Top
<1> HIDE DEF fs
<1>4. f \in Frame /\ f.code = code /\ Calm(f)
  BY FrameNew
<1>5. f.code # TopLevel
  BY <1>4, InterpAssumption
<1> HIDE DEF f
<1>6. \A i \in DOMAIN fs : fs[i].code # f.code
  BY <1>3, <1>4 DEF Active
<1> QED
  BY <1>1, <1>2, <1>4, <1>5, <1>6, StackPush DEF fs, f

\* The frame of a function leaves it.
LEMMA Resumed ==
  ASSUME ThreadInv, Len(frames) > 1
  PROVE  LET gs == Resume(Tail(frames))
         IN  gs \in Seq(Frame) /\ gs # <<>> /\ Stack(gs)
<1> DEFINE fs == Tail(frames)
<1>1. frames \in Seq(Frame) /\ Stack(frames)
  BY DEF ThreadInv, ThreadTypeOK
<1>2. fs \in Seq(Frame) /\ fs # <<>> /\ InCall(Head(fs)) /\ Stack(fs)
  BY <1>1, StackPop
<1> HIDE DEF fs
<1>3. Head(fs) = fs[1] /\ Head(fs) \in Frame /\ Calm(Head(fs)) /\ Head(fs).doing # <<>>
  BY <1>2 DEF Stack, InCall
<1>4. Follows(Head(fs), Done(Head(fs)))
  BY <1>3, FrameDone
<1>5. [fs EXCEPT ![1] = Done(@)] = [fs EXCEPT ![1] = Done(Head(fs))]
  BY <1>3
<1> QED
  BY <1>2, <1>4, <1>5, StackSet DEF Resume, fs

\* A function on 1..n is a sequence of length n.
LEMMA IntSequence ==
  ASSUME NEW n \in Nat, NEW f \in [1..n -> Int]
  PROVE  f \in Seq(Int) /\ Len(f) = n
  OBVIOUS

\* The error of a function passes to its caller, and its position with it.
LEMMA Unwound ==
  ASSUME ThreadInv, signal # NoSignal, Top.doing = <<>>, Len(frames) > 1, signal.kind # "return",
         frames' = Tail(frames), signal' = [signal EXCEPT !.posns = Append(@, Top.posn)]
  PROVE  ThreadInv'
<1> DEFINE fs == Tail(frames)
           n  == Len(frames)
           p  == signal.posns
           all  == [i \in DOMAIN frames |-> frames[i].posn]
           rest == [i \in DOMAIN fs |-> fs[i].posn]
<1>1. frames \in Seq(Frame) /\ frames # <<>> /\ Stack(frames) /\ n \in Nat /\ n > 1
  BY DEF ThreadInv, ThreadTypeOK
<1>2. fs \in Seq(Frame) /\ fs # <<>> /\ Len(fs) = n - 1 /\ InCall(Head(fs)) /\ Stack(fs)
  BY <1>1, StackPop
<1>3. \A i \in 1..(n - 1) : fs[i] = frames[i + 1]
  BY <1>1
<1> HIDE DEF fs
<1>4. signal \in Signals /\ p \in Seq(Int) /\ Top.posn \in Int /\ Top = frames[1]
  BY <1>1, TopFacts DEF ThreadInv, ThreadTypeOK, Signals, Frame
<1>5. /\ signal' \in Signals /\ signal'.kind = signal.kind /\ signal'.frame = signal.frame
      /\ signal'.posns = Append(p, Top.posn) /\ signal'.calls = signal.calls
  <2>1. Append(p, Top.posn) \in Seq(Int)
    BY <1>4
  <2> QED
    BY <1>4, <2>1 DEF Signals
<1>6. /\ all \in Seq(Int) /\ rest \in Seq(Int) /\ Len(all) = Len(rest) + 1
      /\ all[1] = Top.posn /\ \A i \in 1..Len(rest) : all[i + 1] = rest[i]
  <2>1. DOMAIN frames = 1..n /\ DOMAIN fs = 1..(n - 1)
    BY <1>1, <1>2
  <2>2. \A f \in Frame : f.posn \in Int
    BY DEF Frame
  <2>3. \A i \in 1..n : frames[i].posn \in Int
    BY <1>1, <2>1, <2>2
  <2>4. \A i \in 1..(n - 1) : fs[i].posn \in Int
    BY <1>2, <2>1, <2>2
  <2>5. all \in [1..n -> Int] /\ rest \in [1..(n - 1) -> Int]
    BY <2>1, <2>3, <2>4
  <2>6. all \in Seq(Int) /\ rest \in Seq(Int) /\ Len(all) = n /\ Len(rest) = n - 1
    <3>1. n - 1 \in Nat
      BY <1>1
    <3> HIDE DEF all, rest, n
    <3> QED
      BY <1>1, <2>5, <3>1, IntSequence
  <2>7. all[1] = Top.posn
    BY <1>1, <1>4, <2>1
  <2>8. \A i \in 1..(n - 1) : all[i + 1] = rest[i]
    BY <1>1, <1>3, <2>1
  <2> HIDE DEF all, rest
  <2> QED
    BY <1>1, <2>6, <2>7, <2>8
<1> HIDE DEF all, rest
<1>7. p \in Seq(Int)
  BY <1>4
<1> HIDE DEF p
<1>8. p \o all = Append(p, Top.posn) \o rest
  <2>1. p \o all = Append(p, all[1]) \o rest
    BY <1>6, <1>7, Shifted
  <2> QED
    BY <1>6, <2>1
<1>9. BacktraceExact'
  <2>1. Backtrace(frames, signal) = p \o all /\ Backtrace(frames', signal') = Append(p, Top.posn) \o rest
    BY <1>5 DEF Backtrace, all, rest, fs, p
  <2> QED
    BY <1>5, <1>8, <2>1 DEF ThreadInv, BacktraceExact
<1>10. ASSUME signal.kind \in Sentinels
       PROVE  signal'.frame = Len(frames') + 1 /\ Doing({"made", "builtin"})'
  <2>1. ~Doing({"made", "builtin"})
    BY DEF Doing, Within, Top
  <2>2. signal.frame = n
    BY <1>10, <2>1 DEF ThreadInv, ControlContained
  <2>3. frames' = fs
    BY DEF fs
  <2>4. Doing({"made", "builtin"})'
    BY <1>2, <2>3 DEF Doing, Within, InCall
  <2> QED
    BY <1>1, <1>2, <1>5, <2>2, <2>3, <2>4
<1>11. ControlContained'
  BY <1>5, <1>10 DEF ControlContained
<1>12. SentinelInFunction'
  <2>1. Len(frames') \in Nat
    BY <1>2 DEF fs
  <2> QED
    BY <1>5, <1>10, <2>1 DEF SentinelInFunction
<1>13. frames' \in Seq(Frame) /\ frames' # <<>> /\ Stack(frames')
  BY <1>2 DEF fs
<1> QED
  BY <1>5, <1>9, <1>11, <1>12, <1>13 DEF ThreadInv, ThreadTypeOK, Stack

\* The answer of a load in the frames of a module that waits for it.
LEMMA Answered ==
  ASSUME NEW fs \in Seq(Frame), fs # <<>>, Stack(fs), Head(fs).doing # <<>>, NEW ok \in BOOLEAN, LoadAnswer(fs, ok)
  PROVE  ThreadInv'
<1> DEFINE after == [fs EXCEPT ![1] = Done(@)]
<1>1. Head(fs) = fs[1] /\ Head(fs) \in Frame /\ Calm(Head(fs))
  BY DEF Stack
<1>2. Head(fs).ops + 1 \in Int /\ Head(Head(fs).doing).pos \in Int
  <2>1. Head(fs).doing \in Seq(Construct) /\ Head(fs).ops \in Int
    BY <1>1 DEF Frame
  <2>2. Head(Head(fs).doing) \in Construct
    BY <2>1
  <2> QED
    BY <2>1, <2>2 DEF Construct
<1>3. CASE ok /\ frames' = after /\ signal' = NoSignal
  <2>1. Follows(Head(fs), Done(Head(fs)))
    BY <1>1, FrameDone
  <2>2. after = [fs EXCEPT ![1] = Done(Head(fs))]
    BY <1>1
  <2> QED
    BY <1>3, <2>1, <2>2, StackSet, Quiet
<1>4. CASE ok /\ Raise(after, Head(fs).ops + 1)
  BY <1>2, <1>4, RaiseDone
<1>5. CASE ~ok /\ Raise(after, Head(Head(fs).doing).pos)
  BY <1>2, <1>5, RaiseDone
<1> QED
  BY <1>3, <1>4, <1>5 DEF LoadAnswer

\* The statement has begun, at the top level.
LEMMA Begun ==
  ASSUME ThreadInv, MayLoad
  PROVE  /\ LoadBegun \in Seq(Frame) /\ Len(LoadBegun) = 1 /\ LoadBegun # <<>> /\ Stack(LoadBegun)
         /\ Head(LoadBegun).doing # <<>> /\ Within(LoadBegun, {"load"})
<1> DEFINE g == At(Push(Top, "load", 0), Here)
<1>1. frames # <<>> /\ Len(frames) = 1 /\ Top.doing = <<>> /\ Here \in Int
  BY TopFacts DEF MayLoad, Begin, MayDo, Running, Here, Frame
<1>2. Unmade(Top) /\ Follows(Top, Push(Top, "load", 0)) /\ Unmade(Push(Top, "load", 0))
      /\ Push(Top, "load", 0).doing # <<>> /\ Head(Push(Top, "load", 0).doing).k = "load"
  BY <1>1, TopFacts, CalmUnmade, FramePush
<1>3. Follows(Push(Top, "load", 0), g) /\ g.doing = Push(Top, "load", 0).doing
  BY <1>1, <1>2, FrameAt DEF Follows
<1>4. Follows(Head(frames), g)
  BY <1>2, <1>3 DEF Follows, Top
<1> HIDE DEF g
<1> DEFINE gs == [frames EXCEPT ![1] = g]
<1>5. gs \in Seq(Frame) /\ gs # <<>> /\ Len(gs) = 1 /\ Head(gs) = g /\ Stack(gs)
  BY <1>1, <1>4, TopFacts, StackSet
<1>6. LoadBegun = gs
  <2>1. LoadBegun = <<g>>
    BY DEF LoadBegun, g
  <2> QED
    BY <1>1, <2>1, TopFacts
<1> HIDE DEF gs
<1> QED
  BY <1>2, <1>3, <1>5, <1>6 DEF Within

(***************************************************************************)
(* The invariant of the threads is kept by every step.                     *)
(***************************************************************************)
LEMMA ThreadInit == ASSUME InterpInit PROVE ThreadInv
<1>1. frames = <<>> /\ signal = NoSignal /\ Len(frames) = 0 /\ DOMAIN frames = {} /\ 2..Len(frames) = {}
  BY DEF InterpInit
<1>2. Stack(frames)
  BY <1>1 DEF Stack, NoRecursion
<1>3. frames \in Seq(Frame)
  BY <1>1
<1> QED
  BY <1>1, <1>2, <1>3 DEF ThreadInv, ThreadTypeOK, SentinelInFunction, ControlContained, BacktraceExact

\* The steps of an item and of the statements of a frame.
LEMMA StatementStep ==
  ASSUME ThreadInv,
         \/ Item \/ EndItem \/ Fail \/ (\E n \in 0..MaxLoop : For(n)) \/ Iterate \/ EndBody \/ EndFor
         \/ Branch("break") \/ Branch("continue") \/ Return
  PROVE  ThreadInv'
<1>1. CASE Item
  BY <1>1, StackNew, Quiet DEF Item, ThreadInv
<1>2. CASE EndItem
  <2>1. frames' = <<>> /\ signal' = NoSignal
    BY <1>2 DEF EndItem
  <2>2. Stack(<<>>)
    <3>1. DOMAIN <<>> = {} /\ 2..Len(<<>>) = {}
      OBVIOUS
    <3> QED
      BY <3>1 DEF Stack, NoRecursion
  <2> QED
    BY <2>1, <2>2, Quiet
<1>3. CASE Fail
  <2>1. frames # <<>> /\ Raise(frames, Here) /\ (Top.doing = <<>> \/ Head(Top.doing).k \notin {"made", "builtin"})
    BY <1>3 DEF Fail, MayDo, Running, Doing, Within, Top
  <2>2. Here \in Int /\ Follows(Top, At(Top, Here)) /\ At(Top, Here).posn = Here
    <3>1. Here \in Int
      BY <2>1, TopFacts DEF Here, Frame
    <3> QED
      BY <2>1, <3>1, TopFacts, CalmUnmade, FrameAt
  <2> QED
    BY <2>1, <2>2, TopFacts, RaiseInv DEF Top
<1>4. ASSUME NEW n \in 0..MaxLoop, For(n) PROVE ThreadInv'
  <2>1. /\ frames # <<>> /\ signal' = NoSignal /\ Top.code # TopLevel /\ SetTop(Push(Top, "for", n))
        /\ Top.doing = <<>> \/ Head(Top.doing).k \notin {"made", "builtin"}
    BY <1>4 DEF For, Begin, MayDo, Running, Doing, Within, Top
  <2>2. Follows(Top, Push(Top, "for", n))
    BY <2>1, TopFacts, CalmUnmade, FramePush
  <2> QED
    BY <2>1, <2>2, SetTopQuiet
<1>5. CASE Iterate
  <2>1. /\ frames # <<>> /\ signal' = NoSignal /\ SetTop(Turn(Top, "body", 1))
        /\ Top.doing # <<>> /\ Head(Top.doing).k = "for"
    BY <1>5 DEF Iterate, Running, Doing, Within, Top
  <2>2. Follows(Top, Turn(Top, "body", 1))
    BY <2>1, TopFacts, FrameTurn
  <2> QED
    BY <2>1, <2>2, SetTopQuiet
<1>6. CASE EndBody
  <2>1. /\ frames # <<>> /\ signal' = NoSignal /\ SetTop(Turn(Top, "for", 0))
        /\ Top.doing # <<>> /\ Head(Top.doing).k = "body"
    BY <1>6 DEF EndBody, Running, Doing, Within, Top
  <2>2. Follows(Top, Turn(Top, "for", 0))
    BY <2>1, TopFacts, FrameTurn
  <2> QED
    BY <2>1, <2>2, SetTopQuiet
<1>7. CASE EndFor
  <2>1. frames # <<>> /\ signal' = NoSignal /\ SetTop(Done(Top)) /\ Top.doing # <<>>
    BY <1>7 DEF EndFor, Running, Doing, Within, Top
  <2> QED
    BY <2>1, TopFacts, FrameDone, SetTopQuiet
<1>8. ASSUME NEW kind \in {"break", "continue"}, Branch(kind) PROVE ThreadInv'
  <2>1. frames # <<>> /\ (InLoop \/ Top.code \in Stray) /\ signal' = Plain(kind) /\ frames' = frames
    BY <1>8 DEF Branch, Running
  <2>2. Top.code # TopLevel
    <3>1. CASE InLoop
      BY <2>1, <3>1, TopFacts DEF InLoop, Loopless
    <3>2. CASE Top.code \in Stray
      BY <3>2, InterpAssumption
    <3> QED
      BY <2>1, <3>1, <3>2
  <2>3. Len(frames) > 1
    <3>1. Len(frames) # 1 /\ Len(frames) \in Nat \ {0}
      BY <2>1, <2>2, TopFacts
    <3> QED
      BY <3>1, BeyondOne
  <2> QED
    BY <2>1, <2>3, TopFacts, PlainInv DEF Sentinels
<1>9. CASE Return
  <2>1. frames # <<>> /\ Top.code # TopLevel /\ signal' = Plain("return") /\ frames' = frames
    BY <1>9 DEF Return, Running
  <2>2. Len(frames) > 1
    <3>1. Len(frames) # 1 /\ Len(frames) \in Nat \ {0}
      BY <2>1, TopFacts
    <3> QED
      BY <3>1, BeyondOne
  <2> QED
    BY <2>1, <2>2, TopFacts, PlainInv DEF Sentinels
<1> QED
  BY <1>1, <1>2, <1>3, <1>4, <1>5, <1>6, <1>7, <1>8, <1>9

\* The steps of calls.
LEMMA CallStep ==
  ASSUME ThreadInv,
         \/ EvalArgs \/ (\E code \in Code : Recursive(code) \/ Enter(code) \/ BadArgs(code))
         \/ EnterBuiltin \/ EndBuiltin \/ BuiltinFails \/ Method \/ EndFunction
  PROVE  ThreadInv'
<1>1. CASE EvalArgs
  <2>1. /\ frames # <<>> /\ signal' = NoSignal /\ SetTop(Push(Top, "call", 0))
        /\ Top.doing = <<>> \/ Head(Top.doing).k \notin {"made", "builtin"}
    BY <1>1 DEF EvalArgs, Begin, MayDo, Running, Doing, Within, Top
  <2>2. Follows(Top, Push(Top, "call", 0))
    BY <2>1, TopFacts, CalmUnmade, FramePush
  <2> QED
    BY <2>1, <2>2, SetTopQuiet
<1>2. ASSUME NEW code \in Code, Recursive(code) PROVE ThreadInv'
  <2>1. frames # <<>> /\ Follows(Head(frames), Calling) /\ frames' = [frames EXCEPT ![1] = Calling]
        /\ signal' = Plain("error")
    BY <1>2, CallingInCall DEF Recursive, SetTop, Top
  <2>2. frames' \in Seq(Frame) /\ frames' # <<>> /\ Stack(frames') /\ Len(frames') = Len(frames)
    BY <2>1, TopFacts, StackSet
  <2> QED
    BY <2>1, <2>2, PlainInv DEF Sentinels
<1>3. ASSUME NEW code \in Code, Enter(code) PROVE ThreadInv'
  <2>1. MayCall /\ ~Active(code) /\ signal' = NoSignal /\ frames' = <<NewFrame(code)>> \o [frames EXCEPT ![1] = Calling]
    BY <1>3 DEF Enter, MayCall, Running
  <2> QED
    BY <2>1, Entered, Quiet
<1>4. ASSUME NEW code \in Code, BadArgs(code) PROVE ThreadInv'
  <2> DEFINE gs == <<NewFrame(code)>> \o [frames EXCEPT ![1] = Calling]
  <2>1. MayCall /\ ~Active(code) /\ Raise(gs, Header)
    BY <1>4 DEF BadArgs
  <2>2. gs \in Seq(Frame) /\ gs # <<>> /\ Head(gs) = NewFrame(code) /\ Stack(gs)
    BY <2>1, Entered
  <2>3. Header \in Int
    BY DEF Header
  <2> HIDE DEF gs
  <2>4. Follows(Head(gs), At(Head(gs), Header)) /\ At(Head(gs), Header).posn = Header
    BY <2>2, <2>3, FrameNew, FrameAt
  <2> QED
    BY <2>1, <2>2, <2>3, <2>4, RaiseInv
<1>5. CASE EnterBuiltin
  <2> DEFINE f == At(Turn(Top, "builtin", 0), HeadPos)
  <2>1. /\ frames # <<>> /\ signal' = NoSignal /\ SetTop(f)
        /\ Top.doing # <<>> /\ Head(Top.doing).k = "call" /\ HeadPos = Head(Top.doing).pos
    BY <1>5 DEF EnterBuiltin, Running, Doing, Within, Top, HeadPos
  <2>2. Follows(Top, f)
    BY <2>1, TopFacts, FrameTurn
  <2> HIDE DEF f
  <2> QED
    BY <2>1, <2>2, SetTopQuiet
<1>6. CASE EndBuiltin
  <2>1. frames # <<>> /\ signal' = NoSignal /\ SetTop(Done(Top)) /\ Top.doing # <<>>
    BY <1>6 DEF EndBuiltin, Running, Doing, Within, Top
  <2> QED
    BY <2>1, TopFacts, FrameDone, SetTopQuiet
<1>7. CASE BuiltinFails
  <2>1. frames # <<>> /\ signal' = Plain("error") /\ frames' = frames
    BY <1>7 DEF BuiltinFails, Running
  <2> QED
    BY <2>1, TopFacts, PlainInv DEF Sentinels
<1>8. CASE Method
  <2>1. frames # <<>> /\ signal = NoSignal /\ Top.doing # <<>>
    BY <1>8 DEF Method, Running, Doing, Within, Top
  <2>2. CASE SetTop(Done(Top)) /\ signal' = signal
    BY <2>1, <2>2, TopFacts, FrameDone, SetTopQuiet
  <2>3. CASE signal' = Plain("error") /\ frames' = frames
    BY <2>1, <2>3, TopFacts, PlainInv DEF Sentinels
  <2> QED
    BY <1>8, <2>2, <2>3 DEF Method
<1>9. CASE EndFunction
  <2>1. Len(frames) > 1 /\ signal' = NoSignal /\ frames' = Resume(Tail(frames))
    BY <1>9 DEF EndFunction, Running
  <2> QED
    BY <2>1, Resumed, Quiet
<1> QED
  BY <1>1, <1>2, <1>3, <1>4, <1>5, <1>6, <1>7, <1>8, <1>9

\* The steps of an error on its way up.
LEMMA UnwindStep ==
  ASSUME ThreadInv, UnwindFor \/ UnwindCall \/ UnwindFunction
  PROVE  ThreadInv'
<1>1. CASE UnwindFor
  <2>1. /\ frames # <<>> /\ signal # NoSignal /\ Doing({"body"})
        /\ Top.doing # <<>> /\ Head(Top.doing).k = "body"
    BY <1>1 DEF UnwindFor, Raised, Doing, Within, Top
  <2>2. PICK f \in {Turn(Top, "for", 0), Done(Top)} : SetTop(f)
    BY <1>1 DEF UnwindFor
  <2>3. Follows(Top, f) /\ f.posn = Top.posn
    BY <2>1, TopFacts, FrameTurn, FrameDone
  <2>4. CASE signal' = NoSignal
    BY <2>1, <2>2, <2>3, <2>4, SetTopQuiet
  <2>5. CASE signal' = signal
    BY <2>1, <2>2, <2>3, <2>5, Passed
  <2> QED
    BY <1>1, <2>4, <2>5 DEF UnwindFor
<1>2. CASE UnwindCall
  <2>1. frames # <<>> /\ signal # NoSignal /\ Top.doing # <<>>
    BY <1>2 DEF UnwindCall, Raised, Doing, Within, Top
  <2>2. CASE Wrapped
    <3>1. SetTop(Done(Top)) /\ signal' = signal /\ signal.kind = "eval"
      BY <1>2, <2>2 DEF UnwindCall, Wrapped
    <3> QED
      BY <2>1, <3>1, TopFacts, FrameDone, Passed
  <2>3. CASE ~Wrapped
    <3>1. Raise([frames EXCEPT ![1] = Done(@)], HeadPos)
      BY <1>2, <2>3 DEF UnwindCall
    <3>2. Head(frames).doing # <<>> /\ HeadPos \in Int
      BY <2>1, TopFacts DEF Top
    <3> QED
      BY <2>1, <3>1, <3>2, TopFacts, RaiseDone
  <2> QED
    BY <2>2, <2>3
<1>3. CASE UnwindFunction
  <2>1. signal # NoSignal /\ Top.doing = <<>> /\ Len(frames) > 1
    BY <1>3 DEF UnwindFunction, Raised
  <2>2. CASE signal.kind = "return"
    <3>1. frames' = Resume(Tail(frames)) /\ signal' = NoSignal
      BY <1>3, <2>2 DEF UnwindFunction
    <3> QED
      BY <2>1, <3>1, Resumed, Quiet
  <2>3. CASE signal.kind # "return"
    <3>1. frames' = Tail(frames) /\ signal' = [signal EXCEPT !.posns = Append(@, Top.posn)]
      BY <1>3, <2>3 DEF UnwindFunction
    <3> QED
      BY <2>1, <2>3, <3>1, Unwound
  <2> QED
    BY <2>2, <2>3
<1> QED
  BY <1>1, <1>2, <1>3

\* The steps of loads.
LEMMA LoadStep ==
  ASSUME ThreadInv, LoaderInv, (\E m \in Module : Load(m) \/ LoadCached(m)) \/ EndModule
  PROVE  ThreadInv'
<1>1. ASSUME NEW m \in Module, Load(m) PROVE ThreadInv'
  <2>1. frames' = <<NewFrame(TopLevel)>> /\ signal' = NoSignal
    BY <1>1 DEF Load, MayLoad, Begin, MayDo, Running
  <2> QED
    BY <2>1, StackNew, Quiet
<1>2. ASSUME NEW m \in Module, LoadCached(m) PROVE ThreadInv'
  <2>1. MayLoad /\ LoadAnswer(LoadBegun, cache[m] = "ok") /\ (cache[m] = "ok") \in BOOLEAN
    BY <1>2 DEF LoadCached
  <2> QED
    BY <2>1, Begun, Answered
<1>3. CASE EndModule
  <2> DEFINE l == Head(loaders)
  <2>1. loaders # <<>> /\ LoadAnswer(l.frames, signal = NoSignal) /\ (signal = NoSignal) \in BOOLEAN
    BY <1>3 DEF EndModule
  <2>2. l = loaders[1] /\ 1 \in DOMAIN loaders /\ l.frames \in Seq(Frame)
    <3>1. l = loaders[1] /\ 1 \in DOMAIN loaders
      BY <2>1 DEF LoaderInv, LoaderTypeOK
    <3> DEFINE R == [frames : Seq(Frame), module : Module \cup {Session}]
    <3>2. loaders \in Seq(R) /\ \A w \in R : w.frames \in Seq(Frame)
      BY DEF LoaderInv, LoaderTypeOK
    <3> HIDE DEF R
    <3> QED
      BY <3>1, <3>2
  <2>3. Waiting(l)
    BY <2>2 DEF LoaderInv
  <2> HIDE DEF l
  <2>4. l.frames # <<>> /\ Stack(l.frames) /\ Head(l.frames).doing # <<>>
    BY <2>2, <2>3 DEF Waiting, Within
  <2> QED
    BY <2>1, <2>2, <2>4, Answered
<1> QED
  BY <1>1, <1>2, <1>3

\* Nothing changes for the thread.
LEMMA ThreadStutter == ASSUME ThreadInv, UNCHANGED interpVars PROVE ThreadInv'
BY DEF interpVars, ThreadInv, ThreadTypeOK, Stack, SentinelInFunction, ControlContained, BacktraceExact, Backtrace,
       Doing, Within, Top

\* The invariant of the thread is kept.
LEMMA ThreadNext == ASSUME ThreadInv, LoaderInv, [InterpNext]_interpVars PROVE ThreadInv'
<1>1. CASE InterpNext
  BY <1>1, StatementStep, CallStep, UnwindStep, LoadStep DEF InterpNext, InterpStep
<1> QED
  BY <1>1, ThreadStutter

(***************************************************************************)
(* The invariant of the loader.                                            *)
(***************************************************************************)
LoadRecord == [frames : Seq(Frame), module : Module \cup {Session}]

\* What is in progress, as a sequence: the running module, then those that wait.
LEMMA Progress ==
  ASSUME NEW x \in Module \cup {Session}, NEW ls \in Seq(LoadRecord)
  PROVE  LET p == <<x>> \o [i \in DOMAIN ls |-> ls[i].module]
         IN  /\ Len(ls) \in Nat /\ DOMAIN p = 1..(Len(ls) + 1) /\ p[1] = x
             /\ \A i \in 1..Len(ls) : p[i + 1] = ls[i].module
<1> DEFINE ms == [i \in DOMAIN ls |-> ls[i].module]
           S  == Module \cup {Session}
           p  == <<x>> \o ms
<1>1. x \in S /\ \A r \in LoadRecord : r.module \in S
  BY DEF LoadRecord
<1> HIDE DEF S
<1>2. /\ ms \in Seq(S) /\ Len(ms) = Len(ls) /\ Len(ls) \in Nat
      /\ \A i \in 1..Len(ls) : ms[i] = ls[i].module
  <2>1. DOMAIN ls = 1..Len(ls) /\ Len(ls) \in Nat
    OBVIOUS
  <2>2. ms \in [1..Len(ls) -> S]
    BY <1>1, <2>1
  <2>3. \A i \in 1..Len(ls) : ms[i] = ls[i].module
    BY <2>1
  <2> HIDE DEF ms
  <2> QED
    BY <2>1, <2>2, <2>3
<1> HIDE DEF ms
<1>3. p \in Seq(S) /\ Len(p) = Len(ms) + 1 /\ p[1] = x /\ \A i \in 1..Len(ms) : p[i + 1] = ms[i]
  BY <1>1, <1>2, Pushed
<1> HIDE DEF p
<1> QED
  BY <1>2, <1>3 DEF p, ms

\* Nothing changes for the loader.
LEMMA LoaderKept == ASSUME LoaderInv, UNCHANGED <<module, loaders, cache, runs>> PROVE LoaderInv'
<1>1. InProgressNow' = InProgressNow
  BY DEF InProgressNow
<1>2. LoaderTypeOK' /\ LoadsExact'
  BY <1>1 DEF LoaderInv, LoaderTypeOK, LoadsExact
<1> QED
  BY <1>1, <1>2 DEF LoaderInv, Waiting

\* At the beginning the cache is empty, and only the session is in progress.
LEMMA LoaderInit == ASSUME InterpInit PROVE LoaderInv
<1>1. loaders = <<>> /\ module = Session /\ cache = [m \in Module |-> "absent"] /\ runs = [m \in Module |-> 0]
  BY DEF InterpInit
<1>2. LoaderTypeOK
  <2>1. loaders \in Seq(LoadRecord)
    BY <1>1
  <2> QED
    BY <1>1, <2>1 DEF LoaderTypeOK, LoadRecord
<1>3. Len(loaders) = 0 /\ DOMAIN loaders = {} /\ DOMAIN InProgressNow = {1} /\ InProgressNow[1] = Session
  <2>1. Len(loaders) = 0 /\ DOMAIN loaders = {}
    BY <1>1
  <2>2. DOMAIN InProgressNow = 1..(0 + 1) /\ InProgressNow[1] = Session
    BY <1>1, <1>2, <2>1, Progress DEF InProgressNow, LoaderTypeOK, LoadRecord
  <2> QED
    BY <2>1, <2>2
<1>4. \A i \in DOMAIN InProgressNow : InProgressNow[i] = Session <=> i = Len(loaders) + 1
  BY <1>3
<1>5. LoadsExact
  BY <1>1, <1>3, InterpAssumption DEF LoadsExact
<1> QED
  BY <1>2, <1>3, <1>4, <1>5 DEF LoaderInv

\* A placeholder is added, and the execution that loads begins to wait.
LEMMA LoaderLoad == ASSUME ThreadInv, LoaderInv, NEW m \in Module, Load(m) PROVE LoaderInv'
<1> DEFINE n == Len(loaders)
           w == [frames |-> LoadBegun, module |-> module]
<1>1. LoaderTypeOK /\ module \in Module \cup {Session} /\ loaders \in Seq(LoadRecord) /\ n \in Nat
  BY DEF LoaderInv, LoaderTypeOK, LoadRecord
<1>2. /\ loaders' = <<w>> \o loaders /\ module' = m /\ cache[m] \notin {"loading", "ok", "failed"}
      /\ cache' = [cache EXCEPT ![m] = "loading"] /\ runs' = [runs EXCEPT ![m] = @ + 1] /\ MayLoad
  BY DEF Load, InProgress
<1>3. Waiting(w) /\ w.module = module /\ w \in LoadRecord
  <2>1. LoadBegun \in Seq(Frame) /\ module \in Module \cup {Session}
    BY <1>1, <1>2, Begun DEF LoaderTypeOK
  <2> QED
    BY <1>2, <2>1, Begun DEF Waiting, LoadRecord
<1> HIDE DEF w
<1>4. /\ loaders' \in Seq(LoadRecord) /\ Len(loaders') = n + 1 /\ loaders'[1] = w
      /\ \A i \in 1..n : loaders'[i + 1] = loaders[i]
  BY <1>1, <1>2, <1>3, Pushed
<1>5. LoaderTypeOK'
  BY <1>1, <1>2, <1>4 DEF LoaderTypeOK, LoadRecord
<1>6. /\ DOMAIN InProgressNow = 1..(n + 1) /\ InProgressNow[1] = module
      /\ \A i \in 1..n : InProgressNow[i + 1] = loaders[i].module
  BY <1>1, Progress DEF InProgressNow
<1>7. /\ DOMAIN InProgressNow' = 1..(n + 2) /\ InProgressNow'[1] = m
      /\ \A i \in 1..(n + 1) : InProgressNow'[i + 1] = loaders'[i].module
  <2>1. /\ DOMAIN InProgressNow' = 1..(Len(loaders') + 1) /\ InProgressNow'[1] = module'
        /\ \A i \in 1..Len(loaders') : InProgressNow'[i + 1] = loaders'[i].module
    BY <1>2, <1>4, Progress DEF InProgressNow
  <2> QED
    BY <1>1, <1>2, <1>4, <2>1
<1>8. \A i \in 1..(n + 1) : InProgressNow'[i + 1] = InProgressNow[i]
  <2> SUFFICES ASSUME NEW i \in 1..(n + 1) PROVE loaders'[i].module = InProgressNow[i]
    BY <1>7
  <2>1. CASE i = 1
    BY <1>3, <1>4, <1>6, <2>1
  <2>2. CASE i # 1
    <3>1. i - 1 \in 1..n /\ i = (i - 1) + 1
      BY <1>1, <2>2
    <3>2. loaders'[i] = loaders[i - 1] /\ InProgressNow[i] = loaders[i - 1].module
      BY <1>4, <1>6, <3>1
    <3> QED
      BY <3>2
  <2> QED
    BY <2>1, <2>2
<1>9. \A j \in DOMAIN InProgressNow' : \/ j = 1 /\ InProgressNow'[j] = m
                                       \/ j - 1 \in DOMAIN InProgressNow /\ InProgressNow'[j] = InProgressNow[j - 1]
  <2> SUFFICES ASSUME NEW j \in 1..(n + 2), j # 1
               PROVE  j - 1 \in 1..(n + 1) /\ InProgressNow'[j] = InProgressNow[j - 1]
    BY <1>6, <1>7
  <2>1. j - 1 \in 1..(n + 1) /\ j = (j - 1) + 1
    BY <1>1
  <2> QED
    BY <1>8, <2>1
<1>10. \A i \in DOMAIN InProgressNow : InProgressNow[i] # m /\ i + 1 \in DOMAIN InProgressNow' /\ InProgressNow'[i + 1] = InProgressNow[i]
  <2>1. \A i \in DOMAIN InProgressNow : InProgressNow[i] # m
    BY <1>2 DEF LoaderInv, LoadsExact
  <2>2. \A i \in 1..(n + 1) : i + 1 \in 1..(n + 2)
    BY <1>1
  <2> QED
    BY <1>6, <1>7, <1>8, <2>1, <2>2
<1>11. \A i \in DOMAIN loaders' : Waiting(loaders'[i])
  <2> SUFFICES ASSUME NEW i \in 1..(n + 1) PROVE Waiting(loaders'[i])
    BY <1>4
  <2>1. CASE i = 1
    BY <1>3, <1>4, <2>1
  <2>2. CASE i # 1
    <3>1. i - 1 \in 1..n /\ i = (i - 1) + 1
      BY <1>1, <2>2
    <3>2. loaders'[i] = loaders[i - 1] /\ i - 1 \in DOMAIN loaders
      BY <1>1, <1>4, <3>1
    <3> QED
      BY <3>2 DEF LoaderInv
  <2> QED
    BY <2>1, <2>2
<1>12. \A j \in DOMAIN InProgressNow' : InProgressNow'[j] = Session <=> j = Len(loaders') + 1
  <2> SUFFICES ASSUME NEW j \in 1..(n + 2) PROVE InProgressNow'[j] = Session <=> j = n + 2
    BY <1>1, <1>4, <1>7
  <2>1. CASE j = 1
    BY <1>1, <1>7, <2>1, InterpAssumption
  <2>2. CASE j # 1
    <3>1. j - 1 \in DOMAIN InProgressNow /\ InProgressNow'[j] = InProgressNow[j - 1]
      BY <1>7, <1>9, <2>2
    <3>2. InProgressNow[j - 1] = Session <=> j - 1 = n + 1
      BY <3>1 DEF LoaderInv
    <3> QED
      BY <1>1, <3>1, <3>2
  <2> QED
    BY <2>1, <2>2
<1>13. \A i, j \in DOMAIN InProgressNow' : i # j => InProgressNow'[i] # InProgressNow'[j]
  <2> SUFFICES ASSUME NEW i \in DOMAIN InProgressNow', NEW j \in DOMAIN InProgressNow', i # j
               PROVE  InProgressNow'[i] # InProgressNow'[j]
    OBVIOUS
  <2>1. i \in Int /\ j \in Int
    BY <1>7
  <2>2. \A q \in DOMAIN InProgressNow' : q # 1 => InProgressNow'[q] # m
    BY <1>9, <1>10
  <2>3. CASE i # 1 /\ j # 1
    <3>1. /\ i - 1 \in DOMAIN InProgressNow /\ InProgressNow'[i] = InProgressNow[i - 1]
          /\ j - 1 \in DOMAIN InProgressNow /\ InProgressNow'[j] = InProgressNow[j - 1]
      BY <1>9, <2>3
    <3>2. i - 1 # j - 1
      BY <2>1
    <3> QED
      BY <3>1, <3>2 DEF LoaderInv, LoadsExact
  <2> QED
    BY <1>7, <2>2, <2>3
<1>14. ASSUME NEW x \in Module
       PROVE  /\ cache'[x] = "loading" <=> \E i \in DOMAIN InProgressNow' : InProgressNow'[i] = x
              /\ runs'[x] = IF cache'[x] = "absent" THEN 0 ELSE 1
  <2>1. CASE x = m
    <3>1. cache'[m] = "loading" /\ runs'[m] = runs[m] + 1 /\ cache[m] = "absent"
      BY <1>1, <1>2 DEF LoaderTypeOK
    <3>2. runs[m] = 0
      BY <3>1 DEF LoaderInv, LoadsExact
    <3>3. 1 \in DOMAIN InProgressNow'
      BY <1>1, <1>7
    <3> QED
      BY <1>7, <2>1, <3>1, <3>2, <3>3
  <2>2. CASE x # m
    <3>1. cache'[x] = cache[x] /\ runs'[x] = runs[x]
      BY <1>1, <1>2, <2>2 DEF LoaderTypeOK
    <3>2. (\E i \in DOMAIN InProgressNow' : InProgressNow'[i] = x) <=> (\E i \in DOMAIN InProgressNow : InProgressNow[i] = x)
      BY <1>9, <1>10, <2>2
    <3> QED
      BY <3>1, <3>2 DEF LoaderInv, LoadsExact
  <2> QED
    BY <2>1, <2>2
<1>15. \A i \in DOMAIN loaders' : Len(loaders'[i].frames) = 1 /\ loaders'[i].frames[1].code = TopLevel
  BY <1>11 DEF Waiting, Stack
<1>16. LoadsExact'
  BY <1>13, <1>14, <1>15 DEF LoadsExact
<1> QED
  BY <1>5, <1>11, <1>12, <1>16 DEF LoaderInv

\* The module that has ended is no longer in progress, and its entry says how it ended.
LEMMA LoaderEnd == ASSUME LoaderInv, EndModule PROVE LoaderInv'
<1> DEFINE n == Len(loaders)
<1>1. LoaderTypeOK /\ module \in Module \cup {Session} /\ loaders \in Seq(LoadRecord) /\ loaders # <<>> /\ n \in Nat \ {0}
  <2>1. LoaderTypeOK /\ module \in Module \cup {Session} /\ loaders \in Seq(LoadRecord) /\ loaders # <<>>
    BY DEF LoaderInv, LoaderTypeOK, LoadRecord, EndModule
  <2> QED
    BY <2>1
<1>2. PICK entry \in {"ok", "failed"} : cache' = [cache EXCEPT ![module] = entry]
  BY DEF EndModule
<1>3. /\ loaders' = Tail(loaders) /\ module' = Head(loaders).module /\ Head(loaders) = loaders[1] /\ runs' = runs
  BY <1>1 DEF EndModule
<1>4. /\ loaders' \in Seq(LoadRecord) /\ Len(loaders') = n - 1 /\ \A i \in 1..(n - 1) : loaders'[i] = loaders[i + 1]
  BY <1>1, <1>3, Popped
<1>5. module' \in Module \cup {Session} /\ module' = loaders[1].module
  <2>1. loaders[1] \in LoadRecord
    BY <1>1
  <2> QED
    BY <1>3, <2>1 DEF LoadRecord
<1>6. /\ DOMAIN InProgressNow = 1..(n + 1) /\ InProgressNow[1] = module
      /\ \A i \in 1..n : InProgressNow[i + 1] = loaders[i].module
  BY <1>1, Progress DEF InProgressNow
<1>7. /\ DOMAIN InProgressNow' = 1..n /\ InProgressNow'[1] = loaders[1].module
      /\ \A i \in 1..(n - 1) : InProgressNow'[i + 1] = loaders'[i].module
  <2>1. /\ DOMAIN InProgressNow' = 1..(Len(loaders') + 1) /\ InProgressNow'[1] = module'
        /\ \A i \in 1..Len(loaders') : InProgressNow'[i + 1] = loaders'[i].module
    BY <1>4, <1>5, Progress DEF InProgressNow
  <2> QED
    BY <1>1, <1>4, <1>5, <2>1
<1>8. \A i \in 1..n : InProgressNow'[i] = InProgressNow[i + 1]
  <2> SUFFICES ASSUME NEW i \in 1..n PROVE InProgressNow'[i] = loaders[i].module
    BY <1>6
  <2>1. CASE i = 1
    BY <1>7, <2>1
  <2>2. CASE i # 1
    <3>1. i - 1 \in 1..(n - 1) /\ i = (i - 1) + 1
      BY <1>1, <2>2
    <3> QED
      BY <1>4, <1>7, <3>1
  <2> QED
    BY <2>1, <2>2
<1>9. \A i \in DOMAIN InProgressNow' : i + 1 \in DOMAIN InProgressNow /\ i + 1 # 1 /\ InProgressNow'[i] = InProgressNow[i + 1]
  <2>1. \A i \in 1..n : i + 1 \in 1..(n + 1) /\ i + 1 # 1
    BY <1>1
  <2> QED
    BY <1>6, <1>7, <1>8, <2>1
<1>10. \A i \in DOMAIN InProgressNow : i # 1 => i - 1 \in DOMAIN InProgressNow' /\ InProgressNow'[i - 1] = InProgressNow[i]
  <2> SUFFICES ASSUME NEW i \in 1..(n + 1), i # 1 PROVE i - 1 \in 1..n /\ InProgressNow'[i - 1] = InProgressNow[i]
    BY <1>6, <1>7
  <2>1. i - 1 \in 1..n /\ (i - 1) + 1 = i
    BY <1>1
  <2> QED
    BY <1>8, <2>1
<1>11. module \in Module
  <2>1. 1 \in DOMAIN InProgressNow /\ 1 # n + 1
    BY <1>1, <1>6
  <2>2. module # Session
    BY <1>6, <2>1 DEF LoaderInv
  <2> QED
    BY <1>1, <2>2
<1>12. LoaderTypeOK'
  BY <1>1, <1>2, <1>3, <1>4, <1>5 DEF LoaderTypeOK, LoadRecord
<1>13. \A i \in DOMAIN loaders' : Waiting(loaders'[i])
  <2>1. \A i \in 1..(n - 1) : i + 1 \in 1..n
    BY <1>1
  <2>2. DOMAIN loaders' = 1..(n - 1) /\ DOMAIN loaders = 1..n
    BY <1>1, <1>4
  <2> QED
    BY <1>4, <2>1, <2>2 DEF LoaderInv
<1>14. \A i \in DOMAIN InProgressNow' : InProgressNow'[i] = Session <=> i = Len(loaders') + 1
  <2> SUFFICES ASSUME NEW i \in 1..n PROVE InProgressNow'[i] = Session <=> i = n
    BY <1>1, <1>4, <1>7
  <2>1. InProgressNow[i + 1] = Session <=> i + 1 = n + 1
    BY <1>7, <1>9 DEF LoaderInv
  <2> QED
    BY <1>1, <1>8, <2>1
<1>15. \A i, j \in DOMAIN InProgressNow' : i # j => InProgressNow'[i] # InProgressNow'[j]
  <2> SUFFICES ASSUME NEW i \in DOMAIN InProgressNow', NEW j \in DOMAIN InProgressNow', i # j
               PROVE  InProgressNow'[i] # InProgressNow'[j]
    OBVIOUS
  <2>1. i \in Int /\ j \in Int
    BY <1>7
  <2>2. i + 1 # j + 1
    BY <2>1
  <2> QED
    BY <1>9, <2>2 DEF LoaderInv, LoadsExact
<1>16. ASSUME NEW x \in Module
       PROVE  /\ cache'[x] = "loading" <=> \E i \in DOMAIN InProgressNow' : InProgressNow'[i] = x
              /\ runs'[x] = IF cache'[x] = "absent" THEN 0 ELSE 1
  <2>1. 1 \in DOMAIN InProgressNow
    BY <1>1, <1>6
  <2>2. \A i \in DOMAIN InProgressNow : i # 1 => InProgressNow[i] # module
    BY <1>6, <2>1 DEF LoaderInv, LoadsExact
  <2>3. CASE x = module
    <3>1. cache[module] = "loading"
      BY <1>6, <1>11, <2>1 DEF LoaderInv, LoadsExact
    <3>2. cache'[module] = entry
      BY <1>1, <1>2, <1>11 DEF LoaderTypeOK
    <3>3. \A i \in DOMAIN InProgressNow' : InProgressNow'[i] # module
      BY <1>9, <2>2
    <3>4. runs[module] = 1
      BY <1>11, <3>1 DEF LoaderInv, LoadsExact
    <3> QED
      BY <1>3, <2>3, <3>2, <3>3, <3>4
  <2>4. CASE x # module
    <3>1. cache'[x] = cache[x] /\ runs'[x] = runs[x]
      BY <1>1, <1>2, <1>3, <2>4 DEF LoaderTypeOK
    <3>2. (\E i \in DOMAIN InProgressNow' : InProgressNow'[i] = x) <=> (\E i \in DOMAIN InProgressNow : InProgressNow[i] = x)
      BY <1>6, <1>9, <1>10, <2>4
    <3> QED
      BY <3>1, <3>2 DEF LoaderInv, LoadsExact
  <2> QED
    BY <2>3, <2>4
<1>17. \A i \in DOMAIN loaders' : Len(loaders'[i].frames) = 1 /\ loaders'[i].frames[1].code = TopLevel
  BY <1>13 DEF Waiting, Stack
<1>18. LoadsExact'
  BY <1>15, <1>16, <1>17 DEF LoadsExact
<1> QED
  BY <1>12, <1>13, <1>14, <1>18 DEF LoaderInv

\* The invariant of the loader is kept.
LEMMA LoaderNext == ASSUME ThreadInv, LoaderInv, [InterpNext]_interpVars PROVE LoaderInv'
<1>1. ASSUME NEW m \in Module, Load(m) PROVE LoaderInv'
  BY <1>1, LoaderLoad
<1>2. CASE EndModule
  BY <1>2, LoaderEnd
<1>3. CASE UNCHANGED <<module, loaders, cache, runs>>
  BY <1>3, LoaderKept
<1>4. CASE InterpNext
  <2>1. \/ \E m \in Module : Load(m)
        \/ EndModule
        \/ UNCHANGED <<module, loaders, cache, runs>>
    BY <1>4 DEF InterpNext, InterpStep, Item, EndItem, Fail, For, Iterate, EndBody, EndFor, Branch, Return, EvalArgs,
         Recursive, Enter, BadArgs, EnterBuiltin, EndBuiltin, BuiltinFails, Method, EndFunction,
         UnwindFor, UnwindCall, UnwindFunction, LoadCached
  <2> QED
    BY <1>1, <1>2, <1>3, <2>1
<1> QED
  BY <1>3, <1>4 DEF interpVars

(***************************************************************************)
(* The inductive invariant, and what follows from it.                      *)
(***************************************************************************)

\* Every reachable state has frames that wait in calls at their positions, no
\* function twice in a thread, and a cache that agrees with what is in progress.
THEOREM InterpInvariant == InterpSpec => []InterpInv
<1>1. InterpInit => InterpInv
  BY ThreadInit, LoaderInit DEF InterpInv
<1>2. InterpInv /\ [InterpNext]_interpVars => InterpInv'
  BY ThreadNext, LoaderNext DEF InterpInv
<1> QED
  BY <1>1, <1>2, PTL DEF InterpSpec

\* A break, continue or return does not outlive its function, stray statements included.
THEOREM ControlStaysContained == InterpSpec => []ControlContained
<1>1. InterpInv => ControlContained
  BY DEF InterpInv, ThreadInv
<1> QED
  BY <1>1, InterpInvariant, PTL

\* A backtrace shows where every frame was when the error was raised.
THEOREM BacktraceIsExact == InterpSpec => []BacktraceExact
<1>1. InterpInv => BacktraceExact
  BY DEF InterpInv, ThreadInv
<1> QED
  BY <1>1, InterpInvariant, PTL

\* The loader executes a module once, and its placeholders are what is in progress.
THEOREM LoadsAreExact == InterpSpec => []LoadsExact
<1>1. InterpInv => LoadsExact
  BY DEF InterpInv, LoaderInv
<1> QED
  BY <1>1, InterpInvariant, PTL

\* No function is active twice, in the running thread or in all that wait for it:
\* those that wait are at their top levels.
THEOREM NoRecursionAnywhere ==
  InterpSpec => [](NoRecursion(frames) /\ \A i \in DOMAIN loaders : \A j \in DOMAIN loaders[i].frames :
                     loaders[i].frames[j].code = TopLevel)
<1>1. InterpInv => (NoRecursion(frames) /\ \A i \in DOMAIN loaders : \A j \in DOMAIN loaders[i].frames :
                      loaders[i].frames[j].code = TopLevel)
  <2> SUFFICES ASSUME InterpInv, NEW i \in DOMAIN loaders, NEW j \in DOMAIN loaders[i].frames
               PROVE  loaders[i].frames[j].code = TopLevel
    BY DEF InterpInv, ThreadInv, Stack
  <2>1. Len(loaders[i].frames) = 1 /\ Stack(loaders[i].frames)
    BY DEF InterpInv, LoaderInv, Waiting
  <2> DEFINE R == [frames : Seq(Frame), module : Module \cup {Session}]
  <2>2. loaders \in Seq(R) /\ \A r \in R : r.frames \in Seq(Frame)
    BY DEF InterpInv, LoaderInv, LoaderTypeOK
  <2> HIDE DEF R
  <2>3. loaders[i].frames \in Seq(Frame)
    BY <2>2
  <2>4. j = 1
    BY <2>1, <2>3
  <2> QED
    BY <2>1, <2>4 DEF Stack
<1> QED
  BY <1>1, InterpInvariant, PTL
=============================================================================
