--------------------------- MODULE DualFoldProofs ---------------------------
(***************************************************************************)
(* Proofs about DualFold for any requests, reports and scenarios.          *)
(*                                                                         *)
(* Trades says what a step does to the calls of a thread as a set, which   *)
(* is all that most invariants ask.  The count of a change also needs how  *)
(* often each call counts: Owed, summed over the lists of calls as the     *)
(* size of a set of pairs.  Exchange says both of a step.                  *)
(*                                                                         *)
(* The last part proves that panels and display nodes follow the mode.     *)
(***************************************************************************)
EXTENDS DualFold, FiniteSetTheorems, TLAPS

(* The calls that the threads and the queue may hold.                      *)

\* The labels of a call, and the threads that it runs on
PcsOf(fn) ==
  CASE fn = "change"  -> {"cache", "running", "check", "post", "postMain", "postSub", "nodes",
                        "current"}
    [] fn = "trigger" -> {"post", "nodes", "current"}
    [] fn = "done"    -> {"count", "test", "compare"}
    [] fn = "offOn"   -> {"off", "on"}
    [] fn = "onMain"  -> {"on"}
    [] fn = "onSub"   -> {"on"}
    [] fn = "panel"   -> {"set"}
    [] fn = "suspend" -> {"exit", "exitMode", "panel", "wait", "recover"}
    [] fn = "resume"  -> {"panel", "wait"}
    [] fn = "cast"    -> {"exit", "exitMode"}
    [] fn = "sense"   -> {"unlock"}
    [] fn = "report"  -> {"sense", "leave"}
    [] fn = "tentOn"  -> {"sense", "change", "wake"}
    [] fn = "tentOff" -> {"sense", "change"}
    [] fn = "boot"    -> {"recover"}
    [] OTHER -> {}
CallsOf(t) ==
  {"change", "done"} \cup
  CASE t = "sensor" -> {"sense", "report"}
    [] t = "tent"   -> {"sense", "tentOn", "tentOff"}
    [] t = "ipc"    -> {"cast"}
    [] t = "power"  -> {"suspend", "resume"}
    [] t = "boot"   -> {"boot", "trigger"}
    [] t = "runner" -> {"sense", "report", "offOn", "onMain", "onSub"}
    [] OTHER -> {}

\* The modes of the calls that show a mode, and the state of a power call
ModeFits(f) ==
  /\ f.fn = "offOn" => f.mode \in {"MAIN", "SUB"}
  /\ f.fn \in {"onMain", "onSub"} => f.mode = "COORDINATION"
  /\ f.fn = "trigger" => f.mode # "COORDINATION"
  /\ f.pc \in {"postMain", "postSub"} => f.mode = "COORDINATION"
  /\ f.fn \in {"suspend", "resume"} => f.flag = (f.fn = "resume")

FrameOK(f) == f \in FrameType /\ f.pc \in PcsOf(f.fn) /\ ModeFits(f)
FramesOf(t) == {f \in FrameType : f.fn \in CallsOf(t) /\ FrameOK(f)}
Tasks == {f \in FrameType : /\ f.fn \in {"offOn", "onMain", "onSub", "panel"}
                            /\ f.fn = "offOn" => f.pc = "off"
                            /\ FrameOK(f)}

StackOK ==
  /\ stack \in [Threads -> Seq(FrameType)]
  /\ \A t \in Threads : stack[t] \in Seq(FramesOf(t))
QueueOK == queue \in Seq(Tasks)

-----------------------------------------------------------------------------
(* What a step does to the stack of a thread.                              *)

Rest(t) == IF stack[t] = <<>> THEN <<>> ELSE Tail(stack[t])
RestFrames(t) == {Rest(t)[i] : i \in DOMAIN Rest(t)}

\* The calls fs take the place of the innermost one, if there is one.
Moves(t, fs) == stack' = [stack EXCEPT ![t] = fs \o Rest(t)]

\* The same as sets.
Trades(t, A) ==
  /\ \A u \in Threads \ {t} : stack'[u] = stack[u] /\ Frames(u)' = Frames(u)
  /\ Frames(t)' = A \cup RestFrames(t)

LEMMA TopFacts ==
  ASSUME StackOK, NEW t \in Threads, stack[t] # <<>>
  PROVE  /\ Top(t) \in FramesOf(t) /\ Top(t) \in Frames(t)
         /\ Top(t) = stack[t][1] /\ 1 \in DOMAIN stack[t]
         /\ Frames(t) = {Top(t)} \cup RestFrames(t)
<1>1. stack[t] \in Seq(FramesOf(t)) /\ Len(stack[t]) \in Nat \ {0}
  BY DEF StackOK
<1>2. Rest(t) = Tail(stack[t]) /\ Rest(t) \in Seq(FramesOf(t)) /\ Len(Rest(t)) = Len(stack[t]) - 1
      /\ \A i \in 1..(Len(stack[t]) - 1) : Rest(t)[i] = stack[t][i + 1]
  BY <1>1 DEF Rest
<1>3. Top(t) = stack[t][1] /\ 1 \in DOMAIN stack[t]
  BY <1>1 DEF Top
<1>4. ASSUME NEW i \in DOMAIN stack[t], i # 1
      PROVE  stack[t][i] \in RestFrames(t)
  <2>1. i - 1 \in DOMAIN Rest(t) /\ Rest(t)[i - 1] = stack[t][i]
    BY <1>1, <1>2, <1>4
  <2> QED
    BY <2>1 DEF RestFrames
<1>5. ASSUME NEW i \in DOMAIN Rest(t)
      PROVE  i + 1 \in DOMAIN stack[t] /\ Rest(t)[i] = stack[t][i + 1]
  BY <1>1, <1>2
<1> QED
  BY <1>1, <1>3, <1>4, <1>5 DEF Frames, RestFrames

LEMMA RestFacts ==
  ASSUME StackOK, NEW t \in Threads
  PROVE  /\ Rest(t) \in Seq(FramesOf(t)) /\ RestFrames(t) \subseteq Frames(t)
         /\ stack[t] = <<>> => RestFrames(t) = {} /\ Frames(t) = {}
         /\ Len(Rest(t)) = IF stack[t] = <<>> THEN 0 ELSE Len(stack[t]) - 1
         /\ \A i \in 1..Len(Rest(t)) : Rest(t)[i] = stack[t][i + 1]
<1>1. stack[t] \in Seq(FramesOf(t)) /\ Len(stack[t]) \in Nat
  BY DEF StackOK
<1>2. CASE stack[t] = <<>>
  BY <1>2 DEF Rest, RestFrames, Frames
<1>3. CASE stack[t] # <<>>
  BY <1>1, <1>3, TopFacts DEF Rest
<1> QED
  BY <1>2, <1>3

LEMMA MovesFacts ==
  ASSUME StackOK, NEW t \in Threads, NEW fs \in Seq(FramesOf(t)), Moves(t, fs)
  PROVE  /\ StackOK'
         /\ stack'[t] = fs \o Rest(t)
         /\ Trades(t, {fs[i] : i \in DOMAIN fs})
<1>1. Rest(t) \in Seq(FramesOf(t)) /\ Len(Rest(t)) \in Nat /\ Len(fs) \in Nat
  BY RestFacts
<1>2. /\ stack'[t] = fs \o Rest(t)
      /\ \A u \in Threads \ {t} : stack'[u] = stack[u]
      /\ fs \o Rest(t) \in Seq(FramesOf(t))
  BY <1>1 DEF Moves, StackOK
<1>3. \A u \in Threads : FramesOf(u) \subseteq FrameType
  BY DEF FramesOf
<1>4. StackOK'
  <2>1. fs \o Rest(t) \in Seq(FrameType)
    BY <1>2, <1>3
  <2>2. stack' \in [Threads -> Seq(FrameType)]
    BY <2>1 DEF Moves, StackOK
  <2>3. \A u \in Threads : stack'[u] \in Seq(FramesOf(u))
    BY <1>2 DEF StackOK
  <2> QED
    BY <2>2, <2>3 DEF StackOK, FramesOf, FrameOK, ModeFits, PcsOf, CallsOf, FrameType
<1>5. \A u \in Threads \ {t} : Frames(u)' = Frames(u)
  BY <1>2 DEF Frames
<1>6. Frames(t)' = {fs[i] : i \in DOMAIN fs} \cup RestFrames(t)
  <2> DEFINE n == Len(fs)
             both == fs \o Rest(t)
  <2>1. DOMAIN both = 1..(n + Len(Rest(t))) /\ DOMAIN fs = 1..n /\ DOMAIN Rest(t) = 1..Len(Rest(t))
    BY <1>1
  <2>2. \A i \in 1..n : both[i] = fs[i]
    BY <1>1
  <2>3. \A i \in 1..Len(Rest(t)) : both[i + n] = Rest(t)[i]
    BY <1>1
  <2>4. ASSUME NEW i \in DOMAIN both
        PROVE  both[i] \in {fs[j] : j \in DOMAIN fs} \cup RestFrames(t)
    <3>1. CASE i \in 1..n
      BY <2>1, <2>2, <3>1
    <3>2. CASE i \notin 1..n
      <4>1. i - n \in 1..Len(Rest(t)) /\ i = (i - n) + n
        BY <1>1, <2>1, <3>2
      <4>2. both[i] = Rest(t)[i - n]
        BY <2>3, <4>1
      <4> QED
        BY <2>1, <4>1, <4>2 DEF RestFrames
    <3> QED
      BY <3>1, <3>2
  <2>5. ASSUME NEW i \in DOMAIN fs
        PROVE  fs[i] \in {both[j] : j \in DOMAIN both}
    BY <1>1, <2>1, <2>2, <2>5
  <2>6. ASSUME NEW i \in DOMAIN Rest(t)
        PROVE  Rest(t)[i] \in {both[j] : j \in DOMAIN both}
    <3>1. i + n \in DOMAIN both /\ both[i + n] = Rest(t)[i]
      BY <1>1, <2>1, <2>3, <2>6
    <3> QED
      BY <3>1
  <2>7. Frames(t)' = {both[j] : j \in DOMAIN both}
    BY <1>2 DEF Frames
  <2> HIDE DEF both, n
  <2> QED
    BY <2>4, <2>5, <2>6, <2>7 DEF RestFrames
<1> QED
  BY <1>2, <1>4, <1>5, <1>6 DEF Trades

LEMMA Moves0 ==
  ASSUME StackOK, NEW t \in Threads, Moves(t, <<>>)
  PROVE  StackOK' /\ Trades(t, {}) /\ stack'[t] = Rest(t)
<1>1. Rest(t) \in Seq(FramesOf(t)) /\ <<>> \in Seq(FramesOf(t))
  BY RestFacts
<1>2. StackOK' /\ stack'[t] = <<>> \o Rest(t) /\ Trades(t, {<<>>[i] : i \in DOMAIN <<>>})
  BY <1>1, MovesFacts
<1>3. {<<>>[i] : i \in DOMAIN <<>>} = {} /\ <<>> \o Rest(t) = Rest(t)
  BY <1>1
<1> QED
  BY <1>2, <1>3

LEMMA Moves1 ==
  ASSUME StackOK, NEW t \in Threads, NEW a \in FramesOf(t), Moves(t, <<a>>)
  PROVE  /\ StackOK' /\ Trades(t, {a})
         /\ stack'[t] # <<>> /\ Top(t)' = a /\ Rest(t)' = Rest(t)
         /\ Len(stack'[t]) = Len(Rest(t)) + 1
<1>1. Rest(t) \in Seq(FramesOf(t)) /\ <<a>> \in Seq(FramesOf(t))
  BY RestFacts
<1>2. StackOK' /\ stack'[t] = <<a>> \o Rest(t) /\ Trades(t, {<<a>>[i] : i \in DOMAIN <<a>>})
  BY <1>1, MovesFacts
<1>3. {<<a>>[i] : i \in DOMAIN <<a>>} = {a}
  OBVIOUS
<1>4. stack'[t] # <<>> /\ stack'[t][1] = a /\ Head(stack'[t]) = a /\ Tail(stack'[t]) = Rest(t)
      /\ Len(stack'[t]) = Len(Rest(t)) + 1
  BY <1>1, <1>2
<1> QED
  BY <1>2, <1>3, <1>4 DEF Top, Rest

LEMMA Moves2 ==
  ASSUME StackOK, NEW t \in Threads, NEW a \in FramesOf(t), NEW b \in FramesOf(t),
         Moves(t, <<a, b>>)
  PROVE  /\ StackOK' /\ Trades(t, {a, b})
         /\ stack'[t] # <<>> /\ Top(t)' = a
         /\ Len(stack'[t]) = Len(Rest(t)) + 2
<1>1. Rest(t) \in Seq(FramesOf(t)) /\ <<a, b>> \in Seq(FramesOf(t))
  BY RestFacts
<1>2. /\ StackOK' /\ stack'[t] = <<a, b>> \o Rest(t)
      /\ Trades(t, {<<a, b>>[i] : i \in DOMAIN <<a, b>>})
  BY <1>1, MovesFacts
<1>3. {<<a, b>>[i] : i \in DOMAIN <<a, b>>} = {a, b}
  OBVIOUS
<1>4. stack'[t] # <<>> /\ Head(stack'[t]) = a /\ Len(stack'[t]) = Len(Rest(t)) + 2
  BY <1>1, <1>2
<1> QED
  BY <1>2, <1>3, <1>4 DEF Top

LEMMA Moves3 ==
  ASSUME StackOK, NEW t \in Threads, NEW a \in FramesOf(t), NEW b \in FramesOf(t),
         NEW c \in FramesOf(t), Moves(t, <<a, b, c>>)
  PROVE  /\ StackOK' /\ Trades(t, {a, b, c})
         /\ stack'[t] # <<>> /\ Top(t)' = a
         /\ Len(stack'[t]) = Len(Rest(t)) + 3
<1>1. Rest(t) \in Seq(FramesOf(t)) /\ <<a, b, c>> \in Seq(FramesOf(t))
  BY RestFacts
<1>2. /\ StackOK' /\ stack'[t] = <<a, b, c>> \o Rest(t)
      /\ Trades(t, {<<a, b, c>>[i] : i \in DOMAIN <<a, b, c>>})
  BY <1>1, MovesFacts
<1>3. {<<a, b, c>>[i] : i \in DOMAIN <<a, b, c>>} = {a, b, c}
  OBVIOUS
<1>4. stack'[t] # <<>> /\ Head(stack'[t]) = a /\ Len(stack'[t]) = Len(Rest(t)) + 3
  BY <1>1, <1>2
<1> QED
  BY <1>2, <1>3, <1>4 DEF Top

LEMMA GotoMoves ==
  ASSUME StackOK, NEW t \in Threads, NEW pc, stack[t] # <<>>, Goto(t, pc)
  PROVE  Moves(t, <<[Top(t) EXCEPT !.pc = pc]>>)
<1>1. stack[t] \in Seq(FramesOf(t)) /\ Top(t) = stack[t][1] /\ 1 \in DOMAIN stack[t]
  BY TopFacts DEF StackOK
<1> DEFINE s == stack[t]
           f == [s[1] EXCEPT !.pc = pc]
<1>2. stack' = [stack EXCEPT ![t] = [s EXCEPT ![1] = f]]
  BY DEF Goto
<1>3. Rest(t) = Tail(s)
  BY DEF Rest
<1>4. [s EXCEPT ![1] = f] = <<f>> \o Tail(s)
  <2> HIDE DEF f
  <2> QED
    BY <1>1
<1> QED
  BY <1>1, <1>2, <1>3, <1>4 DEF Moves

LEMMA ReturnMoves ==
  ASSUME StackOK, NEW t \in Threads, stack[t] # <<>>, Return(t)
  PROVE  Moves(t, <<>>)
<1>1. Rest(t) = Tail(stack[t]) /\ Rest(t) \in Seq(FramesOf(t))
  BY RestFacts DEF Rest
<1>2. <<>> \o Rest(t) = Rest(t)
  BY <1>1
<1> QED
  BY <1>1, <1>2 DEF Moves, Return

LEMMA ReturnByMoves ==
  ASSUME NEW t \in Threads, NEW fs, stack[t] # <<>>, ReturnBy(t, fs)
  PROVE  Moves(t, fs)
  BY DEF Moves, ReturnBy, Rest

LEMMA CallMoves ==
  ASSUME StackOK, NEW t \in Threads, NEW fs \in Seq(FramesOf(t)), NEW pc, stack[t] # <<>>,
         Call(t, fs, pc)
  PROVE  Moves(t, fs \o <<[Top(t) EXCEPT !.pc = pc]>>)
  BY DEF Moves, Call, Rest

LEMMA SameSeq ==
  ASSUME NEW S, NEW r \in Seq(S), NEW s \in Seq(S), Len(r) = Len(s),
         \A i \in 1..Len(r) : r[i] = s[i]
  PROVE  r = s
  OBVIOUS

LEMMA Joined ==
  ASSUME NEW a, NEW b, NEW x
  PROVE  /\ <<>> \o <<x>> = <<x>>
         /\ <<a>> \o <<x>> = <<a, x>>
         /\ <<a, b>> \o <<x>> = <<a, b, x>>
<1> DEFINE S == {a, b, x}
<1>0. a \in S /\ b \in S /\ x \in S
  OBVIOUS
<1> HIDE DEF S
<1>1. <<>> \o <<x>> = <<x>>
  <2>1. <<x>> \in Seq(S)
    BY <1>0
  <2> QED
    BY <2>1
<1>2. <<a>> \o <<x>> = <<a, x>>
  <2>1. <<a>> \o <<x>> \in Seq(S) /\ <<a, x>> \in Seq(S)
    BY <1>0
  <2>2. Len(<<a>> \o <<x>>) = 2 /\ Len(<<a, x>>) = 2
    BY <1>0
  <2>3. \A i \in 1..2 : (<<a>> \o <<x>>)[i] = <<a, x>>[i]
    BY <1>0
  <2> QED
    BY <2>1, <2>2, <2>3, SameSeq
<1>3. <<a, b>> \o <<x>> = <<a, b, x>>
  <2>1. <<a, b>> \o <<x>> \in Seq(S) /\ <<a, b, x>> \in Seq(S)
    BY <1>0
  <2>2. Len(<<a, b>> \o <<x>>) = 3 /\ Len(<<a, b, x>>) = 3
    BY <1>0
  <2>3. \A i \in 1..3 : (<<a, b>> \o <<x>>)[i] = <<a, b, x>>[i]
    BY <1>0
  <2> QED
    BY <2>1, <2>2, <2>3, SameSeq
<1> QED
  BY <1>1, <1>2, <1>3

LEMMA CallMoves0 ==
  ASSUME StackOK, NEW t \in Threads, NEW pc, stack[t] # <<>>, Call(t, <<>>, pc)
  PROVE  Moves(t, <<[Top(t) EXCEPT !.pc = pc]>>)
<1>1. Moves(t, <<>> \o <<[Top(t) EXCEPT !.pc = pc]>>)
  <2>1. <<>> \in Seq(FramesOf(t))
    OBVIOUS
  <2> QED
    BY <2>1, CallMoves
<1> QED
  BY <1>1, Joined

LEMMA CallMoves1 ==
  ASSUME StackOK, NEW t \in Threads, NEW a \in FramesOf(t), NEW pc, stack[t] # <<>>,
         Call(t, <<a>>, pc)
  PROVE  Moves(t, <<a, [Top(t) EXCEPT !.pc = pc]>>)
<1>1. <<a>> \in Seq(FramesOf(t))
  OBVIOUS
<1>2. Moves(t, <<a>> \o <<[Top(t) EXCEPT !.pc = pc]>>)
  BY <1>1, CallMoves
<1> QED
  BY <1>2, Joined

LEMMA CallMoves2 ==
  ASSUME StackOK, NEW t \in Threads, NEW a \in FramesOf(t), NEW b \in FramesOf(t), NEW pc,
         stack[t] # <<>>, Call(t, <<a, b>>, pc)
  PROVE  Moves(t, <<a, b, [Top(t) EXCEPT !.pc = pc]>>)
<1>1. <<a, b>> \in Seq(FramesOf(t))
  OBVIOUS
<1>2. Moves(t, <<a, b>> \o <<[Top(t) EXCEPT !.pc = pc]>>)
  BY <1>1, CallMoves
<1>3. <<a, b>> \o <<[Top(t) EXCEPT !.pc = pc]>> = <<a, b, [Top(t) EXCEPT !.pc = pc]>>
  BY Joined
<1> QED
  BY <1>2, <1>3

LEMMA BeginMoves ==
  ASSUME NEW t \in Threads, NEW fs \in Seq(FramesOf(t)), Begin(t, fs)
  PROVE  Moves(t, fs) /\ stack[t] = <<>> /\ RestFrames(t) = {} /\ Len(Rest(t)) = 0
<1>1. Rest(t) = <<>> /\ fs \o <<>> = fs /\ stack[t] = <<>>
  BY DEF Begin, Rest
<1> QED
  BY <1>1 DEF Moves, Begin, RestFrames

-----------------------------------------------------------------------------
(* The steps that neither show a mode nor go through a power call.         *)

\* The calls that show nothing, and are of no power call nor of the boot
Dull ==
  {f \in FrameType :
     \/ f.fn \in {"done", "sense", "report", "tentOn", "tentOff"}
     \/ f.fn = "change" /\ f.pc \in {"cache", "running", "check"}
     \/ f.fn = "cast" /\ f.pc = "exit"}

AsideBy(t) ==
  /\ \E A \in SUBSET Dull : Trades(t, A)
  /\ stack[t] # <<>> => Top(t) \in Dull
  /\ stack[t] = <<>> => t \notin {"power", "boot"}
Aside ==
  /\ UNCHANGED stack \/ \E t \in Threads : AsideBy(t)
  /\ StackOK'
  /\ UNCHANGED <<last, current, panelVars, deviceOn, onBoot, queue>>
  /\ upset \subseteq upset'

LEMMA AsideMoves ==
  ASSUME StackOK, NEW t \in Threads,
         stack[t] # <<>> => Top(t) \in Dull, stack[t] = <<>> => t \notin {"power", "boot"},
         UNCHANGED <<last, current, panelVars, deviceOn, onBoot, queue>>,
         upset \subseteq upset',
         \/ Moves(t, <<>>)
         \/ \E a \in Dull \cap FramesOf(t) : Moves(t, <<a>>)
         \/ \E a, b \in Dull \cap FramesOf(t) : Moves(t, <<a, b>>)
         \/ \E a, b, c \in Dull \cap FramesOf(t) : Moves(t, <<a, b, c>>)
  PROVE  Aside
<1>1. CASE Moves(t, <<>>)
  <2>1. {} \in SUBSET Dull /\ Trades(t, {}) /\ StackOK'
    BY <1>1, Moves0
  <2> QED
    BY <2>1 DEF Aside, AsideBy
<1>2. CASE \E a \in Dull \cap FramesOf(t) : Moves(t, <<a>>)
  <2>1. PICK a \in Dull \cap FramesOf(t) : Moves(t, <<a>>)
    BY <1>2
  <2>2. {a} \in SUBSET Dull /\ Trades(t, {a}) /\ StackOK'
    BY <2>1, Moves1
  <2> QED
    BY <2>2 DEF Aside, AsideBy
<1>3. CASE \E a, b \in Dull \cap FramesOf(t) : Moves(t, <<a, b>>)
  <2>1. PICK a \in Dull \cap FramesOf(t), b \in Dull \cap FramesOf(t) : Moves(t, <<a, b>>)
    BY <1>3
  <2>2. {a, b} \in SUBSET Dull /\ Trades(t, {a, b}) /\ StackOK'
    BY <2>1, Moves2
  <2> QED
    BY <2>2 DEF Aside, AsideBy
<1>4. CASE \E a, b, c \in Dull \cap FramesOf(t) : Moves(t, <<a, b, c>>)
  <2>1. PICK a \in Dull \cap FramesOf(t), b \in Dull \cap FramesOf(t),
             c \in Dull \cap FramesOf(t) : Moves(t, <<a, b, c>>)
    BY <1>4
  <2>2. {a, b, c} \in SUBSET Dull /\ Trades(t, {a, b, c}) /\ StackOK'
    BY <2>1, Moves3
  <2> QED
    BY <2>2 DEF Aside, AsideBy
<1> QED
  BY <1>1, <1>2, <1>3, <1>4

\* The calls that begin a step are of the thread that takes it.
LEMMA NewFrames ==
  ASSUME NEW t \in Threads
  PROVE  /\ \A m \in Modes : /\ Change(m) \in Dull \cap FramesOf(t)
                             /\ CatchUp(m) \in Dull \cap FramesOf(t)
         /\ Done \in Dull \cap FramesOf(t)
         /\ t \in {"sensor", "tent", "runner"} =>
              Frame("sense", "unlock", "UNKNOWN", FALSE) \in Dull \cap FramesOf(t)
         /\ \A b \in BOOLEAN : t \in {"sensor", "runner"} =>
              Frame("report", "sense", "UNKNOWN", b) \in Dull \cap FramesOf(t)
         /\ t = "tent" => /\ Frame("tentOn", "sense", "UNKNOWN", FALSE) \in Dull \cap FramesOf(t)
                          /\ Frame("tentOff", "sense", "UNKNOWN", FALSE) \in Dull \cap FramesOf(t)
         /\ t = "ipc" => Frame("cast", "exit", "UNKNOWN", FALSE) \in Dull \cap FramesOf(t)
<1> USE DEF Frame, Dull, FramesOf, FrameOK, FrameType, ModeFits, Calls, Labels, Modes
<1>1. {"change", "done"} \subseteq CallsOf(t)
  BY DEF CallsOf
<1>2. ASSUME NEW m \in Modes
      PROVE  Change(m) \in Dull \cap FramesOf(t) /\ CatchUp(m) \in Dull \cap FramesOf(t)
  BY <1>1 DEF Change, CatchUp, PcsOf
<1>3. Done \in Dull \cap FramesOf(t)
  BY <1>1 DEF Done, PcsOf
<1>4. t \in {"sensor", "tent", "runner"} =>
        Frame("sense", "unlock", "UNKNOWN", FALSE) \in Dull \cap FramesOf(t)
  BY DEF PcsOf, CallsOf
<1>5. \A b \in BOOLEAN : t \in {"sensor", "runner"} =>
        Frame("report", "sense", "UNKNOWN", b) \in Dull \cap FramesOf(t)
  BY DEF PcsOf, CallsOf
<1>6. t = "tent" => Frame("tentOn", "sense", "UNKNOWN", FALSE) \in Dull \cap FramesOf(t)
  BY DEF PcsOf, CallsOf
<1>7. t = "tent" => Frame("tentOff", "sense", "UNKNOWN", FALSE) \in Dull \cap FramesOf(t)
  BY DEF PcsOf, CallsOf
<1>8. t = "ipc" => Frame("cast", "exit", "UNKNOWN", FALSE) \in Dull \cap FramesOf(t)
  BY DEF PcsOf, CallsOf
<1> QED
  BY <1>2, <1>3, <1>4, <1>5, <1>6, <1>7, <1>8

LEMMA DullGoto ==
  ASSUME NEW t \in Threads, NEW f \in FramesOf(t), NEW pc,
         \/ f.fn = "change" /\ pc \in {"cache", "running", "check"}
         \/ f.fn = "done" /\ pc \in {"count", "test", "compare"}
         \/ f.fn = "report" /\ pc = "leave"
         \/ f.fn = "tentOn" /\ pc \in {"change", "wake"}
         \/ f.fn = "tentOff" /\ pc = "change"
  PROVE  [f EXCEPT !.pc = pc] \in Dull \cap FramesOf(t)
  BY DEF Dull, FramesOf, FrameOK, FrameType, ModeFits, PcsOf, Labels

LEMMA NoteGrows ==
  ASSUME NEW P, NEW r, Note(P, r)
  PROVE  upset \subseteq upset'
  BY DEF Note

\* The type invariant without stack and queue
DataOK ==
  /\ cache \in Modes /\ last \in Modes /\ current \in Modes /\ wanted \in Modes
  /\ running \in BOOLEAN /\ pending \in Int /\ elapsed \in BOOLEAN
  /\ status \in Statuses /\ locked \in BOOLEAN /\ tent \in BOOLEAN
  /\ onBoot \in BOOLEAN /\ subReady \in BOOLEAN /\ scb \in BOOLEAN /\ notices \in Nat
  /\ screenId \in Screens \cup {"none"} /\ nodes \subseteq Screens /\ lit \subseteq Screens
  /\ deviceOn \in BOOLEAN /\ wake \in BOOLEAN
  /\ budget \in Budget

LEMMA ModeOfType ==
  ASSUME DataOK
  PROVE  /\ \A s \in Statuses : ModeOf(s) \in Modes \ {"COORDINATION"}
         /\ GetModeMatchStatus \in Modes \ {"COORDINATION"}
  BY DEF ModeOf, GetModeMatchStatus, Modes, Statuses, DataOK

\* The calls of a sensor change
LEMMA SensorCallsType ==
  ASSUME DataOK, NEW t \in {"sensor", "tent", "runner"}, NEW s \in Statuses
  PROVE  \/ SensorCalls(s) = <<>>
         \/ \E a, b \in Dull \cap FramesOf(t) : SensorCalls(s) = <<a, b>>
<1>1. ModeOf(s) \in Modes /\ t \in Threads
  BY ModeOfType DEF Threads
<1>2. Change(ModeOf(s)) \in Dull \cap FramesOf(t)
      /\ Frame("sense", "unlock", "UNKNOWN", FALSE) \in Dull \cap FramesOf(t)
  BY <1>1, NewFrames
<1> QED
  BY <1>2 DEF SensorCalls

\* A thread that a report is handled on
LEMMA SensorThread ==
  ASSUME StackOK, NEW t \in Threads, stack[t] # <<>>,
         Top(t).fn \in {"report", "tentOn", "tentOff"}
  PROVE  t \in {"sensor", "tent", "runner"}
  BY TopFacts DEF FramesOf, CallsOf, Threads

LEMMA CallAside ==
  ASSUME StackOK, DataOK, NEW t \in Threads,
         \/ SetLastCacheDisplayMode(t) \/ TestRunning(t) \/ CountDown(t) \/ TestCount(t)
         \/ CompareWithCache(t) \/ EndHandleSensorChange(t) \/ LeaveTent(t)
  PROVE  Aside
<1> DEFINE f == Top(t)
<1>0. UNCHANGED <<last, current, panelVars, deviceOn, onBoot, queue>> /\ upset \subseteq upset'
  BY NoteGrows DEF SetLastCacheDisplayMode, TestRunning, CountDown, TestCount, CompareWithCache,
     EndHandleSensorChange, LeaveTent, modeVars, panelVars, powerVars, bootVars
<1>1. stack[t] # <<>> /\ f \in FramesOf(t)
  BY TopFacts DEF SetLastCacheDisplayMode, TestRunning, CountDown, TestCount, CompareWithCache,
     EndHandleSensorChange, LeaveTent, At
<1>2. f \in Dull
  BY <1>1 DEF SetLastCacheDisplayMode, TestRunning, CountDown, TestCount, CompareWithCache,
     EndHandleSensorChange, LeaveTent, At, Dull, FramesOf
<1>3. CASE SetLastCacheDisplayMode(t) \/ TestRunning(t)
  <2>1. f.fn = "change"
    BY <1>3 DEF SetLastCacheDisplayMode, TestRunning, At
  <2>2. Return(t) \/ Goto(t, "running") \/ Goto(t, "check")
    BY <1>3 DEF SetLastCacheDisplayMode, TestRunning
  <2>3. /\ [f EXCEPT !.pc = "running"] \in Dull \cap FramesOf(t)
        /\ [f EXCEPT !.pc = "check"] \in Dull \cap FramesOf(t)
    BY <1>1, <2>1, DullGoto
  <2>4. \/ Moves(t, <<>>) \/ Moves(t, <<[f EXCEPT !.pc = "running"]>>)
        \/ Moves(t, <<[f EXCEPT !.pc = "check"]>>)
    BY <1>1, <2>2, ReturnMoves, GotoMoves
  <2> QED
    BY <1>0, <1>1, <1>2, <2>3, <2>4, AsideMoves
<1>4. CASE CountDown(t) \/ TestCount(t)
  <2>1. f.fn = "done"
    BY <1>4 DEF CountDown, TestCount, At
  <2>2. Return(t) \/ Goto(t, "test") \/ Goto(t, "compare")
    BY <1>4 DEF CountDown, TestCount
  <2>3. /\ [f EXCEPT !.pc = "test"] \in Dull \cap FramesOf(t)
        /\ [f EXCEPT !.pc = "compare"] \in Dull \cap FramesOf(t)
    BY <1>1, <2>1, DullGoto
  <2>4. \/ Moves(t, <<>>) \/ Moves(t, <<[f EXCEPT !.pc = "test"]>>)
        \/ Moves(t, <<[f EXCEPT !.pc = "compare"]>>)
    BY <1>1, <2>2, ReturnMoves, GotoMoves
  <2> QED
    BY <1>0, <1>1, <1>2, <2>3, <2>4, AsideMoves
<1>5. CASE CompareWithCache(t)
  <2>1. Moves(t, <<>>) \/ Moves(t, <<CatchUp(cache)>>)
    BY <1>1, <1>5, ReturnMoves, ReturnByMoves DEF CompareWithCache
  <2>2. CatchUp(cache) \in Dull \cap FramesOf(t)
    BY NewFrames DEF DataOK
  <2> QED
    BY <1>0, <1>1, <1>2, <2>1, <2>2, AsideMoves
<1>6. CASE EndHandleSensorChange(t) \/ LeaveTent(t)
  <2>1. Moves(t, <<>>)
    BY <1>1, <1>6, ReturnMoves DEF EndHandleSensorChange, LeaveTent
  <2> QED
    BY <1>0, <1>1, <1>2, <2>1, AsideMoves
<1> QED
  BY <1>3, <1>4, <1>5, <1>6

LEMMA ReportAside ==
  ASSUME StackOK, DataOK, NEW t \in Threads, NEW s \in Statuses, HandleReport(t, s)
  PROVE  Aside
<1> DEFINE f == Top(t)
           g == [f EXCEPT !.pc = "leave"]
<1>0. UNCHANGED <<last, current, panelVars, deviceOn, onBoot, queue>> /\ upset \subseteq upset'
  BY DEF HandleReport, modeVars, panelVars, powerVars, bootVars
<1>1. stack[t] # <<>> /\ f \in FramesOf(t) /\ f.fn = "report"
  BY TopFacts DEF HandleReport, At
<1>2. f \in Dull /\ g \in Dull \cap FramesOf(t)
  BY <1>1, DullGoto DEF Dull, FramesOf
<1>3. t \in {"sensor", "tent", "runner"}
  BY <1>1, SensorThread
<1>4. CASE SensorCalls(s) = <<>>
  <2>1. ReturnBy(t, <<>>) \/ Call(t, <<>>, "leave")
    BY <1>4 DEF HandleReport
  <2>2. Moves(t, <<>>) \/ Moves(t, <<g>>)
    BY <1>1, <2>1, ReturnByMoves, CallMoves0
  <2> QED
    BY <1>0, <1>1, <1>2, <2>2, AsideMoves
<1>5. CASE \E a, b \in Dull \cap FramesOf(t) : SensorCalls(s) = <<a, b>>
  <2>1. PICK a \in Dull \cap FramesOf(t), b \in Dull \cap FramesOf(t) : SensorCalls(s) = <<a, b>>
    BY <1>5
  <2>2. ReturnBy(t, <<a, b>>) \/ Call(t, <<a, b>>, "leave")
    BY <2>1 DEF HandleReport
  <2>3. Moves(t, <<a, b>>) \/ Moves(t, <<a, b, g>>)
    BY <1>1, <2>2, ReturnByMoves, CallMoves2
  <2> QED
    BY <1>0, <1>1, <1>2, <2>1, <2>3, AsideMoves
<1> QED
  BY <1>3, <1>4, <1>5, SensorCallsType

LEMMA TentAside ==
  ASSUME StackOK, DataOK, TentStep
  PROVE  Aside
<1> DEFINE t == "tent"
           f == Top(t)
<1> USE DualFoldAssumption
<1>0. UNCHANGED <<last, current, panelVars, deviceOn, onBoot, queue>> /\ upset \subseteq upset'
  BY DEF TentStep, HandleTent, ChangeOnTentMode, WakeupOnTentMode, ChangeOffTentMode,
         modeVars, panelVars, powerVars, bootVars
<1>1. /\ t \in Threads /\ stack[t] # <<>> /\ f \in FramesOf(t) /\ f.fn \in {"tentOn", "tentOff"}
      /\ f \in Dull
  <2>1. t \in Threads /\ stack[t] # <<>> /\ f.fn \in {"tentOn", "tentOff"}
    BY DEF TentStep, HandleTent, ChangeOnTentMode, WakeupOnTentMode, ChangeOffTentMode, At, Threads
  <2> QED
    BY <2>1, TopFacts DEF Dull, FramesOf
<1>2. CASE \E s \in Reports \cup {"FOLDED"} : HandleTent(s)
  <2> DEFINE g == [f EXCEPT !.pc = "change"]
  <2>1. PICK s \in Reports \cup {"FOLDED"} : HandleTent(s)
    BY <1>2
  <2>2. s \in Statuses /\ g \in Dull \cap FramesOf(t)
    BY <1>1, DullGoto DEF Statuses
  <2>3. CASE SensorCalls(s) = <<>>
    <3>1. Call(t, <<>>, "change")
      BY <2>1, <2>3 DEF HandleTent
    <3>2. Moves(t, <<g>>)
      BY <1>1, <3>1, CallMoves0
    <3> QED
      BY <1>0, <1>1, <2>2, <3>2, AsideMoves
  <2>4. CASE \E a, b \in Dull \cap FramesOf(t) : SensorCalls(s) = <<a, b>>
    <3>1. PICK a \in Dull \cap FramesOf(t), b \in Dull \cap FramesOf(t) : SensorCalls(s) = <<a, b>>
      BY <2>4
    <3>2. Call(t, <<a, b>>, "change")
      BY <2>1, <3>1 DEF HandleTent
    <3>3. Moves(t, <<a, b, g>>)
      BY <1>1, <3>2, CallMoves2
    <3> QED
      BY <1>0, <1>1, <2>2, <3>1, <3>3, AsideMoves
  <2> QED
    BY <2>2, <2>3, <2>4, SensorCallsType
<1>3. CASE ChangeOnTentMode
  <2> DEFINE g == [f EXCEPT !.pc = "wake"]
             c == Change("SUB")
  <2>1. c \in Dull \cap FramesOf(t) /\ g \in Dull \cap FramesOf(t)
    BY <1>1, <1>3, NewFrames, DullGoto DEF Modes, ChangeOnTentMode, At
  <2>2. Call(t, <<c>>, "wake")
    BY <1>3 DEF ChangeOnTentMode
  <2>3. Moves(t, <<c, g>>)
    BY <1>1, <2>1, <2>2, CallMoves1
  <2> QED
    BY <1>0, <1>1, <2>1, <2>3, AsideMoves
<1>4. CASE WakeupOnTentMode
  <2>1. Moves(t, <<>>)
    BY <1>1, <1>4, ReturnMoves DEF WakeupOnTentMode
  <2> QED
    BY <1>0, <1>1, <2>1, AsideMoves
<1>5. CASE ChangeOffTentMode
  <2> DEFINE c == Change(GetModeMatchStatus)
  <2>1. c \in Dull \cap FramesOf(t)
    BY <1>1, NewFrames, ModeOfType
  <2>2. Moves(t, <<c>>)
    BY <1>1, <1>5, ReturnByMoves DEF ChangeOffTentMode
  <2> QED
    BY <1>0, <1>1, <2>1, <2>2, AsideMoves
<1> QED
  BY <1>2, <1>3, <1>4, <1>5 DEF TentStep

\* The events that begin a call or change a setting
LEMMA EventAside ==
  ASSUME StackOK, DataOK,
         \/ \E t \in {"sensor", "runner"} : Report(t)
         \/ \E mode \in Requests : SetFoldDisplayMode(mode)
         \/ SwitchTent \/ LockDisplayStatus \/ CreateCastScreen \/ StrayPropertyChange
         \/ TwoSecondsPass \/ NotifyFoldToExpandCompletion \/ ConnectSub
  PROVE  Aside
<1> DEFINE Same == UNCHANGED <<last, current, panelVars, deviceOn, onBoot, queue>>
                   /\ upset \subseteq upset'
<1>1. ASSUME NEW t \in Threads \ {"power", "boot"}, NEW a \in Dull \cap FramesOf(t), Begin(t, <<a>>), Same
      PROVE  Aside
  <2>1. <<a>> \in Seq(FramesOf(t))
    OBVIOUS
  <2>2. Moves(t, <<a>>) /\ stack[t] = <<>>
    BY <1>1, <2>1, BeginMoves
  <2> QED
    BY <1>1, <2>2, AsideMoves
<1>2. ASSUME UNCHANGED stack, Same
      PROVE  Aside
  BY <1>2 DEF Aside, StackOK
<1>3. ASSUME NEW t \in {"sensor", "runner"}, Report(t)
      PROVE  Aside
  <2>1. Frame("report", "sense", "UNKNOWN", tent) \in Dull \cap FramesOf(t) /\ t \in Threads \ {"power", "boot"}
    BY NewFrames DEF Threads, DataOK
  <2>2. Same
    BY <1>3 DEF Report, modeVars, panelVars, powerVars, bootVars
  <2> QED
    BY <1>1, <1>3, <2>1, <2>2 DEF Report
<1>4. ASSUME NEW mode \in Requests, SetFoldDisplayMode(mode)
      PROVE  Aside
  <2>1. Change(mode) \in Dull \cap FramesOf("ipc") /\ "ipc" \in Threads \ {"power", "boot"}
    BY DualFoldAssumption, NewFrames DEF Threads, DualFoldAssumption
  <2>2. Same
    BY <1>4 DEF SetFoldDisplayMode, modeVars, panelVars, powerVars, bootVars
  <2> QED
    BY <1>1, <1>4, <2>1, <2>2 DEF SetFoldDisplayMode
<1>5. CASE SwitchTent
  <2> DEFINE a == Frame(IF tent THEN "tentOff" ELSE "tentOn", "sense", "UNKNOWN", FALSE)
  <2>1. a \in Dull \cap FramesOf("tent") /\ "tent" \in Threads \ {"power", "boot"}
    BY NewFrames DEF Threads
  <2>2. Same
    BY <1>5, NoteGrows DEF SwitchTent, modeVars, panelVars, powerVars, bootVars
  <2>3. Begin("tent", <<a>>)
    BY <1>5 DEF SwitchTent
  <2> HIDE DEF a
  <2> QED
    BY <1>1, <2>1, <2>2, <2>3
<1>6. CASE LockDisplayStatus \/ ConnectSub \/ TwoSecondsPass
  <2>1. Same /\ UNCHANGED stack
    BY <1>6, NoteGrows DEF LockDisplayStatus, ConnectSub, TwoSecondsPass, modeVars, panelVars,
       powerVars, bootVars
  <2> QED
    BY <1>2, <2>1
<1>7. CASE CreateCastScreen
  <2>1. Frame("cast", "exit", "UNKNOWN", FALSE) \in Dull \cap FramesOf("ipc") /\ "ipc" \in Threads \ {"power", "boot"}
    BY NewFrames DEF Threads
  <2>2. Same
    BY <1>7 DEF CreateCastScreen, modeVars, panelVars, powerVars, bootVars
  <2> QED
    BY <1>1, <1>7, <2>1, <2>2 DEF CreateCastScreen
<1>8. CASE StrayPropertyChange \/ NotifyFoldToExpandCompletion
  <2>1. Done \in Dull \cap FramesOf("ipc") /\ "ipc" \in Threads \ {"power", "boot"}
    BY NewFrames DEF Threads
  <2>2. Same
    BY <1>8, NoteGrows DEF StrayPropertyChange, NotifyFoldToExpandCompletion, modeVars, panelVars,
       powerVars, bootVars
  <2> QED
    BY <1>1, <1>8, <2>1, <2>2 DEF StrayPropertyChange, NotifyFoldToExpandCompletion
<1> QED
  BY <1>3, <1>4, <1>5, <1>6, <1>7, <1>8

-----------------------------------------------------------------------------
(* The calls that are held anywhere, and what each other step does to them *)

Held == (UNION {Frames(t) : t \in Threads}) \cup {queue[i] : i \in DOMAIN queue}

\* The calls A come, those of B may go.
HeldBy(A, B) == Held' \subseteq Held \cup A /\ A \subseteq Held' /\ Held \subseteq Held' \cup B

LEMMA HeldTrades ==
  ASSUME StackOK, NEW t \in Threads, NEW A, Trades(t, A), queue' = queue
  PROVE  /\ stack[t] # <<>> => HeldBy(A, {Top(t)})
         /\ stack[t] = <<>> => HeldBy(A, {})
<1>1. RestFrames(t) \subseteq Frames(t) /\ Frames(t)' = A \cup RestFrames(t)
  BY RestFacts DEF Trades
<1>2. \A u \in Threads \ {t} : Frames(u)' = Frames(u)
  BY DEF Trades
<1>3. Held' \subseteq Held \cup A
  BY <1>1, <1>2 DEF Held
<1>4. A \subseteq Held'
  BY <1>1 DEF Held
<1>5. {queue'[i] : i \in DOMAIN queue'} = {queue[i] : i \in DOMAIN queue}
  OBVIOUS
<1>6. CASE stack[t] # <<>>
  <2>1. Frames(t) = {Top(t)} \cup RestFrames(t)
    BY <1>6, TopFacts
  <2>2. Held \subseteq Held' \cup {Top(t)}
    BY <1>1, <1>2, <1>5, <2>1 DEF Held
  <2> QED
    BY <1>3, <1>4, <1>6, <2>2 DEF HeldBy
<1>7. CASE stack[t] = <<>>
  <2>1. Frames(t) = {}
    BY <1>7, RestFacts
  <2>2. Held \subseteq Held'
    BY <1>2, <1>5, <2>1 DEF Held
  <2> QED
    BY <1>3, <1>4, <1>7, <2>2 DEF HeldBy
<1> QED
  BY <1>6, <1>7

LEMMA HeldAside ==
  ASSUME StackOK, Aside
  PROVE  \E A, B \in SUBSET Dull : HeldBy(A, B)
<1>1. CASE UNCHANGED stack
  <2>1. Held' = Held
    BY <1>1 DEF Held, Frames, Aside
  <2>2. HeldBy({}, {})
    BY <2>1 DEF HeldBy
  <2> QED
    BY <2>2
<1>2. CASE \E t \in Threads : AsideBy(t)
  <2>1. PICK t \in Threads : AsideBy(t)
    BY <1>2
  <2>2. PICK A \in SUBSET Dull : Trades(t, A)
    BY <2>1 DEF AsideBy
  <2>3. queue' = queue
    BY DEF Aside
  <2>4. CASE stack[t] # <<>>
    <3>1. HeldBy(A, {Top(t)}) /\ {Top(t)} \in SUBSET Dull
      BY <2>1, <2>2, <2>3, <2>4, HeldTrades DEF AsideBy
    <3> QED
      BY <3>1
  <2>5. CASE stack[t] = <<>>
    <3>1. HeldBy(A, {}) /\ {} \in SUBSET Dull
      BY <2>2, <2>3, <2>5, HeldTrades
    <3> QED
      BY <3>1
  <2> QED
    BY <2>4, <2>5
<1> QED
  BY <1>1, <1>2 DEF Aside

\* One call goes, one or two or none come, in the same thread.
LEMMA HeldMoves ==
  ASSUME StackOK, QueueOK, NEW t \in Threads, stack[t] # <<>>, queue' = queue
  PROVE  /\ Moves(t, <<>>) =>
              StackOK' /\ QueueOK' /\ HeldBy({}, {Top(t)})
         /\ \A a \in FramesOf(t) : Moves(t, <<a>>) =>
              StackOK' /\ QueueOK' /\ HeldBy({a}, {Top(t)})
         /\ \A a, b \in FramesOf(t) : Moves(t, <<a, b>>) =>
              StackOK' /\ QueueOK' /\ HeldBy({a, b}, {Top(t)})
<1>1. QueueOK'
  BY DEF QueueOK
<1>2. ASSUME Moves(t, <<>>)
      PROVE  StackOK' /\ HeldBy({}, {Top(t)})
  BY <1>2, Moves0, HeldTrades
<1>3. ASSUME NEW a \in FramesOf(t), Moves(t, <<a>>)
      PROVE  StackOK' /\ HeldBy({a}, {Top(t)})
  BY <1>3, Moves1, HeldTrades
<1>4. ASSUME NEW a \in FramesOf(t), NEW b \in FramesOf(t), Moves(t, <<a, b>>)
      PROVE  StackOK' /\ HeldBy({a, b}, {Top(t)})
  BY <1>4, Moves2, HeldTrades
<1> QED
  BY <1>1, <1>2, <1>3, <1>4

LEMMA HeldBegin ==
  ASSUME StackOK, QueueOK, NEW t \in Threads, NEW a \in FramesOf(t), Begin(t, <<a>>),
         queue' = queue
  PROVE  StackOK' /\ QueueOK' /\ HeldBy({a}, {}) /\ Moves(t, <<a>>) /\ stack[t] = <<>>
<1>1. <<a>> \in Seq(FramesOf(t))
  OBVIOUS
<1>2. Moves(t, <<a>>) /\ stack[t] = <<>>
  BY <1>1, BeginMoves
<1>3. StackOK' /\ HeldBy({a}, {})
  BY <1>2, Moves1, HeldTrades
<1> QED
  BY <1>2, <1>3 DEF QueueOK

LEMMA FrameInHeld ==
  ASSUME StackOK, QueueOK
  PROVE  /\ \A f \in Held : FrameOK(f)
         /\ \A t \in Threads : Frames(t) \subseteq Held /\ Frames(t) \subseteq FramesOf(t)
         /\ \A t \in Threads : stack[t] # <<>> => Top(t) \in Held
<1>1. \A t \in Threads : Frames(t) \subseteq FramesOf(t)
  BY DEF StackOK, Frames
<1>2. \A i \in DOMAIN queue : queue[i] \in Tasks
  BY DEF QueueOK
<1>3. \A t \in Threads : stack[t] # <<>> => Top(t) \in Frames(t)
  BY TopFacts
<1> QED
  BY <1>1, <1>2, <1>3 DEF Held, FramesOf, Tasks

\* A task is posted: the runner runs it at once, the others queue it.
PostsTask(t, k, g) ==
  IF t = "runner" THEN Moves(t, <<k, g>>) /\ queue' = queue
                  ELSE Moves(t, <<g>>) /\ queue' = Append(queue, k)

LEMMA QueueAppend ==
  ASSUME QueueOK, NEW k \in Tasks, queue' = Append(queue, k)
  PROVE  /\ QueueOK'
         /\ {queue'[i] : i \in DOMAIN queue'} = {queue[i] : i \in DOMAIN queue} \cup {k}
         /\ \A i \in DOMAIN queue : i \in DOMAIN queue' /\ queue'[i] = queue[i]
         /\ Len(queue') = Len(queue) + 1 /\ queue'[Len(queue) + 1] = k
         /\ Len(queue) \in Nat /\ DOMAIN queue' = 1..(Len(queue) + 1)
<1>1. QueueOK' /\ Len(queue') = Len(queue) + 1 /\ Len(queue) \in Nat
  BY DEF QueueOK
<1>2. DOMAIN queue' = 1..(Len(queue) + 1) /\ DOMAIN queue = 1..Len(queue)
  BY DEF QueueOK
<1>3. \A i \in 1..Len(queue) : queue'[i] = queue[i]
  BY DEF QueueOK
<1>4. queue'[Len(queue) + 1] = k
  BY DEF QueueOK
<1>5. \A i \in 1..(Len(queue) + 1) : i \in 1..Len(queue) \/ i = Len(queue) + 1
  BY <1>1
<1>6. Len(queue) + 1 \in DOMAIN queue' /\ \A i \in DOMAIN queue : i \in DOMAIN queue'
  BY <1>1, <1>2
<1> QED
  BY <1>1, <1>2, <1>3, <1>4, <1>5, <1>6

LEMMA QueueTail ==
  ASSUME QueueOK, queue # <<>>, queue' = Tail(queue)
  PROVE  /\ QueueOK'
         /\ {queue[i] : i \in DOMAIN queue} = {queue'[i] : i \in DOMAIN queue'} \cup {Head(queue)}
         /\ 1 \in DOMAIN queue /\ queue[1] = Head(queue) /\ Head(queue) \in Tasks
         /\ \A i \in DOMAIN queue' : i + 1 \in DOMAIN queue /\ queue'[i] = queue[i + 1]
         /\ \A i \in DOMAIN queue : i \in Nat /\ (i = 1 \/ i - 1 \in DOMAIN queue')
         /\ \A i \in DOMAIN queue' : i \in Nat \ {0}
<1>1. QueueOK' /\ Len(queue) \in Nat \ {0} /\ Len(queue') = Len(queue) - 1
  BY DEF QueueOK
<1>2. DOMAIN queue' = 1..(Len(queue) - 1) /\ DOMAIN queue = 1..Len(queue)
  BY <1>1 DEF QueueOK
<1>3. queue[1] = Head(queue) /\ Head(queue) \in Tasks
  BY <1>1 DEF QueueOK
<1>4. \A i \in 1..(Len(queue) - 1) : queue'[i] = queue[i + 1] /\ i + 1 \in 1..Len(queue)
  BY <1>1 DEF QueueOK
<1>5. \A i \in 1..Len(queue) : i = 1 \/ i - 1 \in 1..(Len(queue) - 1)
  BY <1>1
<1>6. ASSUME NEW i \in 1..Len(queue), i # 1
      PROVE  queue[i] = queue'[i - 1]
  <2>1. i - 1 \in 1..(Len(queue) - 1) /\ (i - 1) + 1 = i
    BY <1>1, <1>6
  <2> QED
    BY <1>4, <2>1
<1>7. 1 \in 1..Len(queue)
  BY <1>1
<1>8. (\A i \in 1..Len(queue) : i \in Nat) /\ \A i \in 1..(Len(queue) - 1) : i \in Nat \ {0}
  BY <1>1
<1>9. {queue[i] : i \in DOMAIN queue} = {queue'[i] : i \in DOMAIN queue'} \cup {Head(queue)}
  <2>1. ASSUME NEW i \in DOMAIN queue
        PROVE  queue[i] \in {queue'[j] : j \in DOMAIN queue'} \cup {Head(queue)}
    BY <1>2, <1>3, <1>5, <1>6
  <2>2. \A i \in DOMAIN queue' : queue'[i] \in {queue[j] : j \in DOMAIN queue}
    BY <1>2, <1>4
  <2>3. Head(queue) \in {queue[j] : j \in DOMAIN queue}
    BY <1>2, <1>3, <1>7
  <2> QED
    BY <2>1, <2>2, <2>3
<1> QED
  BY <1>1, <1>2, <1>3, <1>4, <1>5, <1>7, <1>8, <1>9

LEMMA HeldPosts ==
  ASSUME StackOK, QueueOK, NEW t \in Threads, stack[t] # <<>>, NEW k \in Tasks,
         NEW g \in FramesOf(t), t = "runner" => k \in FramesOf(t), PostsTask(t, k, g)
  PROVE  StackOK' /\ QueueOK' /\ HeldBy({k, g}, {Top(t)})
<1>1. CASE t = "runner"
  BY <1>1, HeldMoves DEF PostsTask
<1>2. CASE t # "runner"
  <2>1. Moves(t, <<g>>) /\ queue' = Append(queue, k)
    BY <1>2 DEF PostsTask
  <2>2. StackOK' /\ Trades(t, {g})
    BY <2>1, Moves1
  <2>3. {queue'[i] : i \in DOMAIN queue'} = {queue[i] : i \in DOMAIN queue} \cup {k} /\ QueueOK'
    BY <2>1, QueueAppend
  <2>4. Frames(t)' = {g} \cup RestFrames(t) /\ Frames(t) = {Top(t)} \cup RestFrames(t)
    BY <2>2, TopFacts DEF Trades
  <2>5. \A u \in Threads \ {t} : Frames(u)' = Frames(u)
    BY <2>2 DEF Trades
  <2>6. Held' \subseteq Held \cup {k, g}
    BY <2>3, <2>4, <2>5 DEF Held
  <2>7. {k, g} \subseteq Held'
    BY <2>3, <2>4 DEF Held
  <2>8. Held \subseteq Held' \cup {Top(t)}
    BY <2>3, <2>4, <2>5 DEF Held
  <2> QED
    BY <2>2, <2>3, <2>6, <2>7, <2>8 DEF HeldBy
<1> QED
  BY <1>1, <1>2

\* PostTask, in these terms
LEMMA PostTaskPosts ==
  ASSUME StackOK, NEW t \in Threads, stack[t] # <<>>, NEW k \in Tasks, NEW pc,
         t = "runner" => k \in FramesOf(t), PostTask(t, k, pc)
  PROVE  PostsTask(t, k, [Top(t) EXCEPT !.pc = pc])
<1>1. CASE t = "runner"
  <2>1. Call(t, <<k>>, pc) /\ queue' = queue
    BY <1>1 DEF PostTask
  <2>2. Moves(t, <<k, [Top(t) EXCEPT !.pc = pc]>>)
    BY <1>1, <2>1, CallMoves1
  <2> QED
    BY <1>1, <2>1, <2>2 DEF PostsTask
<1>2. CASE t # "runner"
  BY <1>2, GotoMoves DEF PostTask, PostsTask
<1> QED
  BY <1>1, <1>2

\* A call whose work has been posted, or is
InFlight(f) ==
  f.fn = "change" /\ f.pc \in {"post", "postMain", "postSub", "nodes", "current"}

LEMMA ShowGoto ==
  ASSUME NEW t \in Threads, NEW f \in FramesOf(t), NEW pc, NEW b \in BOOLEAN,
         \/ f.fn = "change" /\ pc \in {"post", "nodes", "current"}
         \/ f.fn = "trigger" /\ pc \in {"nodes", "current"}
         \/ f.fn = "change" /\ pc \in {"postMain", "postSub"} /\ f.mode = "COORDINATION"
  PROVE  [f EXCEPT !.pc = pc] \in FramesOf(t) /\ [f EXCEPT !.pc = pc, !.flag = b] \in FramesOf(t)
  BY DEF FramesOf, FrameOK, FrameType, ModeFits, PcsOf, Labels

LEMMA TaskFrames ==
  /\ \A m \in {"MAIN", "SUB"} :
       Frame("offOn", "off", m, FALSE) \in Tasks \cap FramesOf("runner")
  /\ \A b \in BOOLEAN :
       /\ Frame("onMain", "on", "COORDINATION", b) \in Tasks \cap FramesOf("runner")
       /\ Frame("onSub", "on", "COORDINATION", b) \in Tasks \cap FramesOf("runner")
       /\ Frame("panel", "set", "UNKNOWN", b) \in Tasks
  /\ \A f \in Tasks : f.fn # "panel" => f \in FramesOf("runner")
<1> USE DEF Frame, Tasks, FramesOf, FrameOK, FrameType, ModeFits, Calls, Labels, Modes
<1>1. {"offOn", "onMain", "onSub"} \subseteq CallsOf("runner")
  BY DEF CallsOf
<1>2. \A m \in {"MAIN", "SUB"} :
        Frame("offOn", "off", m, FALSE) \in Tasks \cap FramesOf("runner")
  BY <1>1 DEF PcsOf
<1>3. ASSUME NEW b \in BOOLEAN
      PROVE  /\ Frame("onMain", "on", "COORDINATION", b) \in Tasks \cap FramesOf("runner")
             /\ Frame("onSub", "on", "COORDINATION", b) \in Tasks \cap FramesOf("runner")
             /\ Frame("panel", "set", "UNKNOWN", b) \in Tasks
  BY <1>1 DEF PcsOf
<1>4. \A f \in Tasks : f.fn # "panel" => f \in FramesOf("runner")
  BY <1>1
<1> QED
  BY <1>2, <1>3, <1>4

\* A change that is made, beyond the tests
Starts(t) ==
  LET f == Top(t) IN
  /\ Start(t) /\ stack[t] # <<>> /\ f \in FramesOf(t) /\ f.fn = "change" /\ f.pc = "check"
  /\ current # f.mode /\ last' = f.mode /\ running' = TRUE /\ pending' = 3
  /\ Unfinished => "overlap" \in upset'
  /\ Exiting => "exitRaces" \in upset'
  /\ f.mode = "COORDINATION" /\ "main" \notin nodes => "fromSub" \in upset'
  /\ t # "boot" /\ ~Idle("boot") => "bootRaces" \in upset'
  /\ upset \subseteq upset'
  /\ Moves(t, <<[f EXCEPT !.pc = "post"]>>)
  /\ [f EXCEPT !.pc = "post"] \in FramesOf(t)
  /\ HeldBy({[f EXCEPT !.pc = "post"]}, {f}) /\ StackOK' /\ QueueOK'

Refused(f) == \/ f.mode = "SUB" /\ ~subReady
              \/ f.mode = "COORDINATION" /\ ~CoordinationSupported

LEMMA StartMade ==
  ASSUME StackOK, QueueOK, NEW t \in Threads, Start(t),
         ~Refused(Top(t)), current # Top(t).mode
  PROVE  Starts(t)
<1> DEFINE f == Top(t)
           g == [f EXCEPT !.pc = "post"]
           mode == f.mode
<1>1. stack[t] # <<>> /\ f \in FramesOf(t) /\ f.fn = "change" /\ f.pc = "check"
  BY TopFacts DEF Start, At
<1>2. queue' = queue
  BY DEF Start
<1> DEFINE noted == {r \in {"overlap", "fromSub", "bootRaces", "exitRaces"} :
                       CASE r = "overlap"   -> Unfinished
                         [] r = "fromSub"   -> mode = "COORDINATION" /\ "main" \notin nodes
                         [] r = "bootRaces" -> t # "boot" /\ ~Idle("boot")
                         [] r = "exitRaces" -> Exiting}
<1>3. /\ Goto(t, "post") /\ last' = mode /\ running' = TRUE /\ pending' = 3
      /\ upset' = upset \cup noted
  BY DEF Start, Refused
<1>4. /\ Unfinished => "overlap" \in noted
      /\ Exiting => "exitRaces" \in noted
      /\ mode = "COORDINATION" /\ "main" \notin nodes => "fromSub" \in noted
      /\ t # "boot" /\ ~Idle("boot") => "bootRaces" \in noted
  OBVIOUS
<1>5. g \in FramesOf(t) /\ Moves(t, <<g>>)
  BY <1>1, <1>3, ShowGoto, GotoMoves
<1>6. HeldBy({g}, {f}) /\ StackOK' /\ QueueOK'
  BY <1>1, <1>2, <1>5, HeldMoves
<1> HIDE DEF noted
<1> QED
  BY <1>1, <1>3, <1>4, <1>5, <1>6 DEF Starts

LEMMA StartEffect ==
  ASSUME StackOK, QueueOK, NEW t \in Threads, Start(t)
  PROVE  Aside \/ Starts(t)
<1> DEFINE f == Top(t)
<1>1. CASE Refused(f) \/ current = f.mode
  <2>1. Return(t) /\ UNCHANGED last /\ upset \subseteq upset'
    BY <1>1, NoteGrows DEF Start, Refused
  <2>2. /\ stack[t] # <<>> /\ f \in FramesOf(t) /\ f.fn = "change" /\ f.pc = "check"
        /\ UNCHANGED <<current, panelVars, deviceOn, onBoot, queue>>
    BY TopFacts DEF Start, At, panelVars, powerVars, bootVars
  <2>3. f \in Dull /\ Moves(t, <<>>)
    BY <2>1, <2>2, ReturnMoves DEF Dull, FramesOf
  <2> QED
    BY <2>1, <2>2, <2>3, AsideMoves
<1>2. CASE ~(Refused(f) \/ current = f.mode)
  BY <1>2, StartMade
<1> QED
  BY <1>1, <1>2

\* A change during the boot animation
LEMMA BootEffect ==
  ASSUME StackOK, QueueOK, NEW t \in Threads, stack[t] # <<>>, ShowOnBootAnimation(t)
  PROVE  LET f == Top(t)
             g == [f EXCEPT !.pc = "current"]
         IN  /\ f \in FramesOf(t) /\ f.fn \in {"change", "trigger"} /\ f.pc = "post"
             /\ f.mode \in {"MAIN", "SUB"} /\ onBoot /\ g \in FramesOf(t)
             /\ \/ Moves(t, <<g>>) /\ HeldBy({g}, {f})
                \/ Moves(t, <<Done, g>>) /\ HeldBy({Done, g}, {f})
             /\ StackOK' /\ QueueOK'
<1> DEFINE f == Top(t)
           g == [f EXCEPT !.pc = "current"]
<1>1. /\ f \in FramesOf(t) /\ f.fn \in {"change", "trigger"} /\ f.pc = "post"
      /\ f.mode \in {"MAIN", "SUB"} /\ onBoot /\ queue' = queue
  BY TopFacts DEF ShowOnBootAnimation
<1>2. g \in FramesOf(t) /\ Done \in FramesOf(t)
  BY <1>1, ShowGoto, NewFrames
<1>3. Goto(t, "current") \/ Call(t, <<Done>>, "current")
  BY DEF ShowOnBootAnimation
<1>4. Moves(t, <<g>>) \/ Moves(t, <<Done, g>>)
  BY <1>2, <1>3, GotoMoves, CallMoves1
<1> QED
  BY <1>1, <1>2, <1>4, HeldMoves

\* The work of a change that is posted to the runner
OffOnTask(t) == Frame("offOn", "off", Top(t).mode, FALSE)
OnMainTask(t) == Frame("onMain", "on", "COORDINATION", Top(t).flag)
OnSubTask(t) == Frame("onSub", "on", "COORDINATION", Top(t).flag)

LEMMA OffOnEffect ==
  ASSUME StackOK, QueueOK, NEW t \in Threads, stack[t] # <<>>, PostOffOn(t)
  PROVE  LET f == Top(t)
             g == [f EXCEPT !.pc = "nodes"]
             k == OffOnTask(t)
         IN  /\ f \in FramesOf(t) /\ f.fn \in {"change", "trigger"} /\ f.pc = "post"
             /\ f.mode \in {"MAIN", "SUB"} /\ ~onBoot /\ g \in FramesOf(t)
             /\ PostsTask(t, k, g) /\ HeldBy({k, g}, {f}) /\ k \in Tasks
             /\ StackOK' /\ QueueOK'
<1> DEFINE f == Top(t)
           g == [f EXCEPT !.pc = "nodes"]
           k == OffOnTask(t)
<1>1. /\ f \in FramesOf(t) /\ f.fn \in {"change", "trigger"} /\ f.pc = "post"
      /\ f.mode \in {"MAIN", "SUB"} /\ ~onBoot
  BY TopFacts DEF PostOffOn
<1>2. g \in FramesOf(t) /\ k \in Tasks \cap FramesOf("runner")
  BY <1>1, ShowGoto, TaskFrames DEF OffOnTask
<1>3. PostTask(t, k, "nodes")
  BY DEF PostOffOn, OffOnTask
<1>4. PostsTask(t, k, g)
  BY <1>2, <1>3, PostTaskPosts
<1> QED
  BY <1>1, <1>2, <1>4, HeldPosts

LEMMA ReadEffect ==
  ASSUME StackOK, QueueOK, DataOK, NEW t \in Threads, stack[t] # <<>>, ReadScreenOn(t)
  PROVE  LET f == Top(t)
             g == [f EXCEPT !.pc = "postMain", !.flag = deviceOn]
         IN  /\ f \in FramesOf(t) /\ f.fn = "change" /\ f.pc = "post"
             /\ f.mode = "COORDINATION" /\ g \in FramesOf(t)
             /\ Moves(t, <<g>>) /\ HeldBy({g}, {f})
             /\ StackOK' /\ QueueOK'
<1> DEFINE f == Top(t)
           g == [f EXCEPT !.pc = "postMain", !.flag = deviceOn]
<1>1. /\ f \in FramesOf(t) /\ f.fn = "change" /\ f.pc = "post" /\ f.mode = "COORDINATION"
      /\ deviceOn \in BOOLEAN /\ queue' = queue
  BY TopFacts DEF ReadScreenOn, DataOK
<1>2. g \in FramesOf(t)
  BY <1>1, ShowGoto
<1>3. Moves(t, <<g>>)
  BY DEF ReadScreenOn, Moves, Rest
<1> QED
  BY <1>1, <1>2, <1>3, HeldMoves

LEMMA OnMainEffect ==
  ASSUME StackOK, QueueOK, NEW t \in Threads, stack[t] # <<>>, PostOnMain(t)
  PROVE  LET f == Top(t)
             g == [f EXCEPT !.pc = "postSub"]
             k == OnMainTask(t)
         IN  /\ f \in FramesOf(t) /\ f.fn = "change" /\ f.pc = "postMain"
             /\ f.mode = "COORDINATION" /\ g \in FramesOf(t)
             /\ PostsTask(t, k, g) /\ HeldBy({k, g}, {f}) /\ k \in Tasks
             /\ StackOK' /\ QueueOK'
<1> DEFINE f == Top(t)
           g == [f EXCEPT !.pc = "postSub"]
           k == OnMainTask(t)
<1>1. f \in FramesOf(t) /\ f.fn = "change" /\ f.pc = "postMain"
  BY TopFacts DEF PostOnMain, At
<1>2. f.mode = "COORDINATION" /\ f.flag \in BOOLEAN
  BY <1>1 DEF FramesOf, FrameOK, ModeFits, FrameType
<1>3. g \in FramesOf(t) /\ k \in Tasks \cap FramesOf("runner")
  BY <1>1, <1>2, ShowGoto, TaskFrames DEF OnMainTask
<1>4. PostTask(t, k, "postSub")
  BY DEF PostOnMain, OnMainTask
<1>5. PostsTask(t, k, g)
  BY <1>3, <1>4, PostTaskPosts
<1> QED
  BY <1>1, <1>2, <1>3, <1>5, HeldPosts

LEMMA OnSubEffect ==
  ASSUME StackOK, QueueOK, NEW t \in Threads, stack[t] # <<>>, PostOnSub(t)
  PROVE  LET f == Top(t)
             g == [f EXCEPT !.pc = "nodes"]
             k == OnSubTask(t)
         IN  /\ f \in FramesOf(t) /\ f.fn = "change" /\ f.pc = "postSub"
             /\ f.mode = "COORDINATION" /\ g \in FramesOf(t)
             /\ PostsTask(t, k, g) /\ HeldBy({k, g}, {f}) /\ k \in Tasks
             /\ StackOK' /\ QueueOK'
<1> DEFINE f == Top(t)
           g == [f EXCEPT !.pc = "nodes"]
           k == OnSubTask(t)
<1>1. f \in FramesOf(t) /\ f.fn = "change" /\ f.pc = "postSub"
  BY TopFacts DEF PostOnSub, At
<1>2. f.mode = "COORDINATION" /\ f.flag \in BOOLEAN
  BY <1>1 DEF FramesOf, FrameOK, ModeFits, FrameType
<1>3. g \in FramesOf(t) /\ k \in Tasks \cap FramesOf("runner")
  BY <1>1, <1>2, ShowGoto, TaskFrames DEF OnSubTask
<1>4. PostTask(t, k, "nodes")
  BY DEF PostOnSub, OnSubTask
<1>5. PostsTask(t, k, g)
  BY <1>3, <1>4, PostTaskPosts
<1> QED
  BY <1>1, <1>2, <1>3, <1>5, HeldPosts

LEMMA PostNothingEffect ==
  ASSUME StackOK, QueueOK, NEW t \in Threads, stack[t] # <<>>, PostNothing(t)
  PROVE  LET f == Top(t)
             g == [f EXCEPT !.pc = "current"]
         IN  /\ f \in FramesOf(t) /\ f.fn \in {"change", "trigger"} /\ f.pc = "post"
             /\ f.mode \in {"UNKNOWN", "FULL"} /\ g \in FramesOf(t)
             /\ Moves(t, <<g>>) /\ HeldBy({g}, {f})
             /\ StackOK' /\ QueueOK'
<1> DEFINE f == Top(t)
           g == [f EXCEPT !.pc = "current"]
<1>1. /\ f \in FramesOf(t) /\ f.fn \in {"change", "trigger"} /\ f.pc = "post" /\ queue' = queue
      /\ \/ f.mode \in {"UNKNOWN", "FULL"}
         \/ f.fn = "trigger" /\ f.mode = "COORDINATION"
  BY TopFacts DEF PostNothing
<1>2. f.mode \in {"UNKNOWN", "FULL"}
  BY <1>1 DEF FramesOf, FrameOK, ModeFits
<1>3. g \in FramesOf(t) /\ Moves(t, <<g>>)
  BY <1>1, ShowGoto, GotoMoves DEF PostNothing
<1> QED
  BY <1>1, <1>2, <1>3, HeldMoves

LEMMA FinishEffect ==
  ASSUME StackOK, QueueOK, NEW t \in Threads, Finish(t)
  PROVE  LET f == Top(t)
         IN  /\ stack[t] # <<>> /\ f \in FramesOf(t) /\ f.fn \in {"change", "trigger"}
             /\ f.pc \in {"nodes", "current"}
             /\ \/ f.fn = "change" /\ current' = f.mode /\ Moves(t, <<Done>>) /\ HeldBy({Done}, {f})
                \/ f.fn = "trigger" /\ current' = current /\ Moves(t, <<>>) /\ HeldBy({}, {f})
             /\ StackOK' /\ QueueOK'
<1> DEFINE f == Top(t)
<1>1. /\ stack[t] # <<>> /\ f \in FramesOf(t) /\ f.fn \in {"change", "trigger"}
      /\ f.pc \in {"nodes", "current"} /\ queue' = queue /\ Done \in FramesOf(t)
  BY TopFacts, NewFrames DEF Finish
<1>2. CASE f.fn = "change"
  <2>1. current' = f.mode /\ Moves(t, <<Done>>)
    BY <1>1, <1>2, ReturnByMoves DEF Finish
  <2> QED
    BY <1>1, <1>2, <2>1, HeldMoves
<1>3. CASE f.fn = "trigger"
  <2>1. current' = current /\ Moves(t, <<>>)
    BY <1>1, <1>3, ReturnMoves DEF Finish
  <2> QED
    BY <1>1, <1>3, <2>1, HeldMoves
<1> QED
  BY <1>1, <1>2, <1>3

LEMMA TakeTaskEffect ==
  ASSUME StackOK, QueueOK, TakeTask
  PROVE  /\ stack["runner"] = <<>> /\ queue # <<>> /\ queue' = Tail(queue)
         /\ Head(queue).fn # "panel" /\ Head(queue) \in FramesOf("runner")
         /\ Moves("runner", <<Head(queue)>>)
         /\ HeldBy({}, {}) /\ Held' = Held /\ StackOK' /\ QueueOK'
<1> DEFINE r == "runner"
           k == Head(queue)
<1>0. r \in Threads
  BY DEF Threads
<1>1. stack[r] = <<>> /\ queue # <<>> /\ queue' = Tail(queue) /\ k.fn # "panel"
      /\ stack' = [stack EXCEPT ![r] = <<k>>]
  BY DEF TakeTask, Idle
<1>2. /\ k \in Tasks /\ k \in FramesOf(r) /\ QueueOK'
      /\ {queue[i] : i \in DOMAIN queue} = {queue'[i] : i \in DOMAIN queue'} \cup {k}
  BY <1>1, QueueTail, TaskFrames
<1>3. Moves(r, <<k>>)
  <2>1. Begin(r, <<k>>) /\ <<k>> \in Seq(FramesOf(r))
    BY <1>1, <1>2 DEF Begin
  <2> QED
    BY <1>0, <2>1, BeginMoves
<1>4. StackOK' /\ Trades(r, {k})
  BY <1>0, <1>2, <1>3, Moves1
<1>5. Frames(r) = {} /\ Frames(r)' = {k}
  BY <1>0, <1>1, <1>4, RestFacts DEF Trades
<1>6. \A u \in Threads \ {r} : Frames(u)' = Frames(u)
  BY <1>4 DEF Trades
<1>7. Held' = Held
  <2>1. UNION {Frames(u) : u \in Threads} = UNION {Frames(u) : u \in Threads \ {r}}
    BY <1>5
  <2>2. UNION {Frames(u)' : u \in Threads} = (UNION {Frames(u) : u \in Threads \ {r}}) \cup {k}
    BY <1>0, <1>5, <1>6
  <2> QED
    BY <1>2, <2>1, <2>2 DEF Held
<1> QED
  BY <1>1, <1>2, <1>3, <1>4, <1>7 DEF HeldBy

LEMMA TurnOffEffect ==
  ASSUME StackOK, QueueOK, TurnOff
  PROVE  LET f == Top("runner")
             g == [f EXCEPT !.pc = "on"]
         IN  /\ stack["runner"] # <<>> /\ f \in FramesOf("runner") /\ f.fn = "offOn" /\ f.pc = "off"
             /\ g \in FramesOf("runner") /\ Moves("runner", <<Done, g>>)
             /\ HeldBy({Done, g}, {f}) /\ StackOK' /\ QueueOK'
<1> DEFINE r == "runner"
           f == Top(r)
           g == [f EXCEPT !.pc = "on"]
<1>0. r \in Threads
  BY DEF Threads
<1>1. stack[r] # <<>> /\ f \in FramesOf(r) /\ f.fn = "offOn" /\ f.pc = "off" /\ queue' = queue
  BY <1>0, TopFacts DEF TurnOff, At
<1>2. g \in FramesOf(r) /\ Done \in FramesOf(r)
  <2>1. g \in FramesOf(r)
    BY <1>0, <1>1 DEF FramesOf, FrameOK, FrameType, ModeFits, PcsOf, Labels
  <2> QED
    BY <1>0, <2>1, NewFrames
<1>3. Call(r, <<Done>>, "on")
  BY DEF TurnOff, OffCounted
<1>4. Moves(r, <<Done, g>>)
  BY <1>0, <1>1, <1>2, <1>3, CallMoves1
<1> QED
  BY <1>0, <1>1, <1>2, <1>4, HeldMoves

LEMMA TurnOnEffect ==
  ASSUME StackOK, QueueOK, TurnOn \/ TurnOnMain \/ TurnOnSub
  PROVE  LET f == Top("runner")
         IN  /\ stack["runner"] # <<>> /\ f \in FramesOf("runner") /\ f \in Frames("runner")
             /\ TurnOn => f.fn = "offOn" /\ f.pc = "on"
             /\ TurnOnMain => f.fn = "onMain"
             /\ TurnOnSub => f.fn = "onSub"
             /\ Moves("runner", <<Done>>)
             /\ HeldBy({Done}, {f}) /\ StackOK' /\ QueueOK'
<1> DEFINE r == "runner"
           f == Top(r)
<1>0. r \in Threads
  BY DEF Threads
<1>1. /\ stack[r] # <<>> /\ f \in FramesOf(r) /\ f \in Frames(r) /\ queue' = queue
      /\ TurnOn => f.fn = "offOn" /\ f.pc = "on"
      /\ TurnOnMain => f.fn = "onMain"
      /\ TurnOnSub => f.fn = "onSub"
      /\ ReturnBy(r, <<Done>>)
  BY <1>0, TopFacts DEF TurnOn, TurnOnMain, TurnOnSub, At
<1>2. Done \in FramesOf(r)
  BY <1>0, NewFrames
<1>3. Moves(r, <<Done>>)
  BY <1>0, <1>1, ReturnByMoves
<1> QED
  BY <1>0, <1>1, <1>2, <1>3, HeldMoves

\* The power calls
PowerFrame(fn, pc) == Frame(fn, pc, "UNKNOWN", fn = "resume")

LEMMA PowerFrames ==
  /\ PowerFrame("suspend", "exit") \in FramesOf("power")
  /\ PowerFrame("suspend", "panel") \in FramesOf("power")
  /\ PowerFrame("resume", "panel") \in FramesOf("power")
  /\ \A f \in FramesOf("power") :
       f.fn \in {"suspend", "resume"} =>
         /\ [f EXCEPT !.pc = "wait"] \in FramesOf("power")
         /\ f.fn = "suspend" => /\ [f EXCEPT !.pc = "panel"] \in FramesOf("power")
                                /\ [f EXCEPT !.pc = "recover"] \in FramesOf("power")
                                /\ [f EXCEPT !.pc = "exitMode"] \in FramesOf("power")
<1> USE DEF Frame, FramesOf, FrameOK, FrameType, ModeFits, Calls, Labels, Modes, PowerFrame
<1>1. {"suspend", "resume"} \subseteq CallsOf("power")
  BY DEF CallsOf
<1>2. \A f \in FramesOf("power") :
        f.fn \in {"suspend", "resume"} =>
          /\ [f EXCEPT !.pc = "wait"] \in FramesOf("power")
          /\ f.fn = "suspend" => /\ [f EXCEPT !.pc = "panel"] \in FramesOf("power")
                                 /\ [f EXCEPT !.pc = "recover"] \in FramesOf("power")
                                 /\ [f EXCEPT !.pc = "exitMode"] \in FramesOf("power")
  BY DEF PcsOf
<1>3. /\ PowerFrame("suspend", "exit") \in FramesOf("power")
      /\ PowerFrame("suspend", "panel") \in FramesOf("power")
      /\ PowerFrame("resume", "panel") \in FramesOf("power")
  BY <1>1 DEF PcsOf
<1> QED
  BY <1>2, <1>3

LEMMA PowerKeyEffect ==
  ASSUME StackOK, QueueOK, PowerOff \/ PowerOn
  PROVE  \E g \in FramesOf("power") :
           /\ PowerOff => g = PowerFrame("suspend", IF last = "COORDINATION" THEN "exit" ELSE "panel")
           /\ PowerOn => g = PowerFrame("resume", "panel")
           /\ stack["power"] = <<>> /\ Moves("power", <<g>>) /\ HeldBy({g}, {})
           /\ StackOK' /\ QueueOK'
<1>0. "power" \in Threads
  BY DEF Threads
<1> DEFINE s == PowerFrame("suspend", IF last = "COORDINATION" THEN "exit" ELSE "panel")
           r == PowerFrame("resume", "panel")
<1>1. s \in FramesOf("power") /\ r \in FramesOf("power") /\ queue' = queue
  BY PowerFrames DEF PowerOff, PowerOn
<1>2. (PowerOff => Begin("power", <<s>>)) /\ (PowerOn => Begin("power", <<r>>))
      /\ ~(PowerOff /\ PowerOn)
  BY DEF PowerOff, PowerOn, PowerFrame
<1> HIDE DEF s, r
<1>3. CASE PowerOff
  BY <1>0, <1>1, <1>2, <1>3, HeldBegin DEF s
<1>4. CASE PowerOn
  BY <1>0, <1>1, <1>2, <1>4, HeldBegin DEF r
<1> QED
  BY <1>3, <1>4

LEMMA PostPanelEffect ==
  ASSUME StackOK, QueueOK, PostPanel
  PROVE  LET f == Top("power")
             g == [f EXCEPT !.pc = "wait"]
             k == Frame("panel", "set", "UNKNOWN", f.flag)
         IN  /\ stack["power"] # <<>> /\ f \in FramesOf("power") /\ f \in Frames("power")
             /\ f.fn \in {"suspend", "resume"} /\ f.pc = "panel" /\ g \in FramesOf("power")
             /\ k \in Tasks /\ queue' = Append(queue, k) /\ Moves("power", <<g>>)
             /\ HeldBy({k, g}, {f}) /\ StackOK' /\ QueueOK'
<1> DEFINE f == Top("power")
           g == [f EXCEPT !.pc = "wait"]
           k == Frame("panel", "set", "UNKNOWN", f.flag)
<1>0. "power" \in Threads
  BY DEF Threads
<1>1. /\ stack["power"] # <<>> /\ f \in FramesOf("power") /\ f \in Frames("power") /\ f.pc = "panel"
      /\ queue' = Append(queue, k) /\ Goto("power", "wait")
  BY <1>0, TopFacts DEF PostPanel
<1>2. f.fn \in {"suspend", "resume"} /\ f.flag \in BOOLEAN
  BY <1>1 DEF FramesOf, FrameOK, FrameType, PcsOf, Calls
<1>3. k \in Tasks /\ g \in FramesOf("power")
  BY <1>1, <1>2, TaskFrames, PowerFrames
<1>4. Moves("power", <<g>>)
  BY <1>0, <1>1, GotoMoves
<1>5. PostsTask("power", k, g)
  BY <1>1, <1>4 DEF PostsTask
<1> QED
  BY <1>0, <1>1, <1>2, <1>3, <1>4, <1>5, HeldPosts

\* A call to set the panel waits for its task, and for nothing else.
PanelOK ==
  \A i \in DOMAIN queue : queue[i].fn = "panel" =>
    /\ stack["power"] # <<>> /\ Top("power").pc = "wait"
    /\ queue[i].flag = (Top("power").fn = "resume")
    /\ \A j \in DOMAIN queue : queue[j].fn = "panel" => j = i
\* Power calls, the boot and its trigger call nothing while they are there.
Lone(f) == f.fn \in {"suspend", "resume", "boot", "trigger"}
LoneOK ==
  \A t \in Threads : \A f \in Frames(t) :
    Lone(f) => Len(stack[t]) = 1 /\ (f.fn = "trigger" => ~onBoot)

LEMMA SetPanelEffect ==
  ASSUME StackOK, QueueOK, PanelOK, SetPanel
  PROVE  LET f == Top("power")
             g == [f EXCEPT !.pc = "recover"]
             k == Head(queue)
         IN  /\ stack["runner"] = <<>> /\ stack["power"] # <<>>
             /\ f \in FramesOf("power") /\ f \in Frames("power")
             /\ f.pc = "wait" /\ f.fn \in {"suspend", "resume"} /\ queue' = Tail(queue)
             /\ k.fn = "panel" /\ k.flag = (f.fn = "resume")
             /\ \A i \in DOMAIN queue' : queue'[i].fn # "panel"
             /\ \/ f.fn = "resume" /\ Moves("power", <<>>) /\ HeldBy({}, {k, f})
                \/ /\ f.fn = "suspend" /\ g \in FramesOf("power") /\ Moves("power", <<g>>)
                   /\ HeldBy({g}, {k, f})
             /\ StackOK' /\ QueueOK'
<1> DEFINE p == "power"
           f == Top(p)
           g == [f EXCEPT !.pc = "recover"]
           k == Head(queue)
<1>0. p \in Threads
  BY DEF Threads
<1>1. stack["runner"] = <<>> /\ queue # <<>> /\ k.fn = "panel" /\ queue' = Tail(queue)
  BY DEF SetPanel, Idle
<1>2. /\ QueueOK' /\ 1 \in DOMAIN queue /\ queue[1] = k /\ k \in Tasks
      /\ {queue[i] : i \in DOMAIN queue} = {queue'[i] : i \in DOMAIN queue'} \cup {k}
      /\ \A i \in DOMAIN queue' : /\ i + 1 \in DOMAIN queue /\ queue'[i] = queue[i + 1]
                                  /\ i \in Nat \ {0}
  BY <1>1, QueueTail
<1>3. /\ stack[p] # <<>> /\ f.pc = "wait" /\ k.flag = (f.fn = "resume")
      /\ \A j \in DOMAIN queue : queue[j].fn = "panel" => j = 1
  BY <1>1, <1>2 DEF PanelOK
<1>4. f \in FramesOf(p) /\ f \in Frames(p)
  BY <1>0, <1>3, TopFacts
<1>5. f.fn \in {"suspend", "resume"}
  BY <1>3, <1>4 DEF FramesOf, FrameOK, FrameType, PcsOf, Calls
<1>6. \A i \in DOMAIN queue' : queue'[i].fn # "panel"
  <2>1. \A i \in Nat \ {0} : i + 1 # 1
    OBVIOUS
  <2> QED
    BY <1>2, <1>3, <2>1
<1>7. ASSUME NEW A, Trades(p, A)
      PROVE  HeldBy(A, {k, f})
  <2>1. Frames(p)' = A \cup RestFrames(p) /\ Frames(p) = {f} \cup RestFrames(p)
    BY <1>0, <1>3, <1>7, TopFacts DEF Trades
  <2>2. \A u \in Threads \ {p} : Frames(u)' = Frames(u)
    BY <1>7 DEF Trades
  <2>3. Held' \subseteq Held \cup A
    BY <1>2, <2>1, <2>2 DEF Held
  <2>4. A \subseteq Held'
    BY <1>0, <2>1 DEF Held
  <2>5. Held \subseteq Held' \cup {k, f}
    BY <1>2, <2>1, <2>2 DEF Held
  <2> QED
    BY <2>3, <2>4, <2>5 DEF HeldBy
<1>8. CASE f.fn = "resume"
  <2>1. Moves(p, <<>>)
    BY <1>0, <1>3, <1>8, ReturnMoves DEF SetPanel
  <2>2. StackOK' /\ Trades(p, {})
    BY <1>0, <2>1, Moves0
  <2> QED
    BY <1>1, <1>2, <1>3, <1>4, <1>5, <1>6, <1>7, <1>8, <2>1, <2>2
<1>9. CASE f.fn = "suspend"
  <2>1. Goto(p, "recover") /\ g \in FramesOf(p)
    BY <1>4, <1>9, PowerFrames DEF SetPanel
  <2>2. Moves(p, <<g>>)
    BY <1>0, <1>3, <2>1, GotoMoves
  <2>3. StackOK' /\ Trades(p, {g})
    BY <1>0, <2>1, <2>2, Moves1
  <2> QED
    BY <1>1, <1>2, <1>3, <1>4, <1>5, <1>6, <1>7, <1>9, <2>1, <2>2, <2>3
<1> QED
  BY <1>5, <1>8, <1>9

LEMMA RecoverEffect ==
  ASSUME StackOK, QueueOK, DataOK, RecoverDisplayMode
  PROVE  LET f == Top("power")
             c == Change(GetModeMatchStatus)
         IN  /\ stack["power"] # <<>> /\ f \in FramesOf("power") /\ f \in Frames("power")
             /\ f.fn = "suspend" /\ f.pc = "recover" /\ c \in Dull \cap FramesOf("power")
             /\ \/ Moves("power", <<>>) /\ HeldBy({}, {f})
                \/ Moves("power", <<c>>) /\ HeldBy({c}, {f})
             /\ StackOK' /\ QueueOK'
<1> DEFINE p == "power"
           f == Top(p)
           c == Change(GetModeMatchStatus)
<1>0. p \in Threads
  BY DEF Threads
<1>1. /\ stack[p] # <<>> /\ f \in FramesOf(p) /\ f \in Frames(p) /\ f.fn = "suspend" /\ f.pc = "recover"
      /\ queue' = queue
  BY <1>0, TopFacts DEF RecoverDisplayMode, At
<1>2. c \in Dull \cap FramesOf(p)
  BY <1>0, NewFrames, ModeOfType
<1>3. Return(p) \/ ReturnBy(p, <<c>>)
  BY DEF RecoverDisplayMode
<1>4. Moves(p, <<>>) \/ Moves(p, <<c>>)
  BY <1>0, <1>1, <1>3, ReturnMoves, ReturnByMoves
<1> QED
  BY <1>0, <1>1, <1>2, <1>4, HeldMoves

\* The exit of the coordination mode
LEMMA ExitSubEffect ==
  ASSUME StackOK, QueueOK, NEW t \in Threads, ExitSub(t)
  PROVE  LET f == Top(t)
             g == [f EXCEPT !.pc = "exitMode"]
         IN  /\ stack[t] # <<>> /\ f \in FramesOf(t) /\ f \in Frames(t)
             /\ f.fn \in {"suspend", "cast"} /\ f.pc = "exit" /\ g \in FramesOf(t)
             /\ Moves(t, <<g>>) /\ HeldBy({g}, {f}) /\ StackOK' /\ QueueOK'
<1> DEFINE f == Top(t)
           g == [f EXCEPT !.pc = "exitMode"]
<1>1. stack[t] # <<>> /\ f \in FramesOf(t) /\ f \in Frames(t) /\ f.pc = "exit" /\ queue' = queue
  BY TopFacts DEF ExitSub
<1>2. f.fn \in {"suspend", "cast"}
  BY <1>1 DEF FramesOf, FrameOK, FrameType, PcsOf, Calls
<1>3. g \in FramesOf(t)
  BY <1>1, <1>2 DEF FramesOf, FrameOK, FrameType, ModeFits, PcsOf, Labels
<1>4. Moves(t, <<g>>)
  BY <1>1, GotoMoves DEF ExitSub
<1> QED
  BY <1>1, <1>2, <1>3, <1>4, HeldMoves

LEMMA ExitModeEffect ==
  ASSUME StackOK, QueueOK, NEW t \in Threads, ExitMode(t)
  PROVE  LET f == Top(t)
             g == [f EXCEPT !.pc = "panel"]
         IN  /\ stack[t] # <<>> /\ f \in FramesOf(t) /\ f \in Frames(t)
             /\ f.fn \in {"suspend", "cast"} /\ f.pc = "exitMode"
             /\ \/ /\ f.fn = "suspend" /\ g \in FramesOf(t) /\ Moves(t, <<g>>)
                   /\ HeldBy({g}, {f})
                \/ f.fn = "cast" /\ Moves(t, <<>>) /\ HeldBy({}, {f})
             /\ StackOK' /\ QueueOK'
<1> DEFINE f == Top(t)
           g == [f EXCEPT !.pc = "panel"]
<1>1. stack[t] # <<>> /\ f \in FramesOf(t) /\ f \in Frames(t) /\ f.pc = "exitMode" /\ queue' = queue
  BY TopFacts DEF ExitMode
<1>2. f.fn \in {"suspend", "cast"}
  BY <1>1 DEF FramesOf, FrameOK, FrameType, PcsOf, Calls
<1>3. CASE f.fn = "suspend"
  <2>1. g \in FramesOf(t)
    BY <1>1, <1>3 DEF FramesOf, FrameOK, FrameType, ModeFits, PcsOf, Labels
  <2>2. Moves(t, <<g>>)
    BY <1>1, <1>3, GotoMoves DEF ExitMode
  <2> QED
    BY <1>1, <1>2, <1>3, <2>1, <2>2, HeldMoves
<1>4. CASE f.fn = "cast"
  <2>1. Moves(t, <<>>)
    BY <1>1, <1>4, ReturnMoves DEF ExitMode
  <2> QED
    BY <1>1, <1>2, <1>4, <2>1, HeldMoves
<1> QED
  BY <1>2, <1>3, <1>4

\* The end of the boot
BootFrame == Frame("boot", "recover", "UNKNOWN", FALSE)
Trigger == Frame("trigger", "post", GetModeMatchStatus, FALSE)

LEMMA PowerInitEffect ==
  ASSUME StackOK, QueueOK, PowerInit
  PROVE  /\ stack["boot"] = <<>> /\ BootFrame \in FramesOf("boot")
         /\ Moves("boot", <<BootFrame>>) /\ HeldBy({BootFrame}, {}) /\ StackOK' /\ QueueOK'
<1>1. "boot" \in Threads
  BY DEF Threads
<1>2. "boot" \in CallsOf("boot")
  BY DEF CallsOf
<1>3. BootFrame \in FramesOf("boot")
  BY <1>2 DEF BootFrame, Frame, FramesOf, FrameOK, FrameType, ModeFits, PcsOf, Calls, Labels, Modes
<1>4. Begin("boot", <<BootFrame>>) /\ queue' = queue
  BY DEF PowerInit, BootFrame
<1> QED
  BY <1>1, <1>3, <1>4, HeldBegin

LEMMA BootExitEffect ==
  ASSUME StackOK, QueueOK, DataOK, RecoverWhenBootAnimationExit
  PROVE  LET f == Top("boot")
             c == Change(GetModeMatchStatus)
         IN  /\ stack["boot"] # <<>> /\ f \in FramesOf("boot") /\ f \in Frames("boot")
             /\ f.fn = "boot" /\ c \in Dull \cap FramesOf("boot") /\ Trigger \in FramesOf("boot")
             /\ \/ Moves("boot", <<c>>) /\ HeldBy({c}, {f})
                \/ /\ current = GetModeMatchStatus
                   /\ Moves("boot", <<Trigger>>) /\ HeldBy({Trigger}, {f})
             /\ StackOK' /\ QueueOK'
<1> DEFINE b == "boot"
           f == Top(b)
           c == Change(GetModeMatchStatus)
<1>0. b \in Threads
  BY DEF Threads
<1>1. /\ stack[b] # <<>> /\ f \in FramesOf(b) /\ f \in Frames(b) /\ f.fn = "boot" /\ queue' = queue
  BY <1>0, TopFacts DEF RecoverWhenBootAnimationExit, At
<1>2. c \in Dull \cap FramesOf(b)
  BY <1>0, NewFrames, ModeOfType
<1>3. Trigger \in FramesOf(b)
  <2>1. GetModeMatchStatus \in Modes \ {"COORDINATION"} /\ "trigger" \in CallsOf(b)
    BY ModeOfType DEF CallsOf
  <2> QED
    BY <2>1 DEF Trigger, Frame, FramesOf, FrameOK, FrameType, ModeFits, PcsOf, Calls, Labels
<1>4. \/ ReturnBy(b, <<c>>)
      \/ current = GetModeMatchStatus /\ ReturnBy(b, <<Trigger>>)
  BY DEF RecoverWhenBootAnimationExit, Trigger
<1>5. Moves(b, <<c>>) \/ (current = GetModeMatchStatus /\ Moves(b, <<Trigger>>))
  BY <1>0, <1>1, <1>4, ReturnByMoves
<1> QED
  BY <1>0, <1>1, <1>2, <1>3, <1>5, HeldMoves

-----------------------------------------------------------------------------
(* The type invariant.                                                     *)

TypeInv == StackOK /\ QueueOK /\ DataOK /\ PanelOK /\ LoneOK

\* The steps that are not aside
Posts(t) ==
  /\ stack[t] # <<>>
  /\ PostOffOn(t) \/ ReadScreenOn(t) \/ PostOnMain(t) \/ PostOnSub(t) \/ PostNothing(t)
Shown ==
  \/ \E t \in Threads : \/ Starts(t)
                        \/ stack[t] # <<>> /\ ShowOnBootAnimation(t)
                        \/ Posts(t)
                        \/ Finish(t)
  \/ TakeTask \/ TurnOff \/ TurnOn \/ TurnOnMain \/ TurnOnSub
Powered ==
  \/ \E t \in Threads : ExitSub(t) \/ ExitMode(t)
  \/ PowerOff \/ PowerOn \/ PostPanel \/ SetPanel \/ RecoverDisplayMode
  \/ PowerInit \/ RecoverWhenBootAnimationExit

LEMMA NextCases ==
  ASSUME StackOK, QueueOK, DataOK, Next
  PROVE  Aside \/ Shown \/ Powered
<1>1. ASSUME NEW t \in Threads, Step(t)
      PROVE  Aside \/ Shown \/ Powered
  <2>1. CASE \/ SetLastCacheDisplayMode(t) \/ TestRunning(t) \/ CountDown(t) \/ TestCount(t)
             \/ CompareWithCache(t) \/ EndHandleSensorChange(t) \/ LeaveTent(t)
    BY <2>1, CallAside
  <2>2. CASE Start(t)
    BY <2>2, StartEffect DEF Shown
  <2>3. CASE PostWork(t)
    BY <2>3 DEF PostWork, Shown, Posts
  <2>4. CASE Finish(t) \/ ExitSub(t) \/ ExitMode(t)
    BY <2>4 DEF Shown, Powered
  <2>5. CASE \E s \in Reports : HandleReport(t, s)
    BY <2>5, ReportAside, DualFoldAssumption DEF DualFoldAssumption
  <2> QED
    BY <1>1, <2>1, <2>2, <2>3, <2>4, <2>5 DEF Step
<1>2. CASE RunnerStep \/ PowerStep \/ RecoverWhenBootAnimationExit
  BY <1>2 DEF RunnerStep, PowerStep, Shown, Powered
<1>3. CASE TentStep
  BY <1>3, TentAside
<1>4. CASE Environment
  BY <1>4, EventAside DEF Environment, Powered
<1> QED
  BY <1>1, <1>2, <1>3, <1>4 DEF Next

LEMMA LoneFacts ==
  ASSUME StackOK, LoneOK, NEW t \in Threads
  PROVE  /\ \A f \in Frames(t) : Lone(f) => f = Top(t) /\ stack[t] # <<>> /\ Len(Rest(t)) = 0
         /\ \A f \in RestFrames(t) : ~Lone(f)
<1>1. ASSUME NEW f \in Frames(t), Lone(f)
      PROVE  stack[t] # <<>> /\ Len(Rest(t)) = 0 /\ RestFrames(t) = {} /\ f = Top(t)
  <2>1. Len(stack[t]) = 1
    BY <1>1 DEF LoneOK
  <2>2. stack[t] # <<>>
    BY <1>1, RestFacts
  <2>3. Len(Rest(t)) = 0
    BY <2>1, <2>2, RestFacts
  <2>4. RestFrames(t) = {}
    <3>1. Rest(t) \in Seq(FramesOf(t))
      BY RestFacts
    <3>2. Rest(t) = <<>>
      BY <2>3, <3>1
    <3> QED
      BY <3>2 DEF RestFrames
  <2> QED
    BY <1>1, <2>2, <2>3, <2>4, TopFacts
<1> QED
  BY <1>1, RestFacts

LEMMA LoneKept ==
  ASSUME StackOK, LoneOK, NEW t \in Threads, NEW A, Trades(t, A), onBoot' => onBoot,
         \A f \in A : Lone(f) => Len(stack'[t]) = 1 /\ (f.fn = "trigger" => ~onBoot')
  PROVE  LoneOK'
<1>1. ASSUME NEW f \in Frames(t)', Lone(f)
      PROVE  Len(stack'[t]) = 1 /\ (f.fn = "trigger" => ~onBoot')
  <2>1. f \in A
    BY <1>1, LoneFacts DEF Trades
  <2> QED
    BY <1>1, <2>1
<1>2. ASSUME NEW u \in Threads \ {t}, NEW f \in Frames(u)', Lone(f)
      PROVE  Len(stack'[u]) = 1 /\ (f.fn = "trigger" => ~onBoot')
  BY <1>2 DEF Trades, LoneOK
<1> QED
  BY <1>1, <1>2 DEF LoneOK, Lone

LEMMA LoneKept1 ==
  ASSUME StackOK, LoneOK, NEW t \in Threads, NEW g, Trades(t, {g}), onBoot' => onBoot,
         Len(stack'[t]) = 1, g.fn # "trigger"
  PROVE  LoneOK'
<1>1. \A f \in {g} : Lone(f) => Len(stack'[t]) = 1 /\ (f.fn = "trigger" => ~onBoot')
  OBVIOUS
<1> QED
  BY <1>1, LoneKept

LEMMA PanelKept ==
  ASSUME QueueOK, PanelOK, NEW t \in Threads, NEW A, Trades(t, A),
         stack[t] # <<>> => Top(t).pc # "wait",
         \/ queue' = queue
         \/ \E k \in Tasks : k.fn # "panel" /\ queue' = Append(queue, k)
         \/ queue # <<>> /\ queue' = Tail(queue)
  PROVE  PanelOK'
<1>1. \A i \in DOMAIN queue : queue[i].fn = "panel" => stack'["power"] = stack["power"]
  BY DEF PanelOK, Trades, Threads
<1>2. CASE queue' = queue
  BY <1>1, <1>2 DEF PanelOK, Top
<1>3. CASE \E k \in Tasks : k.fn # "panel" /\ queue' = Append(queue, k)
  <2>1. \A i \in DOMAIN queue' : queue'[i].fn = "panel" =>
          i \in DOMAIN queue /\ queue'[i] = queue[i]
    <3>1. PICK k \in Tasks : k.fn # "panel" /\ queue' = Append(queue, k)
      BY <1>3
    <3>2. /\ \A i \in DOMAIN queue : queue'[i] = queue[i]
          /\ Len(queue) \in Nat /\ DOMAIN queue' = 1..(Len(queue) + 1) /\ DOMAIN queue = 1..Len(queue)
          /\ queue'[Len(queue) + 1] = k
      BY <3>1, QueueAppend DEF QueueOK
    <3>3. \A n \in Nat : \A i \in 1..(n + 1) : i \in 1..n \/ i = n + 1
      OBVIOUS
    <3>4. \A i \in DOMAIN queue' : i \in DOMAIN queue \/ i = Len(queue) + 1
      BY <3>2, <3>3
    <3> QED
      BY <3>1, <3>2, <3>4
  <2> QED
    BY <1>1, <2>1 DEF PanelOK, Top
<1>4. CASE queue # <<>> /\ queue' = Tail(queue)
  <2>1. \A i \in DOMAIN queue' : i \in Nat /\ i + 1 \in DOMAIN queue /\ queue'[i] = queue[i + 1]
    BY <1>4, QueueTail
  <2>2. ASSUME NEW i \in DOMAIN queue', queue'[i].fn = "panel",
               NEW j \in DOMAIN queue', queue'[j].fn = "panel"
        PROVE  j = i
    <3>1. /\ i + 1 \in DOMAIN queue /\ queue[i + 1].fn = "panel" /\ i \in Nat
          /\ j + 1 \in DOMAIN queue /\ queue[j + 1].fn = "panel" /\ j \in Nat
      BY <2>1, <2>2
    <3>2. i + 1 = j + 1
      BY <3>1 DEF PanelOK
    <3> QED
      BY <3>1, <3>2
  <2> QED
    BY <1>1, <2>1, <2>2 DEF PanelOK, Top
<1> QED
  BY <1>2, <1>3, <1>4

LEMMA SpendType ==
  ASSUME budget \in Budget,
         NEW k \in {"modes", "reports", "tents", "powers", "casts", "locks", "strays", "slow"},
         Spend(k)
  PROVE  budget' \in Budget
  BY DEF Spend, Budget

LEMMA CallData ==
  ASSUME StackOK, DataOK, NEW t \in Threads, Step(t)
  PROVE  DataOK'
<1> DEFINE f == Top(t)
<1> USE DEF modeVars, countVars, foldVars, bootVars, panelVars, powerVars, DataOK
<1>1. ASSUME stack[t] # <<>>
      PROVE  f.mode \in Modes /\ f.fn \in Calls
  BY <1>1, TopFacts DEF FramesOf, FrameType
<1>2. CASE SetLastCacheDisplayMode(t)
  <2>1. stack[t] # <<>>
    BY <1>2 DEF SetLastCacheDisplayMode, At
  <2> QED
    BY <1>1, <1>2, <2>1 DEF SetLastCacheDisplayMode
<1>3. CASE \/ TestRunning(t) \/ CountDown(t) \/ TestCount(t) \/ CompareWithCache(t)
           \/ EndHandleSensorChange(t) \/ LeaveTent(t)
  <2>1. /\ UNCHANGED <<modeVars, elapsed, status, locked, bootVars, panelVars, powerVars, budget>>
        /\ running' = running \/ running' = FALSE
        /\ tent' = tent \/ tent' = FALSE
        /\ pending' \in {pending, pending - 1}
    BY <1>3 DEF TestRunning, CountDown, TestCount, CompareWithCache, EndHandleSensorChange, LeaveTent
  <2>2. running' \in BOOLEAN /\ tent' \in BOOLEAN
    BY <2>1
  <2>3. pending' \in Int
    BY <2>1
  <2> QED
    BY <2>1, <2>2, <2>3
<1>4. CASE Start(t)
  <2>1. stack[t] # <<>>
    BY <1>4 DEF Start, At
  <2>2. /\ \/ UNCHANGED <<last, countVars>>
           \/ pending' = 3 /\ elapsed' = FALSE /\ running' = TRUE /\ last' = f.mode
        /\ UNCHANGED <<cache, current, wanted, foldVars, bootVars, panelVars, powerVars, budget>>
    BY <1>4 DEF Start
  <2>3. running' \in BOOLEAN /\ elapsed' \in BOOLEAN /\ last' \in Modes
    BY <1>1, <2>1, <2>2
  <2>4. pending' \in Int
    BY <2>2
  <2> QED
    BY <2>2, <2>3, <2>4
<1>5. CASE PostWork(t)
  <2>1. /\ UNCHANGED <<modeVars, countVars, foldVars, onBoot, subReady, scb, nodes, lit, powerVars,
                       budget>>
        /\ screenId' \in {screenId, "main", "sub"} /\ notices' \in {notices, notices + 1}
    BY <1>5 DEF PostWork, ShowOnBootAnimation, PostOffOn, ReadScreenOn, PostOnMain, PostOnSub,
       PostNothing, OnScreen
  <2> QED
    BY <2>1 DEF Screens
<1>6. CASE Finish(t)
  <2>1. /\ UNCHANGED <<cache, last, wanted, countVars, foldVars, bootVars, screenId, lit, powerVars,
                       budget>>
        /\ current' \in {current, f.mode} /\ nodes' \in {nodes, NodesAfter(f.mode)}
        /\ stack[t] # <<>>
    BY <1>6 DEF Finish
  <2>2. NodesAfter(f.mode) \subseteq Screens
    BY DEF NodesAfter, Screens, OnScreen, OffScreen
  <2> QED
    BY <1>1, <2>1, <2>2
<1>7. CASE ExitSub(t)
  BY <1>7 DEF ExitSub, SubOff
<1>8. CASE ExitMode(t)
  <2>1. GetModeMatchStatus \in Modes
    BY ModeOfType
  <2> QED
    BY <1>8, <2>1 DEF ExitMode, ModeOnExit
<1>9. CASE \E s \in Reports : HandleReport(t, s)
  BY <1>9, DualFoldAssumption DEF DualFoldAssumption, HandleReport, HandleSensorChange
<1> QED
  BY <1>2, <1>3, <1>4, <1>5, <1>6, <1>7, <1>8, <1>9 DEF Step

LEMMA DataKept ==
  ASSUME StackOK, DataOK, Next
  PROVE  DataOK'
<1> USE DEF modeVars, countVars, foldVars, bootVars, panelVars, powerVars
<1>1. CASE \E t \in Threads : Step(t)
  BY <1>1, CallData
<1>2. CASE RunnerStep
  <2>1. /\ UNCHANGED <<modeVars, countVars, foldVars, bootVars, nodes, deviceOn, budget>>
        /\ \/ TakeTask \/ SetPanel \/ TurnOff \/ TurnOn \/ TurnOnMain \/ TurnOnSub
    BY <1>2 DEF RunnerStep, TakeTask, SetPanel, TurnOff, TurnOn, TurnOnMain, TurnOnSub
  <2>2. screenId' \in {screenId, "main", "sub"} /\ lit' \subseteq Screens /\ wake' \in BOOLEAN
    BY <2>1 DEF TakeTask, SetPanel, TurnOff, TurnOn, TurnOnMain, TurnOnSub, OnScreen, OffScreen,
       MainOn, Screens, DataOK
  <2>3. screenId' \in Screens \cup {"none"}
    BY <2>2 DEF DataOK, Screens
  <2> QED
    BY <2>1, <2>2, <2>3 DEF DataOK
<1>3. CASE PowerStep \/ RecoverWhenBootAnimationExit
  <2>1. /\ UNCHANGED <<modeVars, countVars, foldVars, subReady, scb, notices, panelVars,
                       powerVars, budget>>
        /\ onBoot' = onBoot \/ onBoot' = FALSE
    BY <1>3 DEF PowerStep, PostPanel, RecoverDisplayMode, RecoverWhenBootAnimationExit
  <2> QED
    BY <2>1 DEF DataOK
<1>4. CASE TentStep
  <2>1. /\ UNCHANGED <<modeVars, countVars, locked, tent, bootVars, panelVars, deviceOn, budget>>
        /\ status' \in Statuses /\ wake' \in BOOLEAN
    BY <1>4, DualFoldAssumption DEF DualFoldAssumption, TentStep, HandleTent, HandleSensorChange,
       ChangeOnTentMode, WakeupOnTentMode, ChangeOffTentMode, DataOK, Statuses
  <2> QED
    BY <2>1 DEF DataOK
<1>5. CASE Environment
  <2>1. /\ \/ budget' = budget
           \/ \E k \in {"modes", "reports", "tents", "powers", "casts", "locks", "strays", "slow"} :
                Spend(k)
        /\ UNCHANGED <<modeVars, running, pending, status, scb, screenId>>
    BY <1>5 DEF Environment, Report, SetFoldDisplayMode, SwitchTent, PowerOff, PowerOn,
       LockDisplayStatus, CreateCastScreen, StrayPropertyChange, TwoSecondsPass,
       NotifyFoldToExpandCompletion, ConnectSub, PowerInit
  <2>2. budget' \in Budget
    BY <2>1, SpendType DEF DataOK
  <2>3. /\ elapsed' \in BOOLEAN /\ locked' \in BOOLEAN /\ tent' \in BOOLEAN
        /\ onBoot' \in BOOLEAN /\ subReady' \in BOOLEAN /\ deviceOn' \in BOOLEAN
        /\ wake' \in BOOLEAN
    BY <1>5 DEF Environment, Report, SetFoldDisplayMode, SwitchTent, PowerOff, PowerOn,
       LockDisplayStatus, CreateCastScreen, StrayPropertyChange, TwoSecondsPass,
       NotifyFoldToExpandCompletion, ConnectSub, PowerInit, DataOK
  <2>4. notices' \in Nat
    <3>1. notices' = notices \/ (notices > 0 /\ notices' = notices - 1)
      BY <1>5 DEF Environment, Report, SetFoldDisplayMode, SwitchTent, PowerOff, PowerOn,
         LockDisplayStatus, CreateCastScreen, StrayPropertyChange, TwoSecondsPass,
         NotifyFoldToExpandCompletion, ConnectSub, PowerInit
    <3> QED
      BY <3>1 DEF DataOK
  <2>5. nodes' \subseteq Screens /\ lit' \subseteq Screens
    BY <1>5 DEF Environment, Report, SetFoldDisplayMode, SwitchTent, PowerOff, PowerOn,
       LockDisplayStatus, CreateCastScreen, StrayPropertyChange, TwoSecondsPass,
       NotifyFoldToExpandCompletion, ConnectSub, PowerInit, DataOK
  <2> QED
    BY <2>1, <2>2, <2>3, <2>4, <2>5 DEF DataOK
<1> QED
  BY <1>1, <1>2, <1>3, <1>4, <1>5 DEF Next

\* What happens to the queue but for the tasks of power calls
QueueMoves ==
  \/ queue' = queue
  \/ \E k \in Tasks : k.fn # "panel" /\ queue' = Append(queue, k)
  \/ queue # <<>> /\ queue' = Tail(queue)

LEMMA Kept0 ==
  ASSUME TypeInv, NEW t \in Threads, Moves(t, <<>>), onBoot' => onBoot, QueueMoves,
         stack[t] # <<>> => Top(t).pc # "wait"
  PROVE  LoneOK' /\ PanelOK'
<1>1. Trades(t, {})
  BY Moves0 DEF TypeInv
<1> QED
  BY <1>1, LoneKept, PanelKept DEF TypeInv, QueueMoves

LEMMA Kept1 ==
  ASSUME TypeInv, NEW t \in Threads, NEW g \in FramesOf(t), Moves(t, <<g>>), onBoot' => onBoot,
         QueueMoves, stack[t] # <<>> => Top(t).pc # "wait",
         Lone(g) => stack[t] = <<>> \/ Lone(Top(t)),
         g.fn = "trigger" => ~onBoot'
  PROVE  LoneOK' /\ PanelOK'
<1>1. Trades(t, {g}) /\ Len(stack'[t]) = Len(Rest(t)) + 1
  BY Moves1 DEF TypeInv
<1>2. Lone(g) => Len(Rest(t)) = 0
  BY LoneFacts, TopFacts, RestFacts DEF TypeInv
<1>3. LoneOK'
  <2>1. \A f \in {g} : Lone(f) => Len(stack'[t]) = 1 /\ (f.fn = "trigger" => ~onBoot')
    BY <1>1, <1>2
  <2> QED
    BY <1>1, <2>1, LoneKept DEF TypeInv
<1>4. PanelOK'
  BY <1>1, PanelKept DEF TypeInv, QueueMoves
<1> QED
  BY <1>3, <1>4

LEMMA Kept2 ==
  ASSUME TypeInv, NEW t \in Threads, NEW a \in FramesOf(t), NEW b \in FramesOf(t),
         Moves(t, <<a, b>>), onBoot' => onBoot, QueueMoves,
         stack[t] # <<>> => Top(t).pc # "wait",
         ~Lone(a), ~Lone(b)
  PROVE  LoneOK' /\ PanelOK'
<1>1. Trades(t, {a, b})
  BY Moves2 DEF TypeInv
<1> QED
  BY <1>1, LoneKept, PanelKept DEF TypeInv, QueueMoves

LEMMA KeptPosts ==
  ASSUME TypeInv, NEW t \in Threads, NEW k \in Tasks, NEW g \in FramesOf(t), PostsTask(t, k, g),
         onBoot' = onBoot, stack[t] # <<>>, Top(t).pc # "wait",
         k.fn # "panel", g.fn \in {"change", "trigger"}, g.fn = Top(t).fn
  PROVE  LoneOK' /\ PanelOK'
<1>1. g.fn = "trigger" => ~onBoot'
  <2>1. Top(t) \in Frames(t) /\ LoneOK
    BY TopFacts DEF TypeInv
  <2> QED
    BY <2>1 DEF LoneOK, Lone
<1>2. CASE t = "runner"
  <2>1. k \in FramesOf(t) /\ ~Lone(k) /\ ~Lone(g)
    BY <1>2, TaskFrames DEF FramesOf, CallsOf, Lone, Tasks
  <2> QED
    BY <1>2, <2>1, Kept2 DEF PostsTask, QueueMoves
<1>3. CASE t # "runner"
  <2>1. Lone(g) => Lone(Top(t))
    BY DEF Lone
  <2> QED
    BY <1>1, <1>3, <2>1, Kept1 DEF PostsTask, QueueMoves
<1> QED
  BY <1>2, <1>3

LEMMA AsideKeeps ==
  ASSUME TypeInv, Aside
  PROVE  LoneOK' /\ PanelOK'
<1>1. onBoot' = onBoot /\ queue' = queue
  BY DEF Aside
<1>2. CASE UNCHANGED stack
  BY <1>1, <1>2 DEF TypeInv, LoneOK, PanelOK, Frames, Top
<1>3. CASE \E t \in Threads : AsideBy(t)
  <2>1. PICK t \in Threads : AsideBy(t)
    BY <1>3
  <2>2. PICK A \in SUBSET Dull : Trades(t, A)
    BY <2>1 DEF AsideBy
  <2>3. (\A f \in Dull : ~Lone(f)) /\ (stack[t] # <<>> => Top(t).pc # "wait")
    <3>1. \A f \in Dull : ~Lone(f)
      BY DEF Dull, Lone
    <3>2. ASSUME stack[t] # <<>>
          PROVE  Top(t).pc # "wait"
      <4>1. Top(t) \in Dull /\ Top(t) \in FramesOf(t)
        BY <2>1, <3>2, TopFacts DEF AsideBy, TypeInv
      <4> QED
        BY <4>1 DEF Dull, FramesOf, FrameOK, PcsOf
    <3> QED
      BY <3>1, <3>2
  <2>4. LoneOK'
    BY <1>1, <2>2, <2>3, LoneKept DEF TypeInv
  <2>5. PanelOK'
    BY <1>1, <2>2, <2>3, PanelKept DEF TypeInv
  <2> QED
    BY <2>4, <2>5
<1> QED
  BY <1>2, <1>3 DEF Aside

LEMMA ShownKeeps ==
  ASSUME TypeInv, Shown
  PROVE  LoneOK' /\ PanelOK'
<1> USE DEF TypeInv
<1>1. ASSUME NEW t \in Threads, Starts(t)
      PROVE  LoneOK' /\ PanelOK'
  <2> DEFINE g == [Top(t) EXCEPT !.pc = "post"]
  <2>1. g \in FramesOf(t) /\ Moves(t, <<g>>) /\ Top(t).fn = "change" /\ Top(t).pc = "check"
        /\ Start(t)
    BY <1>1 DEF Starts
  <2>2. onBoot' = onBoot /\ queue' = queue
    BY <2>1 DEF Start, bootVars
  <2>3. g.fn = "change"
    BY <2>1 DEF FramesOf, FrameType
  <2> HIDE DEF g
  <2> QED
    BY <2>1, <2>2, <2>3, Kept1 DEF Lone, QueueMoves
<1>2. ASSUME NEW t \in Threads, stack[t] # <<>>, ShowOnBootAnimation(t)
      PROVE  LoneOK' /\ PanelOK'
  <2> DEFINE f == Top(t)
             g == [f EXCEPT !.pc = "current"]
  <2>1. /\ f \in FramesOf(t) /\ f.fn \in {"change", "trigger"} /\ f.pc = "post" /\ onBoot
        /\ g \in FramesOf(t)
        /\ \/ Moves(t, <<g>>)
           \/ Moves(t, <<Done, g>>)
    BY <1>2, BootEffect
  <2>2. onBoot' = onBoot /\ queue' = queue
    BY <1>2 DEF ShowOnBootAnimation
  <2>3. f.fn = "change"
    BY <1>2, <2>1, TopFacts DEF LoneOK, Lone
  <2>4. g.fn = "change" /\ Done.fn = "done"
    BY <2>1, <2>3 DEF FramesOf, FrameType, Done, Frame
  <2>5. Done \in FramesOf(t)
    BY NewFrames
  <2> HIDE DEF g
  <2>6. ~Lone(g) /\ ~Lone(Done) /\ QueueMoves /\ f.pc # "wait" /\ g.fn # "trigger"
    BY <2>1, <2>2, <2>4 DEF Lone, QueueMoves
  <2>7. CASE Moves(t, <<g>>)
    BY <2>1, <2>2, <2>6, <2>7, Kept1
  <2>8. CASE Moves(t, <<Done, g>>)
    BY <2>1, <2>2, <2>5, <2>6, <2>8, Kept2
  <2> QED
    BY <2>1, <2>7, <2>8
<1>3. ASSUME NEW t \in Threads, stack[t] # <<>>, PostOffOn(t)
      PROVE  LoneOK' /\ PanelOK'
  <2> DEFINE f == Top(t)
             g == [f EXCEPT !.pc = "nodes"]
             k == OffOnTask(t)
  <2>1. /\ f \in FramesOf(t) /\ f.fn \in {"change", "trigger"} /\ f.pc = "post"
        /\ g \in FramesOf(t) /\ PostsTask(t, k, g) /\ k \in Tasks
    BY <1>3, OffOnEffect
  <2>2. onBoot' = onBoot
    BY <1>3 DEF PostOffOn, bootVars
  <2>3. g.fn = f.fn /\ k.fn # "panel"
    BY <2>1 DEF FramesOf, FrameType, OffOnTask, Frame
  <2> HIDE DEF g
  <2> QED
    BY <1>3, <2>1, <2>2, <2>3, KeptPosts
<1>4. ASSUME NEW t \in Threads, stack[t] # <<>>, PostOnMain(t)
      PROVE  LoneOK' /\ PanelOK'
  <2> DEFINE f == Top(t)
             g == [f EXCEPT !.pc = "postSub"]
             k == OnMainTask(t)
  <2>1. /\ f \in FramesOf(t) /\ f.fn = "change" /\ f.pc = "postMain"
        /\ g \in FramesOf(t) /\ PostsTask(t, k, g) /\ k \in Tasks
    BY <1>4, OnMainEffect
  <2>2. onBoot' = onBoot
    BY <1>4 DEF PostOnMain, bootVars
  <2>3. g.fn = f.fn /\ k.fn # "panel"
    BY <2>1 DEF FramesOf, FrameType, OnMainTask, Frame
  <2> HIDE DEF g
  <2> QED
    BY <1>4, <2>1, <2>2, <2>3, KeptPosts
<1>5. ASSUME NEW t \in Threads, stack[t] # <<>>, PostOnSub(t)
      PROVE  LoneOK' /\ PanelOK'
  <2> DEFINE f == Top(t)
             g == [f EXCEPT !.pc = "nodes"]
             k == OnSubTask(t)
  <2>1. /\ f \in FramesOf(t) /\ f.fn = "change" /\ f.pc = "postSub"
        /\ g \in FramesOf(t) /\ PostsTask(t, k, g) /\ k \in Tasks
    BY <1>5, OnSubEffect
  <2>2. onBoot' = onBoot
    BY <1>5 DEF PostOnSub, bootVars
  <2>3. g.fn = f.fn /\ k.fn # "panel"
    BY <2>1 DEF FramesOf, FrameType, OnSubTask, Frame
  <2> HIDE DEF g
  <2> QED
    BY <1>5, <2>1, <2>2, <2>3, KeptPosts
<1>6. ASSUME NEW t \in Threads, stack[t] # <<>>, PostNothing(t)
      PROVE  LoneOK' /\ PanelOK'
  <2> DEFINE f == Top(t)
             g == [f EXCEPT !.pc = "current"]
  <2>1. /\ f \in FramesOf(t) /\ f.fn \in {"change", "trigger"} /\ f.pc = "post"
        /\ g \in FramesOf(t) /\ Moves(t, <<g>>)
    BY <1>6, PostNothingEffect
  <2>2. onBoot' = onBoot /\ queue' = queue
    BY <1>6 DEF PostNothing, bootVars
  <2>3. g.fn = f.fn
    BY <2>1 DEF FramesOf, FrameType
  <2>4. f.fn = "trigger" => ~onBoot
    BY <1>6, TopFacts DEF LoneOK, Lone
  <2> HIDE DEF g
  <2> QED
    BY <1>6, <2>1, <2>2, <2>3, <2>4, Kept1 DEF Lone, QueueMoves
<1>9. ASSUME NEW t \in Threads, stack[t] # <<>>, ReadScreenOn(t)
      PROVE  LoneOK' /\ PanelOK'
  <2> DEFINE f == Top(t)
             g == [f EXCEPT !.pc = "postMain", !.flag = deviceOn]
  <2>1. /\ f \in FramesOf(t) /\ f.fn = "change" /\ f.pc = "post"
        /\ g \in FramesOf(t) /\ Moves(t, <<g>>)
    BY <1>9, ReadEffect
  <2>2. onBoot' = onBoot /\ queue' = queue
    BY <1>9 DEF ReadScreenOn, bootVars
  <2>3. g.fn = f.fn
    BY <2>1 DEF FramesOf, FrameType
  <2> HIDE DEF g
  <2> QED
    BY <1>9, <2>1, <2>2, <2>3, Kept1 DEF Lone, QueueMoves
<1>7. ASSUME NEW t \in Threads, Finish(t)
      PROVE  LoneOK' /\ PanelOK'
  <2>1. /\ Top(t).pc \in {"nodes", "current"}
        /\ Moves(t, <<Done>>) \/ Moves(t, <<>>)
    BY <1>7, FinishEffect
  <2>2. onBoot' = onBoot /\ queue' = queue
    BY <1>7 DEF Finish, bootVars
  <2>3. Done \in FramesOf(t) /\ Done.fn = "done"
    BY NewFrames DEF Done, Frame
  <2>4. ~Lone(Done) /\ QueueMoves /\ Top(t).pc # "wait"
    BY <2>1, <2>2, <2>3 DEF Lone, QueueMoves
  <2>5. CASE Moves(t, <<Done>>)
    BY <2>2, <2>3, <2>4, <2>5, Kept1
  <2>6. CASE Moves(t, <<>>)
    BY <2>2, <2>4, <2>6, Kept0
  <2> QED
    BY <2>1, <2>5, <2>6
<1>8. CASE TakeTask \/ TurnOff \/ TurnOn \/ TurnOnMain \/ TurnOnSub
  <2> DEFINE r == "runner"
             f == Top(r)
             g == [f EXCEPT !.pc = "on"]
  <2>0. r \in Threads /\ Done \in FramesOf(r) /\ Done.fn = "done"
    BY NewFrames DEF Threads, Done, Frame
  <2>1. onBoot' = onBoot
    BY <1>8 DEF TakeTask, TurnOff, TurnOn, TurnOnMain, TurnOnSub, bootVars
  <2>2. \A k \in FramesOf(r) : ~Lone(k) /\ k.pc # "wait"
    BY DEF FramesOf, CallsOf, FrameOK, PcsOf, Lone
  <2>3. CASE TakeTask
    BY <2>0, <2>1, <2>2, <2>3, TakeTaskEffect, Kept1 DEF QueueMoves, Lone
  <2>4. CASE TurnOff
    <3>1. f \in FramesOf(r) /\ g \in FramesOf(r) /\ Moves(r, <<Done, g>>) /\ queue' = queue
      BY <2>4, TurnOffEffect DEF TurnOff
    <3> HIDE DEF g
    <3> QED
      BY <2>0, <2>1, <2>2, <3>1, Kept2 DEF QueueMoves
  <2>5. CASE TurnOn \/ TurnOnMain \/ TurnOnSub
    <3>1. f \in FramesOf(r) /\ Moves(r, <<Done>>) /\ queue' = queue
      BY <2>5, TurnOnEffect DEF TurnOn, TurnOnMain, TurnOnSub
    <3> QED
      BY <2>0, <2>1, <2>2, <3>1, Kept1 DEF QueueMoves, Lone
  <2> QED
    BY <1>8, <2>3, <2>4, <2>5
<1> QED
  BY <1>1, <1>2, <1>3, <1>4, <1>5, <1>6, <1>7, <1>8, <1>9 DEF Shown, Posts

LEMMA PoweredKeeps ==
  ASSUME TypeInv, Powered
  PROVE  LoneOK' /\ PanelOK'
<1> USE DEF TypeInv
<1> DEFINE p == "power"
           b == "boot"
<1>0. p \in Threads /\ b \in Threads
  BY DEF Threads
<1>1. ASSUME NEW t \in Threads, ExitSub(t)
      PROVE  LoneOK' /\ PanelOK'
  <2> DEFINE f == Top(t)
             g == [f EXCEPT !.pc = "exitMode"]
  <2>1. /\ f \in FramesOf(t) /\ f.fn \in {"suspend", "cast"} /\ f.pc = "exit"
        /\ g \in FramesOf(t) /\ Moves(t, <<g>>)
    BY <1>1, ExitSubEffect
  <2>2. onBoot' = onBoot /\ queue' = queue
    BY <1>1 DEF ExitSub, bootVars
  <2>3. g.fn = f.fn
    BY <2>1 DEF FramesOf, FrameType
  <2> HIDE DEF g
  <2>4. f.pc # "wait" /\ g.fn # "trigger" /\ (Lone(g) => Lone(f)) /\ QueueMoves
    BY <2>1, <2>2, <2>3 DEF Lone, QueueMoves
  <2> QED
    BY <2>1, <2>2, <2>4, Kept1
<1>2. ASSUME NEW t \in Threads, ExitMode(t)
      PROVE  LoneOK' /\ PanelOK'
  <2> DEFINE f == Top(t)
             g == [f EXCEPT !.pc = "panel"]
  <2>1. /\ f \in FramesOf(t) /\ f.pc = "exitMode"
        /\ \/ f.fn = "suspend" /\ g \in FramesOf(t) /\ Moves(t, <<g>>)
           \/ f.fn = "cast" /\ Moves(t, <<>>)
    BY <1>2, ExitModeEffect
  <2>2. onBoot' = onBoot /\ queue' = queue
    BY <1>2 DEF ExitMode, bootVars
  <2>3. g.fn = f.fn
    BY <2>1 DEF FramesOf, FrameType
  <2> HIDE DEF g
  <2>4. f.pc # "wait" /\ QueueMoves /\ (f.fn = "suspend" => g.fn # "trigger" /\ Lone(f))
    BY <2>1, <2>2, <2>3 DEF Lone, QueueMoves
  <2> QED
    BY <2>1, <2>2, <2>4, Kept0, Kept1
<1>3. CASE PowerOff \/ PowerOn
  <2>1. PICK g \in FramesOf(p) :
          /\ PowerOff => g = PowerFrame("suspend", IF last = "COORDINATION" THEN "exit" ELSE "panel")
          /\ PowerOn => g = PowerFrame("resume", "panel")
          /\ stack[p] = <<>> /\ Moves(p, <<g>>)
    BY <1>3, PowerKeyEffect
  <2>2. onBoot' = onBoot /\ queue' = queue
    BY <1>3 DEF PowerOff, PowerOn, bootVars
  <2>3. g.fn # "trigger"
    BY <1>3, <2>1 DEF PowerFrame, Frame
  <2> QED
    BY <1>0, <2>1, <2>2, <2>3, Kept1 DEF QueueMoves
<1>4. CASE PostPanel
  <2> DEFINE f == Top(p)
             g == [f EXCEPT !.pc = "wait"]
             k == Frame("panel", "set", "UNKNOWN", f.flag)
  <2>1. /\ stack[p] # <<>> /\ f \in FramesOf(p) /\ f.fn \in {"suspend", "resume"} /\ f.pc = "panel"
        /\ g \in FramesOf(p) /\ k \in Tasks /\ queue' = Append(queue, k) /\ Moves(p, <<g>>)
    BY <1>4, PostPanelEffect
  <2>2. onBoot' = onBoot /\ g.fn = f.fn /\ g.pc = "wait"
    BY <1>4, <2>1 DEF PostPanel, bootVars, FramesOf, FrameType
  <2>3. f.flag = (f.fn = "resume") /\ k.fn = "panel" /\ k.flag = f.flag
    BY <2>1 DEF FramesOf, FrameOK, ModeFits, Frame
  <2> HIDE DEF g, k
  <2>4. StackOK' /\ Trades(p, {g}) /\ Top(p)' = g /\ stack'[p] # <<>> /\ Len(stack'[p]) = Len(Rest(p)) + 1
    BY <1>0, <2>1, Moves1
  <2>0. onBoot' => onBoot
    BY <2>2
  <2>5. LoneOK'
    <3>1. Lone(f) /\ f \in Frames(p)
      BY <1>0, <2>1, TopFacts DEF Lone
    <3>2. Len(Rest(p)) = 0
      BY <1>0, <3>1, LoneFacts
    <3>3. Len(stack'[p]) = 1 /\ g.fn # "trigger"
      BY <2>1, <2>2, <2>4, <3>2
    <3> QED
      BY <1>0, <2>0, <2>4, <3>3, LoneKept1
  <2>6. PanelOK'
    <3>1. \A i \in DOMAIN queue : queue[i].fn # "panel"
      BY <2>1 DEF PanelOK
    <3>2. \A i \in DOMAIN queue' : queue'[i].fn = "panel" => i = Len(queue) + 1 /\ queue'[i] = k
      <4>1. /\ \A i \in DOMAIN queue : queue'[i] = queue[i]
            /\ Len(queue) \in Nat /\ DOMAIN queue' = 1..(Len(queue) + 1) /\ DOMAIN queue = 1..Len(queue)
            /\ queue'[Len(queue) + 1] = k
        BY <2>1, QueueAppend DEF QueueOK
      <4>2. \A n \in Nat : \A i \in 1..(n + 1) : i \in 1..n \/ i = n + 1
        OBVIOUS
      <4>3. \A i \in DOMAIN queue' : i \in DOMAIN queue \/ i = Len(queue) + 1
        BY <4>1, <4>2
      <4> QED
        BY <3>1, <4>1, <4>3
    <3> QED
      BY <2>2, <2>3, <2>4, <3>2 DEF PanelOK, Top
  <2> QED
    BY <2>5, <2>6
<1>5. CASE SetPanel
  <2> DEFINE f == Top(p)
             g == [f EXCEPT !.pc = "recover"]
  <2>1. /\ stack[p] # <<>> /\ f \in FramesOf(p)
        /\ \A i \in DOMAIN queue' : queue'[i].fn # "panel"
        /\ \/ f.fn = "resume" /\ Moves(p, <<>>)
           \/ f.fn = "suspend" /\ g \in FramesOf(p) /\ Moves(p, <<g>>)
    BY <1>5, SetPanelEffect
  <2>2. onBoot' = onBoot /\ g.fn = f.fn
    BY <1>5, <2>1 DEF SetPanel, bootVars, FramesOf, FrameType
  <2> HIDE DEF g
  <2>0. onBoot' => onBoot
    BY <2>2
  <2>3. PanelOK'
    BY <2>1 DEF PanelOK
  <2>4. CASE Moves(p, <<>>)
    <3>1. Trades(p, {})
      BY <1>0, <2>4, Moves0
    <3> QED
      BY <1>0, <2>2, <2>3, <3>1, LoneKept
  <2>5. CASE f.fn = "suspend" /\ g \in FramesOf(p) /\ Moves(p, <<g>>)
    <3>1. Lone(f) /\ f \in Frames(p)
      BY <1>0, <2>1, <2>5, TopFacts DEF Lone
    <3>2. Len(Rest(p)) = 0 /\ Trades(p, {g}) /\ Len(stack'[p]) = Len(Rest(p)) + 1
      BY <1>0, <2>5, <3>1, LoneFacts, Moves1
    <3>3. Len(stack'[p]) = 1 /\ g.fn # "trigger"
      BY <2>2, <2>5, <3>2
    <3> QED
      BY <1>0, <2>0, <2>3, <3>2, <3>3, LoneKept1
  <2> QED
    BY <2>1, <2>4, <2>5
<1>6. CASE RecoverDisplayMode
  <2> DEFINE c == Change(GetModeMatchStatus)
  <2>1. /\ Top(p).pc = "recover" /\ c \in Dull \cap FramesOf(p)
        /\ \/ Moves(p, <<>>)
           \/ Moves(p, <<c>>)
    BY <1>6, RecoverEffect
  <2>2. onBoot' = onBoot /\ queue' = queue /\ c.fn = "change"
    BY <1>6 DEF RecoverDisplayMode, bootVars, Change, Frame
  <2> HIDE DEF c
  <2>3. ~Lone(c) /\ QueueMoves
    BY <2>2 DEF Lone, QueueMoves
  <2> QED
    BY <1>0, <2>1, <2>2, <2>3, Kept0, Kept1
<1>7. CASE PowerInit
  <2>1. stack[b] = <<>> /\ BootFrame \in FramesOf(b) /\ Moves(b, <<BootFrame>>)
    BY <1>7, PowerInitEffect
  <2>2. onBoot' = onBoot /\ queue' = queue /\ BootFrame.fn = "boot"
    BY <1>7 DEF PowerInit, bootVars, BootFrame, Frame
  <2> QED
    BY <1>0, <2>1, <2>2, Kept1 DEF QueueMoves
<1>8. CASE RecoverWhenBootAnimationExit
  <2> DEFINE f == Top(b)
             c == Change(GetModeMatchStatus)
  <2>1. /\ stack[b] # <<>> /\ f \in FramesOf(b) /\ f.fn = "boot"
        /\ c \in Dull \cap FramesOf(b) /\ Trigger \in FramesOf(b)
        /\ \/ Moves(b, <<c>>)
           \/ Moves(b, <<Trigger>>)
    BY <1>8, BootExitEffect
  <2>2. onBoot' = FALSE /\ queue' = queue /\ c.fn = "change" /\ Trigger.fn = "trigger"
    BY <1>8 DEF RecoverWhenBootAnimationExit, Change, Trigger, Frame
  <2>3. f.pc # "wait"
    BY <2>1 DEF FramesOf, FrameOK, PcsOf
  <2> HIDE DEF c
  <2> QED
    BY <1>0, <2>1, <2>2, <2>3, Kept1 DEF Lone, QueueMoves
<1> QED
  BY <1>1, <1>2, <1>3, <1>4, <1>5, <1>6, <1>7, <1>8 DEF Powered

LEMMA InitType ==
  ASSUME Init
  PROVE  TypeInv
<1>1. stack = [t \in Threads |-> <<>>] /\ queue = <<>>
  BY DEF Init
<1>2. StackOK /\ QueueOK /\ PanelOK /\ LoneOK
  BY <1>1 DEF StackOK, QueueOK, PanelOK, LoneOK, Frames
<1>3. DataOK
  <2>1. PICK s \in Scenarios, m \in {"UNKNOWN", "MAIN", "SUB"} :
          /\ s.cold <=> m = "UNKNOWN"
          /\ budget = s.budget
          /\ scb = s.scb
          /\ onBoot = s.cold
          /\ subReady = ~s.cold
          /\ cache = m /\ last = m /\ current = m /\ wanted = m
          /\ pending = IF s.cold THEN 3 ELSE 0
          /\ elapsed = ~s.cold
          /\ status = CASE m = "UNKNOWN" -> "UNKNOWN"
                        [] m = "MAIN" -> "EXPAND"
                        [] OTHER -> "FOLDED"
          /\ screenId = CASE m = "UNKNOWN" -> "none"
                          [] m = "MAIN" -> "main"
                          [] OTHER -> "sub"
          /\ nodes = IF s.cold THEN Screens ELSE {screenId}
          /\ lit = IF s.cold THEN {} ELSE {screenId}
    BY DEF Init
  <2>2. s.cold \in BOOLEAN /\ s.scb \in BOOLEAN /\ s.budget \in Budget
    BY DualFoldAssumption DEF DualFoldAssumption
  <2>3. /\ cache \in Modes /\ last \in Modes /\ current \in Modes /\ wanted \in Modes
        /\ pending \in Int /\ status \in Statuses
        /\ screenId \in Screens \cup {"none"} /\ nodes \subseteq Screens /\ lit \subseteq Screens
    <3>1. cache \in Modes /\ last \in Modes /\ current \in Modes /\ wanted \in Modes
      BY <2>1 DEF Modes
    <3>2. m = "UNKNOWN" \/ screenId \in Screens
      BY <2>1 DEF Screens
    <3>3. screenId \in Screens \cup {"none"} /\ status \in Statuses
      BY <2>1 DEF Screens, Statuses
    <3>4. pending \in Int /\ nodes \subseteq Screens /\ lit \subseteq Screens
      BY <2>1, <3>2
    <3> QED
      BY <3>1, <3>3, <3>4
  <2>4. budget \in Budget /\ scb \in BOOLEAN /\ onBoot \in BOOLEAN /\ subReady \in BOOLEAN
        /\ elapsed \in BOOLEAN
    BY <2>1, <2>2
  <2> QED
    BY <2>3, <2>4 DEF DataOK, Init
<1> QED
  BY <1>2, <1>3 DEF TypeInv

LEMMA EffectsType ==
  ASSUME TypeInv, Aside \/ Shown \/ Powered
  PROVE  StackOK' /\ QueueOK'
<1>1. CASE Aside
  BY <1>1 DEF Aside, TypeInv, QueueOK
<1>2. CASE Shown
  BY <1>2, BootEffect, OffOnEffect, ReadEffect, OnMainEffect, OnSubEffect, PostNothingEffect,
     FinishEffect,
     TakeTaskEffect, TurnOffEffect, TurnOnEffect DEF Shown, Posts, Starts, TypeInv
<1>3. CASE Powered
  BY <1>3, ExitSubEffect, ExitModeEffect, PowerKeyEffect, PostPanelEffect, SetPanelEffect,
     RecoverEffect, PowerInitEffect, BootExitEffect DEF Powered, TypeInv
<1> QED
  BY <1>1, <1>2, <1>3

LEMMA TypeStep ==
  ASSUME TypeInv, [Next]_vars
  PROVE  TypeInv'
<1>1. CASE Next
  <2>1. Aside \/ Shown \/ Powered
    BY <1>1, NextCases DEF TypeInv
  <2>2. LoneOK' /\ PanelOK'
    BY <2>1, AsideKeeps, ShownKeeps, PoweredKeeps
  <2>3. DataOK'
    BY <1>1, DataKept DEF TypeInv
  <2>4. StackOK' /\ QueueOK'
    BY <2>1, EffectsType
  <2> QED
    BY <2>2, <2>3, <2>4 DEF TypeInv
<1>2. CASE UNCHANGED vars
  BY <1>2 DEF vars, modeVars, countVars, foldVars, bootVars, panelVars, powerVars, TypeInv,
     StackOK, QueueOK, DataOK, PanelOK, LoneOK, Frames, Top
<1> QED
  BY <1>1, <1>2

LEMMA TypeHolds ==
  Spec => []TypeInv
<1>1. Init => TypeInv
  BY InitType
<1>2. TypeInv /\ [Next]_vars => TypeInv'
  BY TypeStep
<1> QED
  BY <1>1, <1>2, PTL DEF Spec

\* The calls of every thread, the tasks of the runner and the rest of the state
\* have their types.
THEOREM TypeCorrect ==
  Spec => []TypeOK
<1>1. TypeInv => TypeOK
  <2> SUFFICES ASSUME TypeInv PROVE TypeOK
    OBVIOUS
  <2>1. queue \in Seq(FrameType)
    <3>1. Tasks \subseteq FrameType
      BY DEF Tasks
    <3> QED
      BY <3>1 DEF TypeInv, QueueOK
  <2>2. stack \in [Threads -> Seq(FrameType)]
    BY DEF TypeInv, StackOK
  <2> QED
    BY <2>1, <2>2 DEF TypeInv, DataOK, TypeOK
<1> QED
  BY <1>1, TypeHolds, PTL

-----------------------------------------------------------------------------
(* The modes of the changes under way.                                     *)

Works == {"offOn", "onMain", "onSub", "trigger"}
Calm == ~Upset({"overlap", "exitRaces", "bootRaces"})

\* A change under way is to the mode that the clients are told, and without
\* one that is the mode that is on.
ModesOK ==
  ~Upset({"overlap", "exitRaces"}) =>
    /\ \A f \in Held : InFlight(f) => f.mode = last
    /\ last = current \/ \E f \in Held : InFlight(f)
\* Its work is for that mode too.
WorkOK == Calm => \A f \in Held : f.fn \in Works => f.mode = last
\* In the coordination mode the power keys are about the main panel, or will be.
ShowsMain(f) == f.fn = "onMain" \/ (f.fn = "change" /\ f.pc \in {"post", "postMain"})
CoordOK == Calm /\ last = "COORDINATION" => screenId = "main" \/ \E f \in Held : ShowsMain(f)
ModeInv == ModesOK /\ WorkOK /\ CoordOK

LEMMA CalmNow ==
  ASSUME upset \subseteq upset'
  PROVE  /\ Calm' => Calm
         /\ ~Upset({"overlap", "exitRaces"})' => ~Upset({"overlap", "exitRaces"})
         /\ Calm => ~Upset({"overlap", "exitRaces"})
  BY DEF Upset, Calm

\* What keeps the modes: the calls that come are for the modes of those that go.
LEMMA ModesKept ==
  ASSUME ModeInv, NEW A, NEW B, HeldBy(A, B), B \subseteq Held, UNCHANGED <<last, current>>,
         upset \subseteq upset',
         \A a \in A : InFlight(a) => \E b \in B : InFlight(b) /\ b.mode = a.mode,
         \A a \in A : a.fn \in Works =>
           \E b \in B : (InFlight(b) \/ b.fn \in Works) /\ b.mode = a.mode,
         \A b \in B : InFlight(b) => \E a \in A : InFlight(a),
         \/ screenId' = "main"
         \/ /\ screenId' = screenId
            /\ \A b \in B : ShowsMain(b) => b.mode # "COORDINATION" \/ \E a \in A : ShowsMain(a)
         \/ \E b \in B : (InFlight(b) \/ b.fn \in Works) /\ b.mode # "COORDINATION"
  PROVE  ModeInv'
<1>1. ModesOK'
  <2> SUFFICES ASSUME ~Upset({"overlap", "exitRaces"})'
               PROVE  /\ \A f \in Held' : InFlight(f) => f.mode = last
                      /\ last = current \/ \E f \in Held' : InFlight(f)
    BY DEF ModesOK, InFlight
  <2>1. /\ \A f \in Held : InFlight(f) => f.mode = last
        /\ last = current \/ \E f \in Held : InFlight(f)
    BY CalmNow DEF ModeInv, ModesOK
  <2>2. \A f \in Held' : InFlight(f) => f.mode = last
    BY <2>1 DEF HeldBy
  <2>3. last = current \/ \E f \in Held' : InFlight(f)
    BY <2>1 DEF HeldBy
  <2> QED
    BY <2>2, <2>3
<1>2. Calm' => \A b \in B : InFlight(b) \/ b.fn \in Works => b.mode = last
  BY CalmNow DEF ModeInv, ModesOK, WorkOK
<1>3. WorkOK'
  <2> SUFFICES ASSUME Calm', NEW f \in Held', f.fn \in Works
               PROVE  f.mode = last
    BY DEF WorkOK, Works
  <2>1. CASE f \in A
    BY <1>2, <2>1
  <2>2. CASE f \in Held
    BY <2>2, CalmNow DEF ModeInv, WorkOK
  <2> QED
    BY <2>1, <2>2 DEF HeldBy
<1>4. CoordOK'
  <2> SUFFICES ASSUME Calm', last = "COORDINATION"
               PROVE  screenId' = "main" \/ \E f \in Held' : ShowsMain(f)
    BY DEF CoordOK, ShowsMain
  <2>1. screenId = "main" \/ \E f \in Held : ShowsMain(f)
    BY CalmNow DEF ModeInv, CoordOK
  <2>2. \A b \in B : InFlight(b) \/ b.fn \in Works => b.mode = "COORDINATION"
    BY <1>2
  <2>3. \A b \in B : ShowsMain(b) => b.mode = "COORDINATION"
    BY <2>2 DEF ShowsMain, InFlight, Works
  <2> QED
    BY <2>1, <2>2, <2>3 DEF HeldBy
<1> QED
  BY <1>1, <1>3, <1>4 DEF ModeInv

LEMMA AsideModes ==
  ASSUME TypeInv, ModeInv, Aside
  PROVE  ModeInv'
<1>1. PICK A \in SUBSET Dull, B \in SUBSET Dull : HeldBy(A, B)
  BY HeldAside DEF TypeInv
<1> DEFINE C == B \cap Held
<1>2. HeldBy(A, C)
  BY <1>1 DEF HeldBy
<1>3. \A f \in Dull : ~InFlight(f) /\ f.fn \notin Works /\ ~ShowsMain(f)
  BY DEF Dull, InFlight, Works, ShowsMain
<1>4. C \subseteq Held /\ C \subseteq Dull
  OBVIOUS
<1>5. UNCHANGED <<last, current, screenId>> /\ upset \subseteq upset'
  BY DEF Aside, panelVars
<1> HIDE DEF C
<1> QED
  BY <1>1, <1>2, <1>3, <1>4, <1>5, ModesKept

LEMMA NoneUnfinished ==
  ASSUME ~Unfinished
  PROVE  \A f \in Held : ~Working(f) /\ ~InFlight(f) /\ f.fn \notin {"offOn", "onMain", "onSub", "done"}
<1>1. \A f \in Held : ~Working(f)
  BY DEF Unfinished, Held
<1> QED
  BY <1>1 DEF Working, InFlight

LEMMA TriggerOnBoot ==
  ASSUME TypeInv, NEW f \in Held, f.fn = "trigger"
  PROVE  stack["boot"] # <<>> /\ f = Top("boot")
<1>0. "boot" \in Threads
  BY DEF Threads
<1>1. f \notin {queue[i] : i \in DOMAIN queue}
  BY DEF TypeInv, QueueOK, Tasks
<1>2. PICK t \in Threads : f \in Frames(t)
  BY <1>1 DEF Held
<1>3. f \in FramesOf(t)
  BY <1>2, FrameInHeld DEF TypeInv
<1>4. t = "boot"
  BY <1>3 DEF FramesOf, CallsOf, Threads
<1> QED
  BY <1>0, <1>2, <1>4, LoneFacts DEF TypeInv, Lone

LEMMA StartModes ==
  ASSUME TypeInv, ModeInv, NEW t \in Threads, Starts(t)
  PROVE  ModeInv'
<1> DEFINE f == Top(t)
           g == [f EXCEPT !.pc = "post"]
<1>1. /\ f \in FramesOf(t) /\ f.fn = "change" /\ last' = f.mode /\ upset \subseteq upset'
      /\ Unfinished => "overlap" \in upset'
      /\ t # "boot" /\ ~Idle("boot") => "bootRaces" \in upset'
      /\ HeldBy({g}, {f}) /\ g \in FramesOf(t)
  BY DEF Starts
<1>2. g.fn = "change" /\ g.pc = "post" /\ g.mode = last'
  BY <1>1 DEF FramesOf, FrameType
<1> HIDE DEF g
<1>3. InFlight(g) /\ ShowsMain(g) /\ g.fn \notin Works /\ g \in Held'
  BY <1>1, <1>2 DEF InFlight, ShowsMain, Works, HeldBy
<1>4. Held' \subseteq Held \cup {g}
  BY <1>1 DEF HeldBy
<1>5. ~Upset({"overlap", "exitRaces"})' =>
        \A h \in Held : ~InFlight(h) /\ h.fn \notin {"offOn", "onMain", "onSub", "done"}
  BY <1>1, NoneUnfinished DEF Upset
<1>6. Calm' => \A h \in Held : h.fn # "trigger"
  <2> SUFFICES ASSUME Calm', NEW h \in Held, h.fn = "trigger"
               PROVE  FALSE
    OBVIOUS
  <2>1. stack["boot"] # <<>> /\ h = Top("boot")
    BY TriggerOnBoot
  <2>2. t # "boot"
    BY <1>1, <2>1
  <2> QED
    BY <1>1, <2>1, <2>2 DEF Calm, Upset, Idle
<1>7. Calm' => ~Upset({"overlap", "exitRaces"})'
  BY DEF Calm, Upset
<1>8. ModesOK'
  BY <1>2, <1>3, <1>4, <1>5 DEF ModesOK, InFlight
<1>9. WorkOK'
  BY <1>3, <1>4, <1>5, <1>6, <1>7 DEF WorkOK, Works
<1>10. CoordOK'
  BY <1>3 DEF CoordOK, ShowsMain
<1> QED
  BY <1>8, <1>9, <1>10 DEF ModeInv

LEMMA PostModes ==
  ASSUME TypeInv, ModeInv, NEW t \in Threads, Posts(t)
  PROVE  ModeInv'
<1> DEFINE f == Top(t)
<1>0. stack[t] # <<>> /\ f \in Held /\ f \in FramesOf(t)
  BY FrameInHeld, TopFacts DEF Posts, TypeInv
<1>1. CASE PostOffOn(t)
  <2> DEFINE g == [f EXCEPT !.pc = "nodes"]
             k == OffOnTask(t)
  <2>1. /\ f.fn \in {"change", "trigger"} /\ f.pc = "post" /\ f.mode \in {"MAIN", "SUB"}
        /\ g \in FramesOf(t) /\ HeldBy({k, g}, {f})
    BY <1>0, <1>1, OffOnEffect DEF TypeInv
  <2>2. UNCHANGED <<last, current, screenId>> /\ upset' = upset
    BY <1>1 DEF PostOffOn, modeVars, panelVars
  <2>3. /\ g.fn = f.fn /\ g.pc = "nodes" /\ g.mode = f.mode
        /\ k.fn = "offOn" /\ k.mode = f.mode
    BY <1>0 DEF FramesOf, FrameType, OffOnTask, Frame
  <2> HIDE DEF g, k
  <2>4. /\ ~InFlight(k) /\ (InFlight(g) <=> InFlight(f)) /\ (InFlight(f) \/ f.fn \in Works)
        /\ (ShowsMain(f) => f.mode # "COORDINATION")
    BY <2>1, <2>3 DEF InFlight, Works, ShowsMain
  <2> QED
    BY <1>0, <2>1, <2>2, <2>3, <2>4, ModesKept
<1>2. CASE PostOnMain(t)
  <2> DEFINE g == [f EXCEPT !.pc = "postSub"]
             k == OnMainTask(t)
  <2>1. /\ f.fn = "change" /\ f.pc = "postMain" /\ f.mode = "COORDINATION"
        /\ g \in FramesOf(t) /\ HeldBy({k, g}, {f})
    BY <1>0, <1>2, OnMainEffect DEF TypeInv
  <2>2. UNCHANGED <<last, current, screenId>> /\ upset \subseteq upset'
    BY <1>2, NoteGrows DEF PostOnMain, modeVars, panelVars
  <2>3. /\ g.fn = f.fn /\ g.pc = "postSub" /\ g.mode = f.mode
        /\ k.fn = "onMain" /\ k.mode = f.mode
    BY <1>0, <2>1 DEF FramesOf, FrameType, OnMainTask, Frame
  <2> HIDE DEF g, k
  <2>4. ~InFlight(k) /\ InFlight(g) /\ InFlight(f) /\ ShowsMain(k)
    BY <2>1, <2>3 DEF InFlight, Works, ShowsMain
  <2> QED
    BY <1>0, <2>1, <2>2, <2>3, <2>4, ModesKept
<1>3. CASE PostOnSub(t)
  <2> DEFINE g == [f EXCEPT !.pc = "nodes"]
             k == OnSubTask(t)
  <2>1. /\ f.fn = "change" /\ f.pc = "postSub" /\ f.mode = "COORDINATION"
        /\ g \in FramesOf(t) /\ HeldBy({k, g}, {f})
    BY <1>0, <1>3, OnSubEffect DEF TypeInv
  <2>2. UNCHANGED <<last, current, screenId>> /\ upset' = upset
    BY <1>3 DEF PostOnSub, modeVars, panelVars
  <2>3. /\ g.fn = f.fn /\ g.pc = "nodes" /\ g.mode = f.mode
        /\ k.fn = "onSub" /\ k.mode = f.mode
    BY <1>0, <2>1 DEF FramesOf, FrameType, OnSubTask, Frame
  <2> HIDE DEF g, k
  <2>4. ~InFlight(k) /\ InFlight(g) /\ InFlight(f) /\ ~ShowsMain(f)
    BY <2>1, <2>3 DEF InFlight, Works, ShowsMain
  <2> QED
    BY <1>0, <2>1, <2>2, <2>3, <2>4, ModesKept
<1>4. CASE PostNothing(t)
  <2> DEFINE g == [f EXCEPT !.pc = "current"]
  <2>1. /\ f.fn \in {"change", "trigger"} /\ f.pc = "post" /\ f.mode \in {"UNKNOWN", "FULL"}
        /\ g \in FramesOf(t) /\ HeldBy({g}, {f})
    BY <1>0, <1>4, PostNothingEffect DEF TypeInv
  <2>2. UNCHANGED <<last, current, screenId>> /\ upset \subseteq upset'
    BY <1>4, NoteGrows DEF PostNothing, modeVars, panelVars
  <2>3. g.fn = f.fn /\ g.pc = "current" /\ g.mode = f.mode
    BY <1>0 DEF FramesOf, FrameType
  <2> HIDE DEF g
  <2>4. /\ (InFlight(g) <=> InFlight(f)) /\ (InFlight(f) \/ f.fn \in Works)
        /\ (ShowsMain(f) => f.mode # "COORDINATION")
    BY <2>1, <2>3 DEF InFlight, Works, ShowsMain
  <2> QED
    BY <1>0, <2>1, <2>2, <2>3, <2>4, ModesKept
<1>5. CASE ReadScreenOn(t)
  <2> DEFINE g == [f EXCEPT !.pc = "postMain", !.flag = deviceOn]
  <2>1. /\ f.fn = "change" /\ f.pc = "post" /\ f.mode = "COORDINATION"
        /\ g \in FramesOf(t) /\ HeldBy({g}, {f})
    BY <1>0, <1>5, ReadEffect DEF TypeInv
  <2>2. UNCHANGED <<last, current, screenId>> /\ upset \subseteq upset'
    BY <1>5, NoteGrows DEF ReadScreenOn, modeVars, panelVars
  <2>3. g.fn = f.fn /\ g.pc = "postMain" /\ g.mode = f.mode
    BY <1>0, <2>1 DEF FramesOf, FrameType
  <2> HIDE DEF g
  <2>4. InFlight(g) /\ InFlight(f) /\ ShowsMain(g)
    BY <2>1, <2>3 DEF InFlight, Works, ShowsMain
  <2> QED
    BY <1>0, <2>1, <2>2, <2>3, <2>4, ModesKept
<1> QED
  BY <1>1, <1>2, <1>3, <1>4, <1>5 DEF Posts

LEMMA ShownModes ==
  ASSUME TypeInv, ModeInv, Shown
  PROVE  ModeInv'
<1> USE DEF TypeInv
<1>1. ASSUME NEW t \in Threads, Starts(t) \/ Posts(t)
      PROVE  ModeInv'
  BY <1>1, StartModes, PostModes
<1>2. ASSUME NEW t \in Threads, stack[t] # <<>>, ShowOnBootAnimation(t)
      PROVE  ModeInv'
  <2> DEFINE f == Top(t)
             g == [f EXCEPT !.pc = "current"]
  <2>1. /\ f \in FramesOf(t) /\ f.fn \in {"change", "trigger"} /\ f.pc = "post"
        /\ f.mode \in {"MAIN", "SUB"} /\ g \in FramesOf(t) /\ f \in Held
        /\ \/ HeldBy({g}, {f})
           \/ HeldBy({Done, g}, {f})
    BY <1>2, BootEffect, FrameInHeld
  <2>2. UNCHANGED <<last, current>> /\ upset \subseteq upset'
    BY <1>2 DEF ShowOnBootAnimation, modeVars
  <2>3. g.fn = f.fn /\ g.pc = "current" /\ g.mode = f.mode /\ Done.fn = "done"
    BY <2>1 DEF FramesOf, FrameType, Done, Frame
  <2> HIDE DEF g
  <2>4. /\ (InFlight(g) <=> InFlight(f)) /\ (InFlight(f) \/ f.fn \in Works)
        /\ ~InFlight(Done) /\ Done.fn \notin Works
    BY <2>1, <2>3 DEF InFlight, Works
  <2>5. CASE HeldBy({g}, {f})
    BY <2>1, <2>2, <2>3, <2>4, <2>5, ModesKept
  <2>6. CASE HeldBy({Done, g}, {f})
    BY <2>1, <2>2, <2>3, <2>4, <2>6, ModesKept
  <2> QED
    BY <2>1, <2>5, <2>6
<1>3. ASSUME NEW t \in Threads, Finish(t)
      PROVE  ModeInv'
  <2> DEFINE f == Top(t)
  <2>1. /\ f.fn \in {"change", "trigger"} /\ f.pc \in {"nodes", "current"} /\ f \in Held
        /\ \/ f.fn = "change" /\ current' = f.mode /\ HeldBy({Done}, {f})
           \/ f.fn = "trigger" /\ current' = current /\ HeldBy({}, {f})
    BY <1>3, FinishEffect, FrameInHeld
  <2>2. last' = last /\ upset' = upset /\ screenId' = screenId
    BY <1>3 DEF Finish
  <2>3. CASE f.fn = "trigger" /\ current' = current /\ HeldBy({}, {f})
    <3>1. ~InFlight(f) /\ ~ShowsMain(f)
      BY <2>1, <2>3 DEF InFlight, ShowsMain
    <3> QED
      BY <2>1, <2>2, <2>3, <3>1, ModesKept
  <2>4. CASE f.fn = "change" /\ current' = f.mode /\ HeldBy({Done}, {f})
    <3>1. Done.fn = "done"
      BY DEF Done, Frame
    <3>2. InFlight(f) /\ ~ShowsMain(f) /\ ~InFlight(Done) /\ Done.fn \notin Works
      BY <2>1, <2>4, <3>1 DEF InFlight, ShowsMain, Works
    <3>3. Held' \subseteq Held \cup {Done} /\ Held \subseteq Held' \cup {f}
      BY <2>4 DEF HeldBy
    <3>4. (Calm' <=> Calm) /\ (Upset({"overlap", "exitRaces"})' <=> Upset({"overlap", "exitRaces"}))
      BY <2>2 DEF Calm, Upset
    <3>5. ModesOK'
      BY <2>1, <2>2, <2>4, <3>2, <3>3, <3>4 DEF ModeInv, ModesOK, InFlight
    <3>6. WorkOK'
      BY <2>2, <3>2, <3>3, <3>4 DEF ModeInv, WorkOK, Works
    <3>7. CoordOK'
      BY <2>2, <3>2, <3>3, <3>4 DEF ModeInv, CoordOK, ShowsMain
    <3> QED
      BY <3>5, <3>6, <3>7 DEF ModeInv
  <2> QED
    BY <2>1, <2>3, <2>4
<1>4. CASE TakeTask
  <2>1. HeldBy({}, {})
    BY <1>4, TakeTaskEffect
  <2>2. UNCHANGED <<last, current, screenId>> /\ upset' = upset
    BY <1>4 DEF TakeTask, modeVars, panelVars
  <2> QED
    BY <2>1, <2>2, ModesKept
<1>5. CASE TurnOff \/ TurnOn \/ TurnOnMain \/ TurnOnSub
  <2> DEFINE f == Top("runner")
             g == [f EXCEPT !.pc = "on"]
  <2>1. /\ f \in Held /\ f \in FramesOf("runner") /\ f.fn \in {"offOn", "onMain", "onSub"}
        /\ TurnOff => f.fn = "offOn"
        /\ TurnOn => f.fn = "offOn"
        /\ TurnOnMain => f.fn = "onMain"
        /\ TurnOnSub => f.fn = "onSub"
        /\ \/ HeldBy({Done, g}, {f}) /\ TurnOff
           \/ HeldBy({Done}, {f})
    BY <1>5, TurnOffEffect, TurnOnEffect, FrameInHeld DEF Threads
  <2>2. UNCHANGED <<last, current>> /\ upset' = upset
    BY <1>5 DEF TurnOff, TurnOn, TurnOnMain, TurnOnSub, modeVars
  <2>3. /\ TurnOnMain => screenId' = "main"
        /\ TurnOnSub => screenId' = screenId
    BY DEF TurnOnMain, TurnOnSub
  <2>4. (f.fn = "offOn" => f.mode # "COORDINATION") /\ Done.fn = "done"
        /\ g.fn = f.fn /\ g.mode = f.mode
    BY <2>1 DEF FramesOf, FrameOK, ModeFits, FrameType, Done, Frame
  <2> HIDE DEF g
  <2>5. /\ ~InFlight(f) /\ ~InFlight(g) /\ ~InFlight(Done) /\ Done.fn \notin Works
        /\ f.fn \in Works /\ (ShowsMain(f) => f.fn = "onMain")
    BY <2>1, <2>4 DEF InFlight, Works, ShowsMain
  <2>6. \/ screenId' = "main"
        \/ screenId' = screenId /\ ~ShowsMain(f)
        \/ f.mode # "COORDINATION"
    BY <1>5, <2>1, <2>3, <2>4, <2>5
  <2>7. CASE HeldBy({Done}, {f})
    BY <2>1, <2>2, <2>5, <2>6, <2>7, ModesKept
  <2>8. CASE HeldBy({Done, g}, {f}) /\ TurnOff
    BY <2>1, <2>2, <2>4, <2>5, <2>6, <2>8, ModesKept
  <2> QED
    BY <2>1, <2>7, <2>8
<1> QED
  BY <1>1, <1>2, <1>3, <1>4, <1>5 DEF Shown

LEMMA ExitModes ==
  ASSUME TypeInv, ModeInv, NEW t \in Threads, ExitMode(t)
  PROVE  ModeInv'
<1> USE DEF TypeInv
<1> DEFINE f == Top(t)
           g == [f EXCEPT !.pc = "panel"]
<1>1. /\ f \in FramesOf(t) /\ f.pc = "exitMode"
      /\ \/ f.fn = "suspend" /\ HeldBy({g}, {f})
         \/ f.fn = "cast" /\ HeldBy({}, {f})
  BY ExitModeEffect
<1>2. g.fn = f.fn
  BY <1>1 DEF FramesOf, FrameType
<1> HIDE DEF g
<1>3. f.fn = "suspend" => ~InFlight(g) /\ g.fn \notin Works
  BY <1>2 DEF InFlight, Works
<1>4. \A h \in Held' : h \notin Held => ~InFlight(h) /\ h.fn \notin Works
  BY <1>1, <1>3 DEF HeldBy
<1>5. /\ last' = GetModeMatchStatus /\ current' = GetModeMatchStatus /\ upset \subseteq upset'
      /\ ExitRaces(t) => "exitRaces" \in upset'
  BY DEF ExitMode, ModeOnExit
<1>6. last' # "COORDINATION"
  BY <1>5, ModeOfType
<1>7. ~Upset({"overlap", "exitRaces"})' => ~ExitRaces(t)
  BY <1>5 DEF Upset
<1>8. ~ExitRaces(t) => last = "COORDINATION" /\ ~Unfinished
  BY DEF ExitRaces, Changing
<1>9. ModesOK'
  BY <1>4, <1>5, <1>7, <1>8, NoneUnfinished DEF ModesOK, InFlight
<1>10. WorkOK'
  <2> SUFFICES ASSUME Calm', NEW h \in Held', h.fn \in Works
               PROVE  FALSE
    BY DEF WorkOK, Works
  <2>1. h \in Held /\ last = "COORDINATION" /\ ~Unfinished
    BY <1>4, <1>5, <1>7, <1>8, CalmNow DEF Calm, Upset
  <2>2. h.fn = "trigger"
    BY <2>1, NoneUnfinished DEF Works
  <2>3. h.mode = "COORDINATION"
    BY <1>5, <2>1, CalmNow DEF ModeInv, WorkOK
  <2>4. FrameOK(h)
    BY <2>1, FrameInHeld
  <2> QED
    BY <2>2, <2>3, <2>4 DEF FrameOK, ModeFits
<1>11. CoordOK'
  BY <1>6 DEF CoordOK
<1> QED
  BY <1>9, <1>10, <1>11 DEF ModeInv

LEMMA BootExitModes ==
  ASSUME TypeInv, ModeInv, RecoverWhenBootAnimationExit
  PROVE  ModeInv'
<1> USE DEF TypeInv
<1> DEFINE f == Top("boot")
           c == Change(GetModeMatchStatus)
<1>1. /\ f \in Held /\ f.fn = "boot" /\ c \in Dull
      /\ \/ HeldBy({c}, {f})
         \/ current = GetModeMatchStatus /\ HeldBy({Trigger}, {f})
  BY BootExitEffect, FrameInHeld DEF Threads
<1>2. /\ UNCHANGED <<last, current, screenId>> /\ upset \subseteq upset'
      /\ Changing => "bootRaces" \in upset'
  BY DEF RecoverWhenBootAnimationExit, Note, modeVars, panelVars
<1>3. ~InFlight(f) /\ f.fn \notin Works /\ ~ShowsMain(f)
  BY <1>1 DEF InFlight, Works, ShowsMain
<1>4. CASE HeldBy({c}, {f})
  <2>1. ~InFlight(c) /\ c.fn \notin Works
    BY <1>1 DEF Dull, InFlight, Works
  <2> HIDE DEF c
  <2> QED
    BY <1>1, <1>2, <1>3, <1>4, <2>1, ModesKept
<1>5. CASE current = GetModeMatchStatus /\ HeldBy({Trigger}, {f})
  <2>1. Trigger.fn = "trigger" /\ Trigger.mode = current
    BY <1>5 DEF Trigger, Frame
  <2>2. ~InFlight(Trigger)
    BY <2>1 DEF InFlight
  <2>3. Held' \subseteq Held \cup {Trigger} /\ Held \subseteq Held' \cup {f}
    BY <1>5 DEF HeldBy
  <2>4. (Calm' => Calm) /\ (~Upset({"overlap", "exitRaces"})' => ~Upset({"overlap", "exitRaces"}))
    BY <1>2, CalmNow
  <2>5. ModesOK'
    BY <1>2, <1>3, <2>2, <2>3, <2>4 DEF ModeInv, ModesOK, InFlight
  <2>6. WorkOK'
    <3> SUFFICES ASSUME Calm', NEW h \in Held', h.fn \in Works
                 PROVE  h.mode = last'
      BY DEF WorkOK, Works
    <3>1. last = current
      <4>1. ~Unfinished
        BY <1>2 DEF Calm, Upset, Changing
      <4> QED
        BY <2>4, <4>1, CalmNow, NoneUnfinished DEF ModeInv, ModesOK, Calm, Upset
    <3> QED
      BY <1>2, <2>1, <2>3, <2>4, <3>1 DEF ModeInv, WorkOK
  <2>7. CoordOK'
    BY <1>2, <1>3, <2>3, <2>4 DEF ModeInv, CoordOK, ShowsMain
  <2> QED
    BY <2>5, <2>6, <2>7 DEF ModeInv
<1> QED
  BY <1>1, <1>4, <1>5

LEMMA PoweredModes ==
  ASSUME TypeInv, ModeInv, Powered
  PROVE  ModeInv'
<1> USE DEF TypeInv
<1> DEFINE p == "power"
           Same == UNCHANGED <<last, current, screenId>> /\ upset \subseteq upset'
<1>0. p \in Threads /\ "boot" \in Threads
  BY DEF Threads
\* The calls that come and go show nothing.
<1>1. ASSUME NEW A, NEW B, HeldBy(A, B), Same, B \subseteq Held,
             \A f \in A \cup B : ~InFlight(f) /\ f.fn \notin Works /\ ~ShowsMain(f)
      PROVE  ModeInv'
  BY <1>1, ModesKept
<1>2. \A f : f.fn \in {"suspend", "resume", "cast", "panel", "boot"} =>
        ~InFlight(f) /\ f.fn \notin Works /\ ~ShowsMain(f)
  BY DEF InFlight, Works, ShowsMain
<1>3. ASSUME NEW t \in Threads, ExitSub(t)
      PROVE  ModeInv'
  <2> DEFINE f == Top(t)
             g == [f EXCEPT !.pc = "exitMode"]
  <2>1. f \in Held /\ f \in FramesOf(t) /\ f.fn \in {"suspend", "cast"} /\ HeldBy({g}, {f})
    BY <1>3, ExitSubEffect, FrameInHeld
  <2>2. g.fn = f.fn
    BY <2>1 DEF FramesOf, FrameType
  <2>3. Same
    BY <1>3, NoteGrows DEF ExitSub, modeVars
  <2> HIDE DEF g
  <2> QED
    BY <1>1, <1>2, <2>1, <2>2, <2>3
<1>4. CASE PowerOff \/ PowerOn
  <2>1. PICK g \in FramesOf(p) :
          /\ PowerOff => g = PowerFrame("suspend", IF last = "COORDINATION" THEN "exit" ELSE "panel")
          /\ PowerOn => g = PowerFrame("resume", "panel")
          /\ HeldBy({g}, {})
    BY <1>4, PowerKeyEffect
  <2>2. g.fn \in {"suspend", "resume"}
    BY <1>4, <2>1 DEF PowerFrame, Frame
  <2>3. Same
    BY <1>4 DEF PowerOff, PowerOn, modeVars, panelVars
  <2> QED
    BY <1>1, <1>2, <2>1, <2>2, <2>3
<1>5. CASE PostPanel
  <2> DEFINE f == Top(p)
             g == [f EXCEPT !.pc = "wait"]
             k == Frame("panel", "set", "UNKNOWN", f.flag)
  <2>1. /\ f \in Held /\ f \in FramesOf(p) /\ f.fn \in {"suspend", "resume"}
        /\ HeldBy({k, g}, {f})
    BY <1>0, <1>5, PostPanelEffect, FrameInHeld
  <2>2. g.fn = f.fn /\ k.fn = "panel"
    BY <2>1 DEF FramesOf, FrameType, Frame
  <2>3. Same
    BY <1>5 DEF PostPanel, modeVars, panelVars
  <2> HIDE DEF g, k
  <2> QED
    BY <1>1, <1>2, <2>1, <2>2, <2>3
<1>6. CASE SetPanel
  <2> DEFINE f == Top(p)
             g == [f EXCEPT !.pc = "recover"]
             k == Head(queue)
  <2>1. /\ f \in Held /\ f \in FramesOf(p) /\ k.fn = "panel" /\ f.fn \in {"suspend", "resume"}
        /\ \/ HeldBy({}, {k, f})
           \/ HeldBy({g}, {k, f})
    BY <1>0, <1>6, SetPanelEffect, FrameInHeld
  <2>2. g.fn = f.fn
    BY <2>1 DEF FramesOf, FrameType
  <2>3. k \in Held
    <3>1. queue # <<>>
      BY <1>6 DEF SetPanel
    <3>2. 1 \in DOMAIN queue /\ k = queue[1]
      BY <3>1 DEF QueueOK
    <3> QED
      BY <3>2 DEF Held
  <2>4. Same
    BY <1>6 DEF SetPanel, modeVars
  <2> HIDE DEF g, k
  <2>5. CASE HeldBy({}, {k, f})
    BY <1>1, <1>2, <2>1, <2>2, <2>3, <2>4, <2>5
  <2>6. CASE HeldBy({g}, {k, f})
    BY <1>1, <1>2, <2>1, <2>2, <2>3, <2>4, <2>6
  <2> QED
    BY <2>1, <2>5, <2>6
<1>7. CASE RecoverDisplayMode
  <2> DEFINE f == Top(p)
             c == Change(GetModeMatchStatus)
  <2>1. /\ f \in Held /\ f.fn = "suspend" /\ c \in Dull
        /\ \/ HeldBy({}, {f})
           \/ HeldBy({c}, {f})
    BY <1>0, <1>7, RecoverEffect, FrameInHeld
  <2>2. ~InFlight(c) /\ c.fn \notin Works /\ ~ShowsMain(c)
    BY <2>1 DEF Dull, InFlight, Works, ShowsMain
  <2>3. Same
    BY <1>7 DEF RecoverDisplayMode, modeVars, panelVars
  <2> HIDE DEF c
  <2>4. CASE HeldBy({}, {f})
    BY <1>1, <1>2, <2>1, <2>3, <2>4
  <2>5. CASE HeldBy({c}, {f})
    BY <1>1, <1>2, <2>1, <2>2, <2>3, <2>5
  <2> QED
    BY <2>1, <2>4, <2>5
<1>8. CASE PowerInit
  <2>1. HeldBy({BootFrame}, {}) /\ BootFrame.fn = "boot"
    BY <1>8, PowerInitEffect DEF BootFrame, Frame
  <2>2. Same
    BY <1>8 DEF PowerInit, modeVars
  <2> QED
    BY <1>1, <1>2, <2>1, <2>2
<1> QED
  BY <1>3, <1>4, <1>5, <1>6, <1>7, <1>8, ExitModes, BootExitModes DEF Powered

LEMMA ModeStep ==
  ASSUME TypeInv, ModeInv, [Next]_vars
  PROVE  ModeInv'
<1>1. CASE Next
  BY <1>1, NextCases, AsideModes, ShownModes, PoweredModes DEF TypeInv
<1>2. CASE UNCHANGED vars
  <2>1. Held' = Held /\ UNCHANGED <<last, current, screenId, upset>>
    BY <1>2 DEF vars, modeVars, panelVars, Held, Frames
  <2> QED
    BY <2>1 DEF ModeInv, ModesOK, WorkOK, CoordOK, Calm, Upset, InFlight, ShowsMain, Works
<1> QED
  BY <1>1, <1>2

LEMMA InitHeld ==
  ASSUME Init
  PROVE  Held = {} /\ upset = {} /\ last = current /\ last = wanted
         /\ last \in {"UNKNOWN", "MAIN", "SUB"}
<1>1. last = current /\ last = wanted /\ last \in {"UNKNOWN", "MAIN", "SUB"}
  BY DEF Init
<1>2. stack = [t \in Threads |-> <<>>] /\ queue = <<>> /\ upset = {}
  BY DEF Init
<1>3. Held = {}
  BY <1>2 DEF Held, Frames
<1> QED
  BY <1>1, <1>2, <1>3

LEMMA InitModes ==
  ASSUME Init
  PROVE  ModeInv
  BY InitHeld DEF ModeInv, ModesOK, WorkOK, CoordOK

-----------------------------------------------------------------------------
(* The panel that the power keys act on.                                   *)

\* A device that is on is in no power call but the one that turned it on; a
\* task of the coordination mode that was told that it is off has that call's
\* panel task behind it, unless it was posted after that task.
Prompt == ~Upset({"staleOff"})
PowerOK ==
  /\ deviceOn /\ stack["power"] # <<>> => Top("power").fn = "resume"
  /\ \A f \in Frames("runner") :
       f.fn = "onMain" /\ f.flag = FALSE /\ deviceOn /\ Prompt => stack["power"] # <<>>
  /\ \A i \in DOMAIN queue :
       queue[i].fn = "onMain" /\ queue[i].flag = FALSE /\ deviceOn /\ Prompt =>
         /\ stack["power"] # <<>>
         /\ \A j \in DOMAIN queue : queue[j].fn = "panel" => i < j

Excused ==
  \/ Upset({"exitRaces", "bootRaces"})
  \/ "overlap" \in upset /\ ("exit" \in upset \/ Exiting)
  \/ ~Prompt /\ screenId = "main"
TurningOn == \E f \in Frames("runner") : f.fn = "offOn" /\ f.pc = "on"

\* The panel that the power keys act on is lit, or is about to be.
LitOK ==
  \/ Excused \/ screenId \notin Screens \/ screenId \in lit
  \/ ~deviceOn \/ stack["power"] # <<>> \/ TurningOn
  \/ onBoot /\ Idle("boot")

\* A task that is posted for a device that was off
Prompted == deviceOn /\ Prompt' => stack["power"] # <<>>
NoPanel == \A j \in DOMAIN queue : queue[j].fn # "panel"

LEMMA PowerKept ==
  ASSUME TypeInv, PowerOK, NEW t \in Threads, NEW A, Trades(t, A), deviceOn' = deviceOn,
         stack[t] # <<>> => Top(t).fn # "resume",
         stack[t] = <<>> => t # "power",
         upset \subseteq upset',
         \A a \in A : a.fn = "onMain" /\ a.flag = FALSE => Prompted,
         \/ queue' = queue
         \/ \E k \in Tasks : /\ queue' = Append(queue, k) /\ k.fn # "panel"
                             /\ k.fn = "onMain" /\ k.flag = FALSE =>
                                  Prompted /\ (deviceOn /\ Prompt' => NoPanel)
  PROVE  PowerOK'
<1>0. Prompt' => Prompt
  BY DEF Prompt, Upset
<1>1. CASE ~deviceOn
  BY <1>1 DEF PowerOK
<1>2. CASE deviceOn
  <2>1. stack'["power"] = stack["power"] /\ Top("power")' = Top("power")
    <3>1. t # "power"
      BY <1>2 DEF PowerOK
    <3>2. stack'["power"] = stack["power"]
      BY <3>1 DEF Trades, Threads
    <3> QED
      BY <3>2 DEF Top
  <2>2. \A f \in Frames("runner")' : f \in Frames("runner") \/ f \in A
    <3>1. RestFrames(t) \subseteq Frames(t)
      BY RestFacts DEF TypeInv
    <3> QED
      BY <3>1 DEF Trades, Threads
  <2>3. \A f \in Frames("runner")' :
          f.fn = "onMain" /\ f.flag = FALSE /\ Prompt' => stack["power"] # <<>>
    BY <1>0, <1>2, <2>2 DEF PowerOK, Prompted
  <2>4. \A i \in DOMAIN queue' :
          /\ queue'[i].fn = "onMain" /\ queue'[i].flag = FALSE /\ Prompt' =>
               \/ i \in DOMAIN queue /\ queue'[i] = queue[i]
               \/ stack["power"] # <<>> /\ \A j \in DOMAIN queue' : queue'[j].fn # "panel"
          /\ queue'[i].fn = "panel" => i \in DOMAIN queue /\ queue'[i] = queue[i]
    <3>1. CASE queue' = queue
      BY <3>1
    <3>2. CASE \E k \in Tasks : /\ queue' = Append(queue, k) /\ k.fn # "panel"
                                /\ k.fn = "onMain" /\ k.flag = FALSE =>
                                     Prompted /\ (deviceOn /\ Prompt' => NoPanel)
      <4>1. PICK k \in Tasks : /\ queue' = Append(queue, k) /\ k.fn # "panel"
                               /\ k.fn = "onMain" /\ k.flag = FALSE =>
                                    Prompted /\ (deviceOn /\ Prompt' => NoPanel)
        BY <3>2
      <4>2. /\ \A i \in DOMAIN queue : queue'[i] = queue[i]
            /\ Len(queue) \in Nat /\ DOMAIN queue' = 1..(Len(queue) + 1) /\ DOMAIN queue = 1..Len(queue)
            /\ queue'[Len(queue) + 1] = k
        BY <4>1, QueueAppend DEF TypeInv, QueueOK
      <4>3. \A n \in Nat : \A i \in 1..(n + 1) : i \in 1..n \/ i = n + 1
        OBVIOUS
      <4>4. \A i \in DOMAIN queue' : i \in DOMAIN queue \/ i = Len(queue) + 1
        BY <4>2, <4>3
      <4> QED
        BY <1>2, <4>1, <4>2, <4>4 DEF Prompted, NoPanel
    <3> QED
      BY <3>1, <3>2
  <2>5. \A i \in DOMAIN queue' :
          queue'[i].fn = "onMain" /\ queue'[i].flag = FALSE /\ Prompt' =>
            /\ stack["power"] # <<>>
            /\ \A j \in DOMAIN queue' : queue'[j].fn = "panel" => i < j
    BY <1>0, <1>2, <2>4 DEF PowerOK
  <2> QED
    BY <1>2, <2>1, <2>3, <2>5 DEF PowerOK
<1> QED
  BY <1>1, <1>2

LEMMA ExitingKept ==
  ASSUME TypeInv, NEW t \in Threads, NEW A, Trades(t, A),
         stack[t] # <<>> => Top(t).pc # "exitMode", Exiting
  PROVE  Exiting'
<1>1. PICK u \in Threads : \E f \in Frames(u) : f.pc = "exitMode"
  BY DEF Exiting
<1>2. CASE u # t
  <2>1. Frames(u)' = Frames(u)
    BY <1>2 DEF Trades
  <2> QED
    BY <1>1, <2>1 DEF Exiting
<1>3. CASE u = t
  <2>1. stack[t] # <<>>
    BY <1>1, <1>3, RestFacts DEF TypeInv
  <2>2. \E f \in RestFrames(t) : f.pc = "exitMode"
    BY <1>1, <1>3, <2>1, TopFacts DEF TypeInv
  <2>3. \E f \in Frames(t)' : f.pc = "exitMode"
    BY <2>2 DEF Trades
  <2> QED
    BY <2>3 DEF Exiting
<1> QED
  BY <1>2, <1>3

LEMMA LitKept ==
  ASSUME TypeInv, LitOK, NEW t \in Threads, NEW A, Trades(t, A),
         UNCHANGED <<screenId, deviceOn>>, lit \subseteq lit', upset \subseteq upset',
         onBoot' = onBoot \/ stack["boot"] # <<>>,
         t = "power" /\ deviceOn /\ stack[t] # <<>> => stack'[t] # <<>>,
         stack[t] # <<>> => /\ Top(t).pc = "exitMode" => "exit" \in upset'
                            /\ ~(Top(t).fn = "offOn" /\ Top(t).pc = "on"),
         stack[t] = <<>> => t # "boot"
  PROVE  LitOK'
<1>1. Excused => Excused'
  <2>1. Exiting => Exiting' \/ "exit" \in upset'
    BY ExitingKept
  <2> QED
    BY <2>1 DEF Excused, Prompt, Upset
<1>2. TurningOn => TurningOn'
  <2> SUFFICES ASSUME TurningOn PROVE TurningOn'
    OBVIOUS
  <2>1. PICK f \in Frames("runner") : f.fn = "offOn" /\ f.pc = "on"
    BY DEF TurningOn
  <2>2. CASE t = "runner"
    <3>1. stack[t] # <<>>
      BY <2>1, <2>2, RestFacts DEF TypeInv
    <3>2. f \in RestFrames(t)
      BY <2>1, <2>2, <3>1, TopFacts DEF TypeInv
    <3>3. f \in Frames(t)'
      BY <3>2 DEF Trades
    <3> QED
      BY <2>1, <2>2, <3>3 DEF TurningOn
  <2>3. CASE t # "runner"
    <3>1. Frames("runner")' = Frames("runner")
      BY <2>3 DEF Trades, Threads
    <3> QED
      BY <2>1, <3>1 DEF TurningOn
  <2> QED
    BY <2>2, <2>3
<1>3. deviceOn /\ stack["power"] # <<>> => stack'["power"] # <<>>
  <2>1. CASE t = "power"
    BY <2>1
  <2>2. CASE t # "power"
    BY <2>2 DEF Trades, Threads
  <2> QED
    BY <2>1, <2>2
<1>4. onBoot /\ Idle("boot") => onBoot' /\ Idle("boot")'
  <2> SUFFICES ASSUME onBoot, stack["boot"] = <<>>
               PROVE  onBoot' /\ stack'["boot"] = <<>>
    BY DEF Idle
  <2>1. t # "boot"
    OBVIOUS
  <2>2. stack'["boot"] = stack["boot"]
    BY <2>1 DEF Trades, Threads
  <2> QED
    BY <2>2
<1> QED
  BY <1>1, <1>2, <1>3, <1>4 DEF LitOK

LEMMA AsidePower ==
  ASSUME TypeInv, PowerOK, upset \subseteq upset', Aside
  PROVE  PowerOK'
<1>1. deviceOn' = deviceOn /\ queue' = queue
  BY DEF Aside
<1>2. CASE UNCHANGED stack
  BY <1>1, <1>2 DEF PowerOK, Frames, Top, Prompt, Upset
<1>3. CASE \E t \in Threads : AsideBy(t)
  <2>1. PICK t \in Threads : AsideBy(t)
    BY <1>3
  <2>2. PICK A \in SUBSET Dull : Trades(t, A)
    BY <2>1 DEF AsideBy
  <2>3. \A f \in Dull : f.fn \notin {"onMain", "resume"}
    BY DEF Dull
  <2>4. stack[t] # <<>> => Top(t).fn # "resume"
    BY <2>1, <2>3 DEF AsideBy
  <2>5. stack[t] = <<>> => t # "power"
    BY <2>1 DEF AsideBy
  <2> QED
    BY <1>1, <2>2, <2>3, <2>4, <2>5, PowerKept
<1> QED
  BY <1>2, <1>3 DEF Aside

\* A task that is posted, as a step of the thread and of the queue
LEMMA PostsTrades ==
  ASSUME StackOK, NEW t \in Threads, NEW k \in Tasks, NEW g \in FramesOf(t), k.fn # "panel",
         PostsTask(t, k, g)
  PROVE  /\ stack'[t] # <<>>
         /\ \/ Trades(t, {k, g}) /\ queue' = queue
            \/ Trades(t, {g}) /\ queue' = Append(queue, k) /\ t # "runner"
<1>1. CASE t = "runner"
  <2>1. k \in FramesOf(t) /\ Moves(t, <<k, g>>) /\ queue' = queue
    BY <1>1, TaskFrames DEF PostsTask
  <2> QED
    BY <2>1, Moves2
<1>2. CASE t # "runner"
  <2>1. Moves(t, <<g>>) /\ queue' = Append(queue, k)
    BY <1>2 DEF PostsTask
  <2> QED
    BY <1>2, <2>1, Moves1
<1> QED
  BY <1>1, <1>2

LEMMA PostsPower ==
  ASSUME TypeInv, PowerOK, NEW t \in Threads, NEW k \in Tasks, NEW g \in FramesOf(t),
         stack[t] # <<>>, Top(t).fn # "resume", k.fn # "panel", g.fn # "onMain",
         PostsTask(t, k, g), deviceOn' = deviceOn, upset \subseteq upset',
         k.fn = "onMain" /\ k.flag = FALSE =>
           Prompted /\ (deviceOn /\ Prompt' => t = "runner" \/ NoPanel)
  PROVE  PowerOK'
<1>1. \/ Trades(t, {k, g}) /\ queue' = queue
      \/ Trades(t, {g}) /\ queue' = Append(queue, k) /\ t # "runner"
  BY PostsTrades DEF TypeInv
<1>2. CASE Trades(t, {k, g}) /\ queue' = queue
  <2>1. \A a \in {k, g} : a.fn = "onMain" /\ a.flag = FALSE => Prompted
    OBVIOUS
  <2> QED
    BY <1>2, <2>1, PowerKept
<1>3. CASE Trades(t, {g}) /\ queue' = Append(queue, k) /\ t # "runner"
  <2>1. \A a \in {g} : a.fn = "onMain" /\ a.flag = FALSE => Prompted
    OBVIOUS
  <2>2. \E h \in Tasks : /\ queue' = Append(queue, h) /\ h.fn # "panel"
                         /\ h.fn = "onMain" /\ h.flag = FALSE =>
                              Prompted /\ (deviceOn /\ Prompt' => NoPanel)
    BY <1>3
  <2> QED
    BY <1>3, <2>1, <2>2, PowerKept
<1> QED
  BY <1>1, <1>2, <1>3

LEMMA PostPower ==
  ASSUME TypeInv, PowerOK, upset \subseteq upset', NEW t \in Threads, Posts(t)
  PROVE  PowerOK'
<1> USE DEF TypeInv
<1> DEFINE f == Top(t)
<1>0. stack[t] # <<>>
  BY DEF Posts
<1>1. CASE PostOffOn(t)
  <2> DEFINE g == [f EXCEPT !.pc = "nodes"]
             k == OffOnTask(t)
  <2>1. /\ f \in FramesOf(t) /\ f.fn \in {"change", "trigger"}
        /\ g \in FramesOf(t) /\ PostsTask(t, k, g) /\ k \in Tasks
    BY <1>0, <1>1, OffOnEffect
  <2>2. deviceOn' = deviceOn
    BY <1>1 DEF PostOffOn, powerVars
  <2>3. g.fn = f.fn /\ k.fn = "offOn"
    BY <2>1 DEF FramesOf, FrameType, OffOnTask, Frame
  <2> HIDE DEF g, k
  <2> QED
    BY <1>0, <2>1, <2>2, <2>3, PostsPower
<1>2. CASE PostOnMain(t)
  <2> DEFINE g == [f EXCEPT !.pc = "postSub"]
             k == OnMainTask(t)
  <2>1. /\ f \in FramesOf(t) /\ f.fn = "change"
        /\ g \in FramesOf(t) /\ PostsTask(t, k, g) /\ k \in Tasks
    BY <1>0, <1>2, OnMainEffect
  <2>2. deviceOn' = deviceOn
    BY <1>2 DEF PostOnMain, powerVars
  <2>3. g.fn = f.fn /\ k.fn = "onMain" /\ k.flag = f.flag
    BY <2>1 DEF FramesOf, FrameType, OnMainTask, Frame
  <2>4. k.flag = FALSE /\ deviceOn /\ Prompt' => PanelToCome(t)
    BY <1>2, <2>3 DEF PostOnMain, Note, Prompt, Upset
  <2>5. PanelToCome(t) => stack["power"] # <<>> /\ (t = "runner" \/ NoPanel)
    BY DEF PanelToCome, PanelOK, NoPanel
  <2>6. k.flag = FALSE => Prompted /\ (deviceOn /\ Prompt' => t = "runner" \/ NoPanel)
    BY <2>4, <2>5 DEF Prompted
  <2> HIDE DEF g, k
  <2> QED
    BY <1>0, <2>1, <2>2, <2>3, <2>6, PostsPower
<1>3. CASE PostOnSub(t)
  <2> DEFINE g == [f EXCEPT !.pc = "nodes"]
             k == OnSubTask(t)
  <2>1. /\ f \in FramesOf(t) /\ f.fn = "change"
        /\ g \in FramesOf(t) /\ PostsTask(t, k, g) /\ k \in Tasks
    BY <1>0, <1>3, OnSubEffect
  <2>2. deviceOn' = deviceOn
    BY <1>3 DEF PostOnSub, powerVars
  <2>3. g.fn = f.fn /\ k.fn = "onSub"
    BY <2>1 DEF FramesOf, FrameType, OnSubTask, Frame
  <2> HIDE DEF g, k
  <2> QED
    BY <1>0, <2>1, <2>2, <2>3, PostsPower
<1>4. CASE PostNothing(t)
  <2> DEFINE g == [f EXCEPT !.pc = "current"]
  <2>1. /\ f \in FramesOf(t) /\ f.fn \in {"change", "trigger"}
        /\ g \in FramesOf(t) /\ Moves(t, <<g>>)
    BY <1>0, <1>4, PostNothingEffect
  <2>2. deviceOn' = deviceOn /\ queue' = queue
    BY <1>4 DEF PostNothing, powerVars
  <2>3. g.fn = f.fn
    BY <2>1 DEF FramesOf, FrameType
  <2> HIDE DEF g
  <2>4. Trades(t, {g})
    BY <2>1, Moves1
  <2>5. \A a \in {g} : a.fn # "onMain"
    BY <2>1, <2>3
  <2> QED
    BY <1>0, <2>1, <2>2, <2>4, <2>5, PowerKept
<1>5. CASE ReadScreenOn(t)
  <2> DEFINE g == [f EXCEPT !.pc = "postMain", !.flag = deviceOn]
  <2>1. f \in FramesOf(t) /\ f.fn = "change" /\ g \in FramesOf(t) /\ Moves(t, <<g>>)
    BY <1>0, <1>5, ReadEffect
  <2>2. deviceOn' = deviceOn /\ queue' = queue
    BY <1>5 DEF ReadScreenOn, powerVars
  <2>3. g.fn = f.fn
    BY <2>1 DEF FramesOf, FrameType
  <2> HIDE DEF g
  <2>4. Trades(t, {g})
    BY <2>1, Moves1
  <2>5. \A a \in {g} : a.fn # "onMain"
    BY <2>1, <2>3
  <2> QED
    BY <1>0, <2>1, <2>2, <2>4, <2>5, PowerKept
<1> QED
  BY <1>1, <1>2, <1>3, <1>4, <1>5 DEF Posts

LEMMA TakePower ==
  ASSUME TypeInv, PowerOK, upset \subseteq upset', TakeTask
  PROVE  PowerOK'
<1> USE DEF TypeInv
<1> DEFINE r == "runner"
           k == Head(queue)
<1>1. /\ queue # <<>> /\ queue' = Tail(queue) /\ k \in FramesOf(r) /\ Moves(r, <<k>>)
      /\ stack[r] = <<>> /\ r \in Threads
  BY TakeTaskEffect DEF Threads
<1>2. deviceOn' = deviceOn
  BY DEF TakeTask, powerVars
<1>3. Trades(r, {k}) /\ RestFrames(r) = {}
  BY <1>1, Moves1, RestFacts
<1>4. /\ 1 \in DOMAIN queue /\ queue[1] = k
      /\ \A i \in DOMAIN queue' : i + 1 \in DOMAIN queue /\ queue'[i] = queue[i + 1]
      /\ \A i \in DOMAIN queue' : i \in Nat
  BY <1>1, QueueTail
<1>5. stack'["power"] = stack["power"] /\ Top("power")' = Top("power")
  <2>1. stack'["power"] = stack["power"]
    BY <1>3 DEF Trades, Threads
  <2> QED
    BY <2>1 DEF Top
<1>6. \A f \in Frames(r)' : f = k
  BY <1>3 DEF Trades
<1>0. Prompt' => Prompt
  BY DEF Prompt, Upset
<1>7. \A f \in Frames(r)' :
        f.fn = "onMain" /\ f.flag = FALSE /\ deviceOn /\ Prompt' => stack["power"] # <<>>
  BY <1>0, <1>4, <1>6 DEF PowerOK
<1>8. \A i \in DOMAIN queue' :
        queue'[i].fn = "onMain" /\ queue'[i].flag = FALSE /\ deviceOn /\ Prompt' =>
          /\ stack["power"] # <<>>
          /\ \A j \in DOMAIN queue' : queue'[j].fn = "panel" => i < j
  <2> SUFFICES ASSUME NEW i \in DOMAIN queue', queue'[i].fn = "onMain", queue'[i].flag = FALSE,
                      deviceOn, Prompt'
               PROVE  /\ stack["power"] # <<>>
                      /\ \A j \in DOMAIN queue' : queue'[j].fn = "panel" => i < j
    OBVIOUS
  <2>1. /\ stack["power"] # <<>>
        /\ \A j \in DOMAIN queue : queue[j].fn = "panel" => i + 1 < j
    BY <1>0, <1>4 DEF PowerOK
  <2>2. \A j \in DOMAIN queue' : queue'[j].fn = "panel" => i + 1 < j + 1
    BY <1>4, <2>1
  <2>3. \A a, b \in Nat : a + 1 < b + 1 => a < b
    OBVIOUS
  <2> QED
    BY <1>4, <2>1, <2>2, <2>3
<1> QED
  BY <1>2, <1>5, <1>7, <1>8 DEF PowerOK

LEMMA ShownPower ==
  ASSUME TypeInv, PowerOK, upset \subseteq upset', Shown
  PROVE  PowerOK'
<1> USE DEF TypeInv
<1>1. ASSUME NEW t \in Threads, Starts(t)
      PROVE  PowerOK'
  <2> DEFINE f == Top(t)
             g == [f EXCEPT !.pc = "post"]
  <2>1. /\ f \in FramesOf(t) /\ f.fn = "change" /\ stack[t] # <<>>
        /\ g \in FramesOf(t) /\ Moves(t, <<g>>) /\ Start(t)
    BY <1>1 DEF Starts
  <2>2. deviceOn' = deviceOn /\ queue' = queue
    BY <2>1 DEF Start, powerVars
  <2>3. g.fn = f.fn
    BY <2>1 DEF FramesOf, FrameType
  <2> HIDE DEF g
  <2>4. Trades(t, {g}) /\ \A a \in {g} : a.fn # "onMain"
    BY <2>1, <2>3, Moves1
  <2> QED
    BY <2>1, <2>2, <2>4, PowerKept
<1>2. ASSUME NEW t \in Threads, stack[t] # <<>>, ShowOnBootAnimation(t)
      PROVE  PowerOK'
  <2> DEFINE f == Top(t)
             g == [f EXCEPT !.pc = "current"]
  <2>1. /\ f \in FramesOf(t) /\ f.fn \in {"change", "trigger"} /\ g \in FramesOf(t)
        /\ Moves(t, <<g>>) \/ Moves(t, <<Done, g>>)
    BY <1>2, BootEffect
  <2>2. deviceOn' = deviceOn /\ queue' = queue
    BY <1>2 DEF ShowOnBootAnimation, powerVars
  <2>3. g.fn = f.fn /\ Done.fn = "done"
    BY <2>1 DEF FramesOf, FrameType, Done, Frame
  <2>4. Done \in FramesOf(t)
    BY NewFrames
  <2> HIDE DEF g
  <2>5. \E A \in SUBSET {Done, g} : Trades(t, A)
    <3>1. CASE Moves(t, <<g>>)
      <4>1. Trades(t, {g})
        BY <2>1, <3>1, Moves1
      <4> QED
        BY <4>1
    <3>2. CASE Moves(t, <<Done, g>>)
      <4>1. Trades(t, {Done, g})
        BY <2>1, <2>4, <3>2, Moves2
      <4> QED
        BY <4>1
    <3> QED
      BY <2>1, <3>1, <3>2
  <2>6. \A a \in {Done, g} : a.fn # "onMain"
    BY <2>1, <2>3
  <2> QED
    BY <1>2, <2>1, <2>2, <2>5, <2>6, PowerKept
<1>3. ASSUME NEW t \in Threads, Finish(t)
      PROVE  PowerOK'
  <2>1. /\ stack[t] # <<>> /\ Top(t).fn \in {"change", "trigger"}
        /\ Moves(t, <<Done>>) \/ Moves(t, <<>>)
    BY <1>3, FinishEffect
  <2>2. deviceOn' = deviceOn /\ queue' = queue
    BY <1>3 DEF Finish, powerVars
  <2>3. Done \in FramesOf(t) /\ Done.fn = "done"
    BY NewFrames DEF Done, Frame
  <2>4. Trades(t, {Done}) \/ Trades(t, {})
    BY <2>1, <2>3, Moves0, Moves1
  <2>5. \A a \in {Done} : a.fn # "onMain"
    BY <2>3
  <2>6. CASE Trades(t, {Done})
    BY <2>1, <2>2, <2>5, <2>6, PowerKept
  <2>7. CASE Trades(t, {})
    <3>1. PICK A : Trades(t, A) /\ \A a \in A : a.fn # "onMain"
      BY <2>7
    <3> QED
      BY <2>1, <2>2, <3>1, PowerKept
  <2> QED
    BY <2>4, <2>6, <2>7
<1>4. CASE TurnOff \/ TurnOn \/ TurnOnMain \/ TurnOnSub
  <2> DEFINE r == "runner"
             f == Top(r)
             g == [f EXCEPT !.pc = "on"]
  <2>0. r \in Threads /\ Done \in FramesOf(r) /\ Done.fn = "done"
    BY NewFrames DEF Threads, Done, Frame
  <2>1. deviceOn' = deviceOn /\ queue' = queue
    BY <1>4 DEF TurnOff, TurnOn, TurnOnMain, TurnOnSub, powerVars
  <2>2. /\ stack[r] # <<>> /\ f \in FramesOf(r)
        /\ \/ Moves(r, <<Done>>)
           \/ f.fn = "offOn" /\ g \in FramesOf(r) /\ Moves(r, <<Done, g>>)
    BY <1>4, TurnOffEffect, TurnOnEffect
  <2>3. f.fn # "resume"
    BY <2>2 DEF FramesOf, CallsOf
  <2>4. g.fn = f.fn
    BY <2>2 DEF FramesOf, FrameType
  <2> HIDE DEF g
  <2>5. CASE Moves(r, <<Done>>)
    <3>1. Trades(r, {Done}) /\ \A a \in {Done} : a.fn # "onMain"
      BY <2>0, <2>5, Moves1
    <3> QED
      BY <2>0, <2>1, <2>2, <2>3, <3>1, PowerKept
  <2>6. CASE f.fn = "offOn" /\ g \in FramesOf(r) /\ Moves(r, <<Done, g>>)
    <3>1. Trades(r, {Done, g}) /\ \A a \in {Done, g} : a.fn # "onMain"
      BY <2>0, <2>4, <2>6, Moves2
    <3> QED
      BY <2>0, <2>1, <2>2, <2>3, <3>1, PowerKept
  <2> QED
    BY <2>2, <2>5, <2>6
<1> QED
  BY <1>1, <1>2, <1>3, <1>4, PostPower, TakePower DEF Shown

LEMMA PowerKeyPower ==
  ASSUME TypeInv, PowerOK, upset \subseteq upset', PowerOff \/ PowerOn
  PROVE  PowerOK'
<1> USE DEF TypeInv
<1>1. CASE PowerOff
  <2>1. deviceOn' = FALSE
    BY <1>1 DEF PowerOff
  <2> QED
    BY <2>1 DEF PowerOK
<1>2. CASE PowerOn
  <2>1. PICK g \in FramesOf("power") :
          /\ g = PowerFrame("resume", "panel")
          /\ stack["power"] = <<>> /\ Moves("power", <<g>>)
    BY <1>2, PowerKeyEffect
  <2>2. g.fn = "resume" /\ queue' = queue /\ "power" \in Threads
    BY <1>2, <2>1 DEF PowerFrame, Frame, PowerOn, Threads
  <2>3. stack'["power"] # <<>> /\ Top("power")' = g
    BY <2>1, <2>2, Moves1
  <2>4. \A i \in DOMAIN queue' : queue'[i].fn # "panel"
    BY <2>1, <2>2 DEF PanelOK
  <2> QED
    BY <2>2, <2>3, <2>4 DEF PowerOK
<1> QED
  BY <1>1, <1>2

LEMMA PostPanelPower ==
  ASSUME TypeInv, PowerOK, upset \subseteq upset', PostPanel
  PROVE  PowerOK'
<1> USE DEF TypeInv
<1> DEFINE p == "power"
           f == Top(p)
           g == [f EXCEPT !.pc = "wait"]
           k == Frame("panel", "set", "UNKNOWN", f.flag)
<1>0. p \in Threads /\ "runner" \in Threads \ {p}
  BY DEF Threads
<1>1. /\ stack[p] # <<>> /\ f \in FramesOf(p) /\ f.pc = "panel" /\ g \in FramesOf(p)
      /\ k \in Tasks /\ queue' = Append(queue, k) /\ Moves(p, <<g>>)
  BY PostPanelEffect
<1>2. deviceOn' = deviceOn
  BY DEF PostPanel, powerVars
<1>3. g.fn = f.fn /\ k.fn = "panel"
  BY <1>1 DEF FramesOf, FrameType, Frame
<1> HIDE DEF g, k
<1>4. stack'[p] # <<>> /\ Top(p)' = g /\ Trades(p, {g})
  BY <1>0, <1>1, Moves1
<1>5. Frames("runner")' = Frames("runner")
  BY <1>0, <1>4 DEF Trades
<1>6. /\ \A i \in DOMAIN queue : queue'[i] = queue[i]
      /\ Len(queue) \in Nat /\ DOMAIN queue' = 1..(Len(queue) + 1) /\ DOMAIN queue = 1..Len(queue)
      /\ queue'[Len(queue) + 1] = k
  BY <1>1, QueueAppend DEF QueueOK
<1>7. \A n \in Nat : \A i \in 1..(n + 1) : (i \in 1..n /\ i < n + 1) \/ i = n + 1
  OBVIOUS
<1>8. \A i \in DOMAIN queue' : (i \in DOMAIN queue /\ i < Len(queue) + 1) \/ i = Len(queue) + 1
  BY <1>6, <1>7
<1>9. \A j \in DOMAIN queue : queue[j].fn # "panel"
  BY <1>1 DEF PanelOK
<1>10. \A i \in DOMAIN queue' : queue'[i].fn = "onMain" =>
         \A j \in DOMAIN queue' : queue'[j].fn = "panel" => i < j
  <2> SUFFICES ASSUME NEW i \in DOMAIN queue', queue'[i].fn = "onMain",
                      NEW j \in DOMAIN queue', queue'[j].fn = "panel"
               PROVE  i < j
    OBVIOUS
  <2>1. j = Len(queue) + 1
    BY <1>6, <1>8, <1>9
  <2>2. i # Len(queue) + 1
    BY <1>3, <1>6
  <2> QED
    BY <1>8, <2>1, <2>2
<1>11. \A h \in Frames("runner")' :
         h.fn = "onMain" /\ h.flag = FALSE /\ deviceOn' => stack'[p] # <<>>
  BY <1>4
<1>12. deviceOn' /\ stack'[p] # <<>> => Top(p)'.fn = "resume"
  BY <1>1, <1>2, <1>3, <1>4 DEF PowerOK
<1> QED
  BY <1>4, <1>10, <1>11, <1>12 DEF PowerOK

LEMMA SetPanelPower ==
  ASSUME TypeInv, PowerOK, upset \subseteq upset', SetPanel
  PROVE  PowerOK'
<1> USE DEF TypeInv
<1> DEFINE p == "power"
           f == Top(p)
<1>0. p \in Threads /\ "runner" \in Threads \ {p}
  BY DEF Threads
<1>1. deviceOn' = deviceOn
  BY DEF SetPanel, powerVars
<1>2. CASE ~deviceOn
  BY <1>1, <1>2 DEF PowerOK
<1>3. CASE deviceOn
  <2>1. /\ stack["runner"] = <<>> /\ stack[p] # <<>> /\ f \in Frames(p) /\ queue' = Tail(queue)
        /\ Head(queue).fn = "panel"
        /\ f.fn = "resume" => Moves(p, <<>>)
    BY SetPanelEffect
  <2>2. f.fn = "resume" /\ Moves(p, <<>>) /\ queue # <<>>
    BY <1>3, <2>1 DEF PowerOK, SetPanel
  <2>3. stack'[p] = Rest(p) /\ Trades(p, {})
    BY <1>0, <2>2, Moves0
  <2>4. stack'[p] = <<>>
    <3>1. Len(Rest(p)) = 0 /\ Rest(p) \in Seq(FramesOf(p))
      BY <1>0, <2>1, <2>2, LoneFacts, RestFacts DEF Lone
    <3> QED
      BY <2>3, <3>1
  <2>5. Frames("runner")' = {}
    BY <1>0, <2>1, <2>3, RestFacts DEF Trades
  <2>6. /\ 1 \in DOMAIN queue /\ queue[1] = Head(queue)
        /\ \A i \in DOMAIN queue' : i + 1 \in DOMAIN queue /\ queue'[i] = queue[i + 1]
        /\ \A i \in DOMAIN queue' : i \in Nat
    BY <2>1, <2>2, QueueTail
  <2>7. \A i \in DOMAIN queue' : ~(queue'[i].fn = "onMain" /\ queue'[i].flag = FALSE /\ Prompt')
    <3> SUFFICES ASSUME NEW i \in DOMAIN queue', queue'[i].fn = "onMain",
                        queue'[i].flag = FALSE, Prompt'
                 PROVE  FALSE
      OBVIOUS
    <3>1. i + 1 \in DOMAIN queue /\ queue'[i] = queue[i + 1] /\ i \in Nat
      BY <2>6
    <3>2. queue[i + 1].fn = "onMain" /\ queue[i + 1].flag = FALSE
      BY <3>1
    <3>3. 1 \in DOMAIN queue /\ queue[1].fn = "panel"
      BY <2>1, <2>6
    <3>4. i + 1 < 1
      BY <1>3, <3>1, <3>2, <3>3 DEF PowerOK, Prompt, Upset
    <3> QED
      BY <3>1, <3>4
  <2> QED
    BY <2>4, <2>5, <2>7 DEF PowerOK
<1> QED
  BY <1>2, <1>3

LEMMA PoweredPower ==
  ASSUME TypeInv, PowerOK, upset \subseteq upset', Powered
  PROVE  PowerOK'
<1> USE DEF TypeInv
<1>1. ASSUME NEW t \in Threads, ExitSub(t) \/ ExitMode(t)
      PROVE  PowerOK'
  <2> DEFINE f == Top(t)
  <2>1. /\ stack[t] # <<>> /\ f \in FramesOf(t) /\ f.fn \in {"suspend", "cast"}
        /\ \/ \E g \in FramesOf(t) : g.fn = f.fn /\ Moves(t, <<g>>)
           \/ Moves(t, <<>>)
    <3>1. \A pc : f \in FramesOf(t) => [f EXCEPT !.pc = pc].fn = f.fn
      BY DEF FramesOf, FrameType
    <3> QED
      BY <1>1, <3>1, ExitSubEffect, ExitModeEffect
  <2>2. deviceOn' = deviceOn /\ queue' = queue
    BY <1>1 DEF ExitSub, ExitMode, powerVars
  <2>3. CASE \E g \in FramesOf(t) : g.fn = f.fn /\ Moves(t, <<g>>)
    <3>1. PICK g \in FramesOf(t) : g.fn = f.fn /\ Moves(t, <<g>>)
      BY <2>3
    <3>2. Trades(t, {g}) /\ \A a \in {g} : a.fn # "onMain"
      BY <2>1, <3>1, Moves1
    <3> QED
      BY <2>1, <2>2, <3>2, PowerKept
  <2>4. CASE Moves(t, <<>>)
    <3>1. Trades(t, {})
      BY <2>4, Moves0
    <3>2. PICK A : Trades(t, A) /\ \A a \in A : a.fn # "onMain"
      BY <3>1
    <3> QED
      BY <2>1, <2>2, <3>2, PowerKept
  <2> QED
    BY <2>1, <2>3, <2>4
<1>2. CASE RecoverDisplayMode
  <2>1. stack["power"] # <<>> /\ Top("power").fn = "suspend" /\ deviceOn' = deviceOn
    BY <1>2 DEF RecoverDisplayMode, At, powerVars
  <2> QED
    BY <2>1 DEF PowerOK
<1>3. CASE PowerInit
  <2>1. /\ stack["boot"] = <<>> /\ "boot" \in Threads /\ BootFrame \in FramesOf("boot")
        /\ Moves("boot", <<BootFrame>>)
    BY <1>3, PowerInitEffect DEF Threads
  <2>4. \A a \in {BootFrame} : a.fn # "onMain"
    BY DEF BootFrame, Frame
  <2>2. Trades("boot", {BootFrame})
    BY <2>1, Moves1
  <2>3. deviceOn' = deviceOn /\ queue' = queue
    BY <1>3 DEF PowerInit, powerVars
  <2> QED
    BY <2>1, <2>2, <2>3, <2>4, PowerKept
<1>4. CASE RecoverWhenBootAnimationExit
  <2> DEFINE f == Top("boot")
             c == Change(GetModeMatchStatus)
  <2>1. /\ stack["boot"] # <<>> /\ f.fn = "boot" /\ "boot" \in Threads
        /\ c \in Dull \cap FramesOf("boot") /\ Trigger \in FramesOf("boot")
        /\ Moves("boot", <<c>>) \/ Moves("boot", <<Trigger>>)
    BY <1>4, BootExitEffect DEF Threads
  <2>2. deviceOn' = deviceOn /\ queue' = queue
    BY <1>4 DEF RecoverWhenBootAnimationExit, powerVars
  <2>3. c.fn # "onMain" /\ Trigger.fn # "onMain"
    BY <2>1 DEF Dull, Trigger, Frame
  <2> HIDE DEF c
  <2>4. CASE Moves("boot", <<c>>)
    <3>1. Trades("boot", {c}) /\ \A a \in {c} : a.fn # "onMain"
      BY <2>1, <2>3, <2>4, Moves1
    <3> QED
      BY <2>1, <2>2, <3>1, PowerKept
  <2>5. CASE Moves("boot", <<Trigger>>)
    <3>1. Trades("boot", {Trigger}) /\ \A a \in {Trigger} : a.fn # "onMain"
      BY <2>1, <2>3, <2>5, Moves1
    <3> QED
      BY <2>1, <2>2, <3>1, PowerKept
  <2> QED
    BY <2>1, <2>4, <2>5
<1> QED
  BY <1>1, <1>2, <1>3, <1>4, PowerKeyPower, PostPanelPower, SetPanelPower DEF Powered

\* What a step notes; and the power state is stale for a task of the
\* coordination mode only as that is posted.
StaleBy(t) == stack[t] # <<>> /\ PostOnMain(t) /\ Top(t).flag # TRUE
UpsetMore ==
  /\ upset \subseteq upset'
  /\ "staleOff" \in upset' => "staleOff" \in upset \/ \E t \in Threads : StaleBy(t)

LEMMA UpsetStep ==
  ASSUME Next
  PROVE  UpsetMore
<1> USE DEF UpsetMore
<1>1. ASSUME NEW t \in Threads, Step(t)
      PROVE  UpsetMore
  <2>1. CASE SetLastCacheDisplayMode(t) \/ TestRunning(t) \/ Start(t) \/ Finish(t)
    <3>1. CASE SetLastCacheDisplayMode(t) \/ TestRunning(t) \/ Finish(t)
      BY <3>1 DEF SetLastCacheDisplayMode, TestRunning, Finish, Note
    <3>2. CASE Start(t)
      <4>1. \/ \E b \in BOOLEAN : Note(b, "refused")
            \/ \E R \in SUBSET {"overlap", "fromSub", "bootRaces", "exitRaces"} :
                 upset' = upset \cup R
        BY <3>2 DEF Start
      <4> QED
        BY <4>1 DEF Note
    <3> QED
      BY <2>1, <3>1, <3>2
  <2>2. CASE CountDown(t) \/ TestCount(t) \/ CompareWithCache(t) \/ ExitSub(t) \/ ExitMode(t)
    BY <2>2 DEF CountDown, TestCount, CompareWithCache, ExitSub, ExitMode, Note
  <2>3. CASE EndHandleSensorChange(t) \/ LeaveTent(t) \/ \E s \in Reports : HandleReport(t, s)
    BY <2>3 DEF EndHandleSensorChange, LeaveTent, HandleReport
  <2>4. CASE PostWork(t)
    <3>1. CASE ShowOnBootAnimation(t) \/ PostOffOn(t) \/ ReadScreenOn(t) \/ PostOnSub(t)
               \/ PostNothing(t)
      BY <3>1 DEF ShowOnBootAnimation, PostOffOn, ReadScreenOn, PostOnSub, PostNothing, Note
    <3>2. CASE stack[t] # <<>> /\ PostOnMain(t)
      BY <3>2 DEF PostOnMain, Note, StaleBy
    <3> QED
      BY <2>4, <3>1, <3>2 DEF PostWork
  <2> QED
    BY <1>1, <2>1, <2>2, <2>3, <2>4 DEF Step
<1>2. CASE RunnerStep \/ PowerStep
  BY <1>2 DEF RunnerStep, TakeTask, SetPanel, TurnOff, TurnOn, TurnOnMain, TurnOnSub,
     PowerStep, PostPanel, RecoverDisplayMode
<1>3. CASE TentStep \/ RecoverWhenBootAnimationExit
  BY <1>3 DEF TentStep, HandleTent, ChangeOnTentMode, WakeupOnTentMode, ChangeOffTentMode,
     RecoverWhenBootAnimationExit, Note
<1>4. CASE Environment
  BY <1>4 DEF Environment, Report, SetFoldDisplayMode, SwitchTent, PowerOff, PowerOn,
     LockDisplayStatus, CreateCastScreen, StrayPropertyChange, TwoSecondsPass,
     NotifyFoldToExpandCompletion, ConnectSub, PowerInit, Note
<1> QED
  BY <1>1, <1>2, <1>3, <1>4 DEF Next

LEMMA PowerStays ==
  ASSUME TypeInv, PowerOK, [Next]_vars
  PROVE  PowerOK'
<1>1. CASE Next
  BY <1>1, NextCases, UpsetStep, AsidePower, ShownPower, PoweredPower DEF TypeInv, UpsetMore
<1>2. CASE UNCHANGED vars
  BY <1>2 DEF vars, powerVars, PowerOK, Frames, Top, Prompt, Upset
<1> QED
  BY <1>1, <1>2

\* A power call that is not the one that turned the device on
LEMMA OffOrResume ==
  ASSUME TypeInv, PowerOK, NEW t \in Threads, stack[t] # <<>>, Top(t).fn # "resume"
  PROVE  ~(t = "power" /\ deviceOn)
  BY DEF PowerOK

LEMMA AsideLit ==
  ASSUME TypeInv, PowerOK, LitOK, Aside
  PROVE  LitOK'
<1>1. UNCHANGED <<screenId, lit, deviceOn, onBoot>> /\ upset \subseteq upset'
  BY DEF Aside, panelVars
<1>2. CASE UNCHANGED stack
  <2>1. (Exiting' <=> Exiting) /\ (TurningOn' <=> TurningOn) /\ (Idle("boot")' <=> Idle("boot"))
    BY <1>2 DEF Exiting, TurningOn, Idle, Frames
  <2>2. Excused => Excused'
    BY <1>1, <2>1 DEF Excused, Prompt, Upset
  <2> QED
    BY <1>1, <1>2, <2>1, <2>2 DEF LitOK
<1>3. CASE \E t \in Threads : AsideBy(t)
  <2>1. PICK t \in Threads : AsideBy(t)
    BY <1>3
  <2>2. PICK A \in SUBSET Dull : Trades(t, A)
    BY <2>1 DEF AsideBy
  <2>3. ASSUME stack[t] # <<>>
        PROVE  /\ Top(t).pc # "exitMode" /\ Top(t).fn # "offOn"
               /\ ~(t = "power" /\ deviceOn)
    <3>1. Top(t) \in Dull /\ Top(t) \in FramesOf(t)
      BY <2>1, <2>3, TopFacts DEF AsideBy, TypeInv
    <3>2. Top(t).fn \notin {"resume", "offOn"} /\ Top(t).pc # "exitMode"
      BY <3>1 DEF Dull, FramesOf, FrameOK, PcsOf
    <3> QED
      BY <2>3, <3>2, OffOrResume
  <2>4. stack[t] = <<>> => t # "boot"
    BY <2>1 DEF AsideBy
  <2> QED
    BY <1>1, <2>2, <2>3, <2>4, LitKept
<1> QED
  BY <1>2, <1>3 DEF Aside

LEMMA PostLit ==
  ASSUME TypeInv, PowerOK, LitOK, NEW t \in Threads, Posts(t)
  PROVE  LitOK'
<1> USE DEF TypeInv
<1> DEFINE f == Top(t)
<1>0. stack[t] # <<>>
  BY DEF Posts
<1>1. /\ UNCHANGED <<screenId, lit, deviceOn, onBoot>> /\ upset \subseteq upset'
      /\ f.pc # "exitMode" /\ f.fn \notin {"offOn", "resume"}
  BY NoteGrows DEF Posts, PostOffOn, ReadScreenOn, PostOnMain, PostOnSub, PostNothing, At, panelVars, powerVars,
     bootVars
<1>2. ~(t = "power" /\ deviceOn)
  BY <1>0, <1>1, OffOrResume
<1>3. ASSUME NEW k \in Tasks, NEW g \in FramesOf(t), k.fn # "panel", PostsTask(t, k, g)
      PROVE  LitOK'
  <2>1. \E A : Trades(t, A)
    BY <1>3, PostsTrades
  <2> QED
    BY <1>0, <1>1, <1>2, <2>1, LitKept
<1>4. CASE PostOffOn(t)
  <2>1. OffOnTask(t).fn # "panel"
    BY DEF OffOnTask, Frame
  <2> QED
    BY <1>0, <1>3, <1>4, <2>1, OffOnEffect
<1>5. CASE PostOnMain(t)
  <2>1. OnMainTask(t).fn # "panel"
    BY DEF OnMainTask, Frame
  <2> QED
    BY <1>0, <1>3, <1>5, <2>1, OnMainEffect
<1>6. CASE PostOnSub(t)
  <2>1. OnSubTask(t).fn # "panel"
    BY DEF OnSubTask, Frame
  <2> QED
    BY <1>0, <1>3, <1>6, <2>1, OnSubEffect
<1>7. CASE PostNothing(t)
  <2>1. \E A : Trades(t, A)
    BY <1>0, <1>7, PostNothingEffect, Moves1
  <2> QED
    BY <1>0, <1>1, <1>2, <2>1, LitKept
<1>8. CASE ReadScreenOn(t)
  <2>1. \E A : Trades(t, A)
    BY <1>0, <1>8, ReadEffect, Moves1
  <2> QED
    BY <1>0, <1>1, <1>2, <2>1, LitKept
<1> QED
  BY <1>4, <1>5, <1>6, <1>7, <1>8 DEF Posts

LEMMA TurnLit ==
  ASSUME TypeInv, PowerOK, LitOK, TurnOff \/ TurnOn \/ TurnOnMain \/ TurnOnSub
  PROVE  LitOK'
<1> USE DEF TypeInv
<1> DEFINE r == "runner"
           f == Top(r)
<1>0. r \in Threads \ {"power"} /\ "power" \in Threads /\ Done \in FramesOf(r)
  BY NewFrames DEF Threads
<1>1. CASE TurnOff
  <2> DEFINE g == [f EXCEPT !.pc = "on"]
  <2>1. f \in FramesOf(r) /\ f.fn = "offOn" /\ g \in FramesOf(r) /\ Moves(r, <<Done, g>>)
    BY <1>1, TurnOffEffect
  <2>2. g.fn = "offOn" /\ g.pc = "on"
    BY <2>1 DEF FramesOf, FrameType
  <2> HIDE DEF g
  <2>3. g \in Frames(r)'
    BY <1>0, <2>1, Moves2 DEF Trades
  <2>4. TurningOn'
    BY <2>2, <2>3 DEF TurningOn
  <2> QED
    BY <2>4 DEF LitOK
<1>2. ASSUME TurnOn \/ TurnOnMain \/ TurnOnSub
      PROVE  /\ stack[r] # <<>> /\ f \in Frames(r) /\ Trades(r, {Done})
             /\ stack'["power"] = stack["power"] /\ deviceOn' = deviceOn
             /\ TurnOnMain => f.fn = "onMain"
             /\ TurnOnSub => f.fn = "onSub"
  <2>1. /\ stack[r] # <<>> /\ f \in Frames(r) /\ Moves(r, <<Done>>)
        /\ TurnOnMain => f.fn = "onMain"
        /\ TurnOnSub => f.fn = "onSub"
    BY <1>2, TurnOnEffect
  <2>2. Trades(r, {Done})
    BY <1>0, <2>1, Moves1
  <2>3. deviceOn' = deviceOn
    BY <1>2 DEF TurnOn, TurnOnMain, TurnOnSub, powerVars
  <2> QED
    BY <1>0, <2>1, <2>2, <2>3 DEF Trades
<1>3. CASE TurnOn
  <2>1. screenId' \in lit' \/ ~deviceOn'
    BY <1>2, <1>3 DEF TurnOn
  <2> QED
    BY <2>1 DEF LitOK
<1>4. CASE TurnOnMain
  <2>1. CASE f.flag
    <3>1. screenId' = "main" /\ lit' = MainOn
      BY <1>4, <2>1 DEF TurnOnMain
    <3>2. screenId' \in lit'
      BY <3>1 DEF MainOn
    <3> QED
      BY <3>2 DEF LitOK
  <2>2. CASE ~f.flag
    <3>1. f.flag = FALSE
      <4>1. f.flag \in BOOLEAN
        BY <1>0, <1>2, <1>4, TopFacts DEF FramesOf, FrameType
      <4> QED
        BY <2>2, <4>1
    <3>2. deviceOn /\ Prompt => stack["power"] # <<>>
      BY <1>2, <1>4, <3>1 DEF PowerOK
    <3>3. /\ deviceOn' /\ Prompt' => stack'["power"] # <<>>
          /\ screenId' = "main"
      BY <1>2, <1>4, <3>2 DEF TurnOnMain, Prompt, Upset
    <3> QED
      BY <3>3 DEF LitOK, Excused
  <2> QED
    BY <2>1, <2>2
<1>5. CASE TurnOnSub
  <2>1. UNCHANGED <<screenId, deviceOn, onBoot>> /\ lit \subseteq lit' /\ upset \subseteq upset'
    BY <1>5 DEF TurnOnSub, powerVars, bootVars
  <2>2. f.fn = "onSub" /\ f.pc = "on"
    BY <1>5 DEF TurnOnSub, At
  <2> QED
    BY <1>0, <1>2, <1>5, <2>1, <2>2, LitKept
<1> QED
  BY <1>1, <1>3, <1>4, <1>5

LEMMA ShownLit ==
  ASSUME TypeInv, PowerOK, LitOK, Shown
  PROVE  LitOK'
<1> USE DEF TypeInv
<1>1. ASSUME NEW t \in Threads, Starts(t)
      PROVE  LitOK'
  <2>1. /\ stack[t] # <<>> /\ Top(t).fn = "change" /\ Top(t).pc = "check" /\ Start(t)
        /\ upset \subseteq upset' /\ \E A : Trades(t, A)
    BY <1>1, Moves1 DEF Starts
  <2>2. UNCHANGED <<screenId, lit, deviceOn, onBoot>>
    BY <2>1 DEF Start, panelVars, powerVars, bootVars
  <2>3. ~(t = "power" /\ deviceOn)
    BY <2>1, OffOrResume
  <2> QED
    BY <2>1, <2>2, <2>3, LitKept
<1>2. ASSUME NEW t \in Threads, stack[t] # <<>>, ShowOnBootAnimation(t)
      PROVE  LitOK'
  <2>1. onBoot' = onBoot /\ onBoot /\ (~Idle("boot") => "bootRaces" \in upset')
    BY <1>2 DEF ShowOnBootAnimation
  <2>2. CASE Idle("boot")
    <3>1. t # "boot"
      BY <1>2, <2>2 DEF Idle
    <3>2. \E A : Trades(t, A)
      <4>1. Done \in FramesOf(t)
        BY NewFrames
      <4> QED
        BY <1>2, <4>1, BootEffect, Moves1, Moves2
    <3>3. stack'["boot"] = <<>>
      BY <2>2, <3>1, <3>2 DEF Trades, Idle, Threads
    <3> QED
      BY <2>1, <3>3 DEF LitOK, Idle
  <2>3. CASE ~Idle("boot")
    BY <2>1, <2>3 DEF LitOK, Excused, Upset
  <2> QED
    BY <2>2, <2>3
<1>3. ASSUME NEW t \in Threads, Finish(t)
      PROVE  LitOK'
  <2>1. /\ stack[t] # <<>> /\ Top(t).fn \in {"change", "trigger"}
        /\ Top(t).pc \in {"nodes", "current"}
        /\ Moves(t, <<Done>>) \/ Moves(t, <<>>)
    BY <1>3, FinishEffect
  <2>2. UNCHANGED <<screenId, lit, deviceOn, onBoot, upset>>
    BY <1>3 DEF Finish, powerVars, bootVars
  <2>3. \E A : Trades(t, A)
    <3>1. Done \in FramesOf(t)
      BY NewFrames
    <3> QED
      BY <2>1, <3>1, Moves0, Moves1
  <2>4. ~(t = "power" /\ deviceOn)
    BY <2>1, OffOrResume
  <2> QED
    BY <2>1, <2>2, <2>3, <2>4, LitKept
<1>4. CASE TakeTask
  <2>1. /\ stack["runner"] = <<>> /\ "runner" \in Threads /\ \E A : Trades("runner", A)
    BY <1>4, TakeTaskEffect, Moves1 DEF Threads
  <2>2. UNCHANGED <<screenId, lit, deviceOn, onBoot, upset>>
    BY <1>4 DEF TakeTask, panelVars, powerVars, bootVars
  <2> QED
    BY <2>1, <2>2, LitKept
<1> QED
  BY <1>1, <1>2, <1>3, <1>4, PostLit, TurnLit DEF Shown

LEMMA ExitSubLit ==
  ASSUME TypeInv, ModeInv, LitOK, NEW t \in Threads, ExitSub(t)
  PROVE  LitOK'
<1> USE DEF TypeInv
<1> DEFINE f == Top(t)
           g == [f EXCEPT !.pc = "exitMode"]
<1>1. /\ stack[t] # <<>> /\ f \in FramesOf(t) /\ f.fn \in {"suspend", "cast"} /\ f.pc = "exit"
      /\ g \in FramesOf(t) /\ Moves(t, <<g>>)
  BY ExitSubEffect
<1>2. g.pc = "exitMode"
  BY <1>1 DEF FramesOf, FrameType
<1> HIDE DEF g
<1>3. Trades(t, {g}) /\ stack'[t] # <<>>
  BY <1>1, Moves1
<1>4. Exiting'
  BY <1>2, <1>3 DEF Trades, Exiting
<1>5. /\ UNCHANGED <<screenId, deviceOn, onBoot>> /\ lit' = lit \ {"sub"} /\ upset \subseteq upset'
      /\ ExitRaces(t) => "exitRaces" \in upset'
  BY DEF ExitSub, SubOff, Note, powerVars, bootVars
<1>6. CASE ExitRaces(t) \/ ~Calm
  <2>1. Upset({"exitRaces", "bootRaces"})' \/ "overlap" \in upset'
    BY <1>5, <1>6 DEF Calm, Upset
  <2>2. Excused'
    BY <1>4, <2>1 DEF Excused
  <2> QED
    BY <2>2 DEF LitOK
<1>7. CASE ~ExitRaces(t) /\ Calm
  <2>1. ~Unfinished /\ last = "COORDINATION"
    BY <1>7 DEF ExitRaces, Changing
  <2>2. screenId = "main"
    <3>1. \A h \in Held : ~ShowsMain(h)
      BY <2>1, NoneUnfinished DEF ShowsMain, InFlight
    <3> QED
      BY <1>7, <2>1, <3>1 DEF ModeInv, CoordOK
  <2>3. ~TurningOn /\ (Excused => ~Prompt)
    <3>1. ~TurningOn
      <4>1. \A h \in Frames("runner") : h.fn # "offOn"
        BY <2>1, NoneUnfinished, FrameInHeld DEF Threads
      <4> QED
        BY <4>1 DEF TurningOn
    <3>2. Excused => ~Prompt
      BY <1>7 DEF Excused, Calm, Upset
    <3> QED
      BY <3>1, <3>2
  <2>4. screenId' \in Screens /\ (screenId \in lit => screenId' \in lit')
    BY <1>5, <2>2 DEF Screens
  <2>5. stack["power"] # <<>> => stack'["power"] # <<>>
    BY <1>3 DEF Trades, Threads
  <2>7. screenId' = screenId /\ (Excused => Excused')
    BY <1>5, <2>2, <2>3 DEF Excused, Prompt, Upset
  <2>6. t # "boot" /\ (Idle("boot") => Idle("boot")')
    <3>1. t # "boot"
      BY <1>1 DEF FramesOf, CallsOf
    <3> QED
      BY <1>3, <3>1 DEF Trades, Threads, Idle
  <2> QED
    BY <1>5, <2>3, <2>4, <2>5, <2>6, <2>7 DEF LitOK
<1> QED
  BY <1>6, <1>7

LEMMA PanelLit ==
  ASSUME TypeInv, PowerOK, LitOK, SetPanel \/ RecoverDisplayMode
  PROVE  LitOK'
<1> USE DEF TypeInv
<1> DEFINE f == Top("power")
<1>1. deviceOn' = deviceOn /\ screenId' = screenId
  BY DEF SetPanel, RecoverDisplayMode, powerVars, panelVars
<1>2. CASE RecoverDisplayMode
  <2>1. stack["power"] # <<>> /\ f.fn = "suspend"
    BY <1>2 DEF RecoverDisplayMode, At
  <2>2. ~deviceOn'
    BY <1>1, <2>1 DEF PowerOK
  <2> QED
    BY <2>2 DEF LitOK
<1>3. CASE SetPanel
  <2>1. /\ stack["power"] # <<>> /\ f.fn \in {"suspend", "resume"}
        /\ Head(queue).flag = (f.fn = "resume")
    BY <1>3, SetPanelEffect
  <2>2. CASE f.fn = "resume"
    <3>1. Head(queue).flag
      BY <2>1, <2>2
    <3>2. lit' = lit \cup ({screenId} \cap Screens)
      BY <1>3, <3>1 DEF SetPanel
    <3> QED
      BY <1>1, <3>2 DEF LitOK
  <2>3. CASE f.fn = "suspend"
    <3>1. ~deviceOn'
      BY <1>1, <2>1, <2>3 DEF PowerOK
    <3> QED
      BY <3>1 DEF LitOK
  <2> QED
    BY <2>1, <2>2, <2>3
<1> QED
  BY <1>2, <1>3

LEMMA PoweredLit ==
  ASSUME TypeInv, ModeInv, PowerOK, LitOK, Powered
  PROVE  LitOK'
<1> USE DEF TypeInv
<1> DEFINE p == "power"
<1>0. p \in Threads /\ "boot" \in Threads
  BY DEF Threads
<1>1. ASSUME NEW t \in Threads, ExitMode(t)
      PROVE  LitOK'
  <2>1. /\ stack[t] # <<>> /\ Top(t).fn \in {"suspend", "cast"}
        /\ \E A : Trades(t, A)
    BY <1>1, ExitModeEffect, Moves0, Moves1
  <2>2. UNCHANGED <<screenId, lit, deviceOn, onBoot>> /\ upset \subseteq upset' /\ "exit" \in upset'
    BY <1>1 DEF ExitMode, panelVars, powerVars, bootVars
  <2>3. ~(t = p /\ deviceOn)
    BY <2>1, OffOrResume
  <2> QED
    BY <2>1, <2>2, <2>3, LitKept
<1>2. CASE PowerOff
  BY <1>2 DEF PowerOff, LitOK
<1>3. CASE PowerOn
  <2>1. stack'[p] # <<>>
    BY <1>0, <1>3, PowerKeyEffect, Moves1
  <2> QED
    BY <2>1 DEF LitOK
<1>4. CASE PostPanel
  <2>1. /\ stack[p] # <<>> /\ stack'[p] # <<>> /\ Top(p).pc = "panel"
        /\ \E A : Trades(p, A)
    BY <1>0, <1>4, PostPanelEffect, Moves1
  <2>2. UNCHANGED <<screenId, lit, deviceOn, onBoot, upset>>
    BY <1>4 DEF PostPanel, panelVars, powerVars, bootVars
  <2> QED
    BY <1>0, <2>1, <2>2, LitKept
<1>5. CASE PowerInit
  <2>1. screenId' = screenId /\ (screenId # "none" => lit' = {screenId})
    BY <1>5 DEF PowerInit
  <2>2. screenId' \in lit' \/ screenId' \notin Screens
    BY <2>1 DEF Screens
  <2> QED
    BY <2>2 DEF LitOK, Screens
<1>6. CASE RecoverWhenBootAnimationExit
  <2>1. /\ stack["boot"] # <<>> /\ Top("boot").fn = "boot" /\ Top("boot").pc = "recover"
        /\ \E A : Trades("boot", A)
    <3>1. stack["boot"] # <<>> /\ Top("boot").fn = "boot" /\ Top("boot").pc = "recover"
      BY <1>6 DEF RecoverWhenBootAnimationExit, At
    <3> QED
      BY <1>0, <1>6, <3>1, BootExitEffect, Moves1
  <2>2. UNCHANGED <<screenId, lit, deviceOn>> /\ upset \subseteq upset'
    BY <1>6, NoteGrows DEF RecoverWhenBootAnimationExit, panelVars, powerVars
  <2> QED
    BY <1>0, <2>1, <2>2, LitKept
<1> QED
  BY <1>1, <1>2, <1>3, <1>4, <1>5, <1>6, ExitSubLit, PanelLit DEF Powered

LEMMA LitStep ==
  ASSUME TypeInv, ModeInv, PowerOK, LitOK, [Next]_vars
  PROVE  LitOK'
<1>1. CASE Next
  BY <1>1, NextCases, AsideLit, ShownLit, PoweredLit DEF TypeInv
<1>2. CASE UNCHANGED vars
  <2>1. UNCHANGED <<screenId, lit, deviceOn, onBoot, upset, stack>>
    BY <1>2 DEF vars, panelVars, powerVars, bootVars
  <2> QED
    BY <2>1 DEF LitOK, Excused, Exiting, TurningOn, Idle, Prompt, Upset, Frames
<1> QED
  BY <1>1, <1>2

LEMMA InitLit ==
  ASSUME Init
  PROVE  PowerOK /\ LitOK
<1>1. stack = [t \in Threads |-> <<>>] /\ queue = <<>> /\ "power" \in Threads /\ "runner" \in Threads
  BY DEF Init, Threads
<1>2. PowerOK
  BY <1>1 DEF PowerOK, Frames
<1>3. screenId = "none" \/ screenId \in lit
  <2>1. PICK s \in Scenarios, m \in {"UNKNOWN", "MAIN", "SUB"} :
          /\ s.cold <=> m = "UNKNOWN"
          /\ screenId = CASE m = "UNKNOWN" -> "none"
                          [] m = "MAIN" -> "main"
                          [] OTHER -> "sub"
          /\ lit = IF s.cold THEN {} ELSE {screenId}
    BY DEF Init
  <2> QED
    BY <2>1
<1> QED
  BY <1>2, <1>3 DEF LitOK, Screens

FoldInv == TypeInv /\ ModeInv /\ PowerOK /\ LitOK

LEMMA FoldHolds ==
  Spec => []FoldInv
<1>1. Init => FoldInv
  BY InitType, InitModes, InitLit DEF FoldInv
<1>2. FoldInv /\ [Next]_vars => FoldInv'
  BY TypeStep, ModeStep, PowerStays, LitStep DEF FoldInv
<1> QED
  BY <1>1, <1>2, PTL DEF Spec

\* Once every call has returned, the panel that the power keys act on is lit if
\* the device is on, whatever changes, power keys, casts and reports came in
\* what order, but for an exit from the coordination mode that raced a change
\* or the boot, and for a power key between the read of the power state and the
\* posts of the coordination mode (TurnOffScreen and TurnOnScreen of the posted
\* tasks, SetScreenPower, ExitCoordination, ChangeScreenDisplayModeToCoordination).
THEOREM PanelCorrect ==
  Spec => []ActivePanelIsLit
<1>1. FoldInv => ActivePanelIsLit
  <2> SUFFICES ASSUME FoldInv, Quiet, ~onBoot, deviceOn, screenId \in Screens
               PROVE  \/ screenId \in lit
                      \/ Upset({"exitRaces", "bootRaces"})
                      \/ {"overlap", "exit"} \subseteq upset
                      \/ Upset({"staleOff"}) /\ screenId = "main"
    BY DEF ActivePanelIsLit
  <2>1. \A t \in Threads : stack[t] = <<>>
    BY DEF Quiet, Idle
  <2>2. \A t \in Threads : Frames(t) = {}
    BY <2>1, RestFacts DEF FoldInv, TypeInv
  <2>3. ~Exiting /\ ~TurningOn /\ stack["power"] = <<>>
    BY <2>1, <2>2 DEF Exiting, TurningOn, Threads
  <2> QED
    BY <2>3 DEF FoldInv, LitOK, Excused, Prompt
<1> QED
  BY <1>1, FoldHolds, PTL

-----------------------------------------------------------------------------
(* What the calls and the tasks owe, counted.                              *)

LEMMA OwedFinite ==
  ASSUME NEW F, NEW fs \in Seq(F)
  PROVE  IsFiniteSet(OwedBy(fs)) /\ Cardinality(OwedBy(fs)) \in Nat
<1>0. Len(fs) \in Int /\ DOMAIN fs = 1..Len(fs)
  OBVIOUS
<1>1. \A n \in Int : IsFiniteSet(1..n)
  BY FS_Interval
<1>2. IsFiniteSet(1..Len(fs)) /\ IsFiniteSet(1..3)
  <2>1. PICK three \in Int : three = 3
    OBVIOUS
  <2>2. IsFiniteSet(1..three)
    BY <1>1
  <2> QED
    BY <1>0, <1>1, <2>1, <2>2
<1>3. IsFiniteSet((1..Len(fs)) \X (1..3))
  BY <1>2, FS_Product
<1>4. OwedBy(fs) \in SUBSET ((1..Len(fs)) \X (1..3))
  BY <1>0 DEF OwedBy
<1>5. IsFiniteSet(OwedBy(fs))
  BY <1>3, <1>4, FS_Subset
<1> QED
  BY <1>5, FS_CardinalityType

LEMMA OwedOne ==
  ASSUME NEW F, NEW a \in F, Owed(a) \in 0..3
  PROVE  Cardinality(OwedBy(<<a>>)) = Owed(a)
<1> DEFINE S == 1..Owed(a)
           T == OwedBy(<<a>>)
           g == [n \in S |-> <<1, n>>]
<1>1. IsFiniteSet(S) /\ Cardinality(S) = Owed(a)
  BY FS_Interval
<1>2. T = {1} \X S
  BY DEF OwedBy
<1>3. IsFiniteSet({1}) /\ Cardinality({1}) = 1
  BY FS_Singleton
<1>4. Cardinality({1} \X S) = Cardinality({1}) * Cardinality(S)
  BY <1>1, <1>3, FS_Product
<1> QED
  BY <1>1, <1>2, <1>3, <1>4

LEMMA OwedJoined ==
  ASSUME NEW F, NEW a \in Seq(F), NEW b \in Seq(F)
  PROVE  Cardinality(OwedBy(a \o b)) = Cardinality(OwedBy(a)) + Cardinality(OwedBy(b))
<1> DEFINE n == Len(a)
           S == OwedBy(b)
           T == {d \in OwedBy(a \o b) : d[1] > n}
           g == [d \in S |-> <<d[1] + n, d[2]>>]
<1>1. /\ n \in Nat /\ Len(b) \in Nat /\ DOMAIN a = 1..n /\ DOMAIN b = 1..Len(b)
      /\ a \o b \in Seq(F) /\ DOMAIN (a \o b) = 1..(n + Len(b))
      /\ \A i \in 1..n : (a \o b)[i] = a[i]
      /\ \A i \in 1..Len(b) : (a \o b)[i + n] = b[i]
  OBVIOUS
<1>2. /\ IsFiniteSet(OwedBy(a)) /\ Cardinality(OwedBy(a)) \in Nat
      /\ IsFiniteSet(OwedBy(b)) /\ Cardinality(OwedBy(b)) \in Nat
      /\ IsFiniteSet(OwedBy(a \o b))
  BY <1>1, OwedFinite
<1>3. IsFiniteSet(T)
  BY <1>2, FS_Subset
<1> HIDE DEF n
<1>4. OwedBy(a) = {d \in OwedBy(a \o b) : d[1] <= n}
  BY <1>1 DEF OwedBy
<1>5. OwedBy(a \o b) = OwedBy(a) \cup T /\ OwedBy(a) \cap T = {}
  <2>1. \A d \in OwedBy(a \o b) : d[1] \in Nat
    BY <1>1 DEF OwedBy
  <2> QED
    BY <1>1, <1>4, <2>1
<1>6. g \in Bijection(S, T)
  <2>1. ASSUME NEW d \in S
        PROVE  <<d[1] + n, d[2]>> \in T
    BY <1>1 DEF OwedBy
  <2>2. ASSUME NEW d \in S, NEW e \in S, g[d] = g[e]
        PROVE  d = e
    <3>1. d \in Nat \X Nat /\ e \in Nat \X Nat
      BY <1>1 DEF OwedBy
    <3>2. d[1] + n = e[1] + n /\ d[2] = e[2]
      BY <2>2
    <3> QED
      BY <1>1, <3>1, <3>2
  <2>3. ASSUME NEW e \in T
        PROVE  \E d \in S : g[d] = e
    <3>1. e \in (1..(n + Len(b))) \X (1..3) /\ e[1] > n /\ e[2] <= Owed((a \o b)[e[1]])
      BY <1>1 DEF OwedBy
    <3>2. e[1] - n \in 1..Len(b) /\ (e[1] - n) + n = e[1]
      BY <1>1, <3>1
    <3>3. (a \o b)[e[1]] = b[e[1] - n]
      BY <1>1, <3>2
    <3>4. <<e[1] - n, e[2]>> \in S
      BY <1>1, <3>1, <3>2, <3>3 DEF OwedBy
    <3>5. g[<<e[1] - n, e[2]>>] = e
      BY <3>1, <3>2, <3>4
    <3> QED
      BY <3>4, <3>5
  <2> HIDE DEF S, T
  <2>4. g \in [S -> T]
    BY <2>1
  <2> HIDE DEF g
  <2> QED
    BY <2>2, <2>3, <2>4 DEF Bijection, Injection, IsInjective, Surjection
<1>7. Cardinality(T) = Cardinality(S)
  BY <1>2, <1>6, FS_Bijection DEF ExistsBijection
<1>8. Cardinality(OwedBy(a) \cup T) =
        Cardinality(OwedBy(a)) + Cardinality(T) - Cardinality(OwedBy(a) \cap T)
  BY <1>2, <1>3, FS_Union
<1>9. Cardinality(OwedBy(a) \cap T) = 0
  BY <1>5, FS_EmptySet
<1> HIDE DEF S, T, g
<1> QED
  BY <1>2, <1>5, <1>7, <1>8, <1>9 DEF S

LEMMA OwedNone ==
  ASSUME NEW F, NEW fs \in Seq(F), \A i \in DOMAIN fs : Owed(fs[i]) = 0
  PROVE  Cardinality(OwedBy(fs)) = 0
<1>1. OwedBy(fs) = {}
  BY DEF OwedBy
<1> QED
  BY <1>1, FS_EmptySet

LEMMA OwedFacts ==
  ASSUME NEW f
  PROVE  Owed(f) \in 0..3 /\ (Owed(f) > 0 => Working(f))
  BY DEF Owed, Working

\* What the threads owe together is what thread t owes and what the others do.
OwedIn(st, T) == UNION {{t} \X OwedBy(st[t]) : t \in T}

LEMMA OwedInFinite ==
  ASSUME NEW st \in [Threads -> Seq(FrameType)]
  PROVE  IsFiniteSet(OwedIn(st, Threads))
<1> DEFINE Part(u) == {u} \X OwedBy(st[u])
           All == Part("sensor") \cup Part("tent") \cup Part("ipc")
                    \cup Part("power") \cup Part("boot") \cup Part("runner")
<1>1. ASSUME NEW u \in Threads
      PROVE  IsFiniteSet(Part(u))
  <2>1. IsFiniteSet(OwedBy(st[u])) /\ IsFiniteSet({u})
    BY OwedFinite, FS_Singleton
  <2> QED
    BY <2>1, FS_Product
<1>2. OwedIn(st, Threads) = All
  BY DEF OwedIn, Threads
<1> HIDE DEF Part
<1>3. IsFiniteSet(All)
  BY <1>1, FS_Union DEF Threads
<1> QED
  BY <1>2, <1>3

LEMMA OwedSplit ==
  ASSUME NEW st \in [Threads -> Seq(FrameType)], NEW t \in Threads
  PROVE  /\ Cardinality(OwedIn(st, Threads)) =
              Cardinality(OwedIn(st, Threads \ {t})) + Cardinality(OwedBy(st[t]))
         /\ Cardinality(OwedIn(st, Threads \ {t})) \in Nat
<1> DEFINE Part(u) == {u} \X OwedBy(st[u])
           Else == OwedIn(st, Threads \ {t})
<1>1. ASSUME NEW u \in Threads
      PROVE  /\ IsFiniteSet(OwedBy(st[u])) /\ IsFiniteSet(Part(u))
             /\ Cardinality(Part(u)) = Cardinality(OwedBy(st[u]))
  <2>1. IsFiniteSet(OwedBy(st[u])) /\ Cardinality(OwedBy(st[u])) \in Nat
    BY OwedFinite
  <2>2. IsFiniteSet({u}) /\ Cardinality({u}) = 1
    BY FS_Singleton
  <2>3. IsFiniteSet(Part(u)) /\ Cardinality(Part(u)) = Cardinality({u}) * Cardinality(OwedBy(st[u]))
    BY <2>1, <2>2, FS_Product
  <2> QED
    BY <2>1, <2>2, <2>3
<1>2. IsFiniteSet(OwedIn(st, Threads))
  BY OwedInFinite
<1>3. Else \in SUBSET OwedIn(st, Threads)
  BY DEF OwedIn
<1>4. IsFiniteSet(Else) /\ Cardinality(Else) \in Nat
  BY <1>2, <1>3, FS_Subset, FS_CardinalityType
<1>5. OwedIn(st, Threads) = Else \cup Part(t) /\ Else \cap Part(t) = {}
  BY DEF OwedIn
<1>6. Cardinality(Else \cap Part(t)) = 0
  BY <1>5, FS_EmptySet
<1> HIDE DEF Else, Part
<1>7. Cardinality(Else \cup Part(t)) =
        Cardinality(Else) + Cardinality(Part(t)) - Cardinality(Else \cap Part(t))
  BY <1>1, <1>4, FS_Union
<1>8. Cardinality(Part(t)) = Cardinality(OwedBy(st[t])) /\ Cardinality(OwedBy(st[t])) \in Nat
  BY <1>1, FS_CardinalityType
<1> QED
  BY <1>4, <1>5, <1>6, <1>7, <1>8 DEF Else

OwedTop(t) == IF stack[t] = <<>> THEN 0 ELSE Owed(Top(t))

LEMMA OwedMoves ==
  ASSUME StackOK, NEW t \in Threads, NEW fs \in Seq(FramesOf(t)), Moves(t, fs)
  PROVE  /\ Cardinality(OwedByCalls)' =
              Cardinality(OwedByCalls) - OwedTop(t) + Cardinality(OwedBy(fs))
         /\ Cardinality(OwedByCalls) >= OwedTop(t)
         /\ Cardinality(OwedByCalls) \in Nat /\ Cardinality(OwedByCalls)' \in Nat
         /\ OwedTop(t) \in 0..3 /\ Cardinality(OwedBy(fs)) \in Nat
<1>1. /\ stack \in [Threads -> Seq(FrameType)] /\ stack' \in [Threads -> Seq(FrameType)]
      /\ stack'[t] = fs \o Rest(t) /\ \A u \in Threads \ {t} : stack'[u] = stack[u]
  BY MovesFacts DEF StackOK, Moves
<1>2. Rest(t) \in Seq(FrameType) /\ fs \in Seq(FrameType) /\ stack[t] \in Seq(FrameType)
  BY RestFacts DEF FramesOf, StackOK
<1>3. /\ Cardinality(OwedBy(stack[t])) = OwedTop(t) + Cardinality(OwedBy(Rest(t)))
      /\ OwedTop(t) \in 0..3
  <2>1. CASE stack[t] = <<>>
    <3>1. Rest(t) = <<>> /\ OwedTop(t) = 0
      BY <2>1 DEF OwedTop, Rest
    <3>2. OwedBy(<<>>) = {}
      BY DEF OwedBy
    <3>3. Cardinality(OwedBy(<<>>)) = 0
      BY <3>2, FS_EmptySet
    <3> QED
      BY <2>1, <3>1, <3>3
  <2>2. CASE stack[t] # <<>>
    <3>1. Top(t) \in FrameType /\ stack[t] = <<Top(t)>> \o Rest(t) /\ OwedTop(t) = Owed(Top(t))
      BY <1>2, <2>2, TopFacts DEF FramesOf, Rest, Top, OwedTop
    <3>2. Cardinality(OwedBy(<<Top(t)>>)) = Owed(Top(t)) /\ Owed(Top(t)) \in 0..3
      BY <3>1, OwedOne, OwedFacts
    <3>3. <<Top(t)>> \in Seq(FrameType)
      BY <3>1
    <3> QED
      BY <1>2, <3>1, <3>2, <3>3, OwedJoined
  <2> QED
    BY <2>1, <2>2
<1>4. Cardinality(OwedBy(stack'[t])) = Cardinality(OwedBy(fs)) + Cardinality(OwedBy(Rest(t)))
  BY <1>1, <1>2, OwedJoined
<1>5. Cardinality(OwedBy(fs)) \in Nat /\ Cardinality(OwedBy(Rest(t))) \in Nat
  BY <1>2, OwedFinite
<1>6. OwedByCalls = OwedIn(stack, Threads) /\ OwedByCalls' = OwedIn(stack', Threads)
  BY DEF OwedByCalls, OwedIn
<1>7. OwedIn(stack', Threads \ {t}) = OwedIn(stack, Threads \ {t})
  BY <1>1 DEF OwedIn
<1>8. /\ Cardinality(OwedByCalls) =
           Cardinality(OwedIn(stack, Threads \ {t})) + Cardinality(OwedBy(stack[t]))
      /\ Cardinality(OwedByCalls') =
           Cardinality(OwedIn(stack, Threads \ {t})) + Cardinality(OwedBy(stack'[t]))
      /\ Cardinality(OwedIn(stack, Threads \ {t})) \in Nat
  BY <1>1, <1>6, <1>7, OwedSplit
<1> QED
  BY <1>3, <1>4, <1>5, <1>8

\* All that is owed by calls and tasks, and by the SCB too
Owing == Cardinality(OwedBy(queue)) + Cardinality(OwedByCalls)
Debt == Owing + notices

LEMMA OwedTasks ==
  ASSUME QueueOK
  PROVE  /\ Cardinality(OwedBy(queue)) \in Nat /\ IsFiniteSet(OwedBy(queue))
         /\ queue' = queue => Cardinality(OwedBy(queue))' = Cardinality(OwedBy(queue))
         /\ \A k \in Tasks : queue' = Append(queue, k) =>
              Cardinality(OwedBy(queue))' = Cardinality(OwedBy(queue)) + Owed(k)
         /\ queue # <<>> /\ queue' = Tail(queue) =>
              Cardinality(OwedBy(queue))' = Cardinality(OwedBy(queue)) - Owed(Head(queue))
<1>1. queue \in Seq(Tasks) /\ Cardinality(OwedBy(queue)) \in Nat /\ IsFiniteSet(OwedBy(queue))
  BY OwedFinite DEF QueueOK
<1>2. ASSUME NEW k \in Tasks
      PROVE  Cardinality(OwedBy(<<k>>)) = Owed(k) /\ <<k>> \in Seq(Tasks) /\ Owed(k) \in 0..3
  <2>1. Owed(k) \in 0..3
    BY OwedFacts
  <2> QED
    BY <2>1, OwedOne
<1>3. ASSUME NEW k \in Tasks, queue' = Append(queue, k)
      PROVE  Cardinality(OwedBy(queue))' = Cardinality(OwedBy(queue)) + Owed(k)
  <2>1. queue' = queue \o <<k>>
    BY <1>1, <1>3
  <2> QED
    BY <1>1, <1>2, <2>1, OwedJoined
<1>4. ASSUME queue # <<>>, queue' = Tail(queue)
      PROVE  Cardinality(OwedBy(queue))' = Cardinality(OwedBy(queue)) - Owed(Head(queue))
  <2>1. /\ queue = <<Head(queue)>> \o Tail(queue) /\ Tail(queue) \in Seq(Tasks)
        /\ Head(queue) \in Tasks
    BY <1>1, <1>4
  <2>2. Cardinality(OwedBy(queue)) = Owed(Head(queue)) + Cardinality(OwedBy(Tail(queue)))
    BY <1>2, <2>1, OwedJoined
  <2>3. Cardinality(OwedBy(Tail(queue))) \in Nat
    BY <2>1, OwedFinite
  <2> QED
    BY <1>2, <1>4, <2>1, <2>2, <2>3
<1> QED
  BY <1>1, <1>3, <1>4

LEMMA DebtType ==
  ASSUME TypeInv
  PROVE  /\ Debt \in Nat /\ Owing \in Nat /\ notices \in Nat /\ pending \in Int
         /\ IsFiniteSet(OwedByCalls) /\ Cardinality(OwedByCalls) \in Nat
<1>1. stack \in [Threads -> Seq(FrameType)] /\ notices \in Nat /\ pending \in Int
  BY DEF TypeInv, StackOK, DataOK
<1>2. IsFiniteSet(OwedIn(stack, Threads))
  BY <1>1, OwedInFinite
<1>3. IsFiniteSet(OwedByCalls)
  BY <1>2 DEF OwedByCalls, OwedIn
<1> QED
  BY <1>1, <1>3, OwedTasks, FS_CardinalityType DEF Debt, Owing, TypeInv

\* Nothing is owed without a call, or a task, that works.
LEMMA DebtHeld ==
  ASSUME TypeInv
  PROVE  /\ \A f \in Held : Owed(f) > 0 => Debt > 0
         /\ ~Unfinished => Debt = 0
<1>1. /\ IsFiniteSet(OwedByCalls) /\ Cardinality(OwedByCalls) \in Nat /\ notices \in Nat
      /\ IsFiniteSet(OwedBy(queue)) /\ Cardinality(OwedBy(queue)) \in Nat
      /\ \A t \in Threads : stack[t] \in Seq(FrameType) /\ DOMAIN stack[t] = 1..Len(stack[t])
      /\ queue \in Seq(Tasks) /\ DOMAIN queue = 1..Len(queue)
  BY DebtType, OwedTasks DEF TypeInv, StackOK, QueueOK
<1>2. ASSUME NEW f \in Held, Owed(f) > 0
      PROVE  Debt > 0
  <2>1. ASSUME NEW fs, NEW i \in DOMAIN fs, f = fs[i]
        PROVE  <<i, 1>> \in OwedBy(fs)
    <3>1. 1 <= Owed(fs[i])
      BY <1>2, <2>1, OwedFacts
    <3>2. <<i, 1>> \in (DOMAIN fs) \X (1..3)
      OBVIOUS
    <3> QED
      BY <3>1, <3>2 DEF OwedBy
  <2>2. CASE \E i \in DOMAIN queue : f = queue[i]
    <3>1. OwedBy(queue) # {}
      BY <2>1, <2>2
    <3>2. Cardinality(OwedBy(queue)) # 0
      BY <1>1, <3>1, FS_EmptySet
    <3> QED
      BY <1>1, <3>2 DEF Debt, Owing
  <2>3. CASE \E t \in Threads : f \in Frames(t)
    <3>0. PICK t \in Threads : f \in Frames(t)
      BY <2>3
    <3>1. PICK i \in DOMAIN stack[t] : f = stack[t][i]
      BY <3>0 DEF Frames
    <3>2. <<i, 1>> \in OwedBy(stack[t])
      BY <2>1, <3>1
    <3>3. <<t, <<i, 1>>>> \in OwedByCalls
      <4>1. <<t, <<i, 1>>>> \in {t} \X OwedBy(stack[t])
        BY <3>2
      <4> QED
        BY <4>1 DEF OwedByCalls
    <3>4. Cardinality(OwedByCalls) # 0
      BY <1>1, <3>3, FS_EmptySet
    <3> QED
      BY <1>1, <3>4 DEF Debt, Owing
  <2> QED
    BY <1>2, <2>2, <2>3 DEF Held
<1>3. ASSUME ~Unfinished
      PROVE  Debt = 0
  <2>1. \A f \in Held : Owed(f) = 0
    BY <1>3, NoneUnfinished, OwedFacts
  <2>2. \A i \in DOMAIN queue : Owed(queue[i]) = 0
    BY <2>1 DEF Held
  <2>3. ASSUME NEW t \in Threads
        PROVE  OwedBy(stack[t]) = {}
    <3>1. \A i \in DOMAIN stack[t] : Owed(stack[t][i]) = 0
      BY <2>1 DEF Held, Frames
    <3> QED
      BY <3>1 DEF OwedBy
  <2>4. OwedBy(queue) = {} /\ OwedByCalls = {}
    BY <2>2, <2>3 DEF OwedBy, OwedByCalls
  <2>5. notices = 0
    BY <1>1, <1>3 DEF Unfinished
  <2> QED
    BY <2>4, <2>5, FS_EmptySet DEF Debt, Owing
<1> QED
  BY <1>2, <1>3

\* The innermost call of t, if there is one, makes way for the calls A, which owe n.
Gone(t) == IF stack[t] = <<>> THEN {} ELSE {Top(t)}
Swaps(t, A, n) ==
  \E fs \in Seq(FramesOf(t)) :
    Moves(t, fs) /\ A = {fs[i] : i \in DOMAIN fs} /\ Cardinality(OwedBy(fs)) = n

LEMMA SwapsMoves ==
  ASSUME NEW t \in Threads
  PROVE  /\ Moves(t, <<>>) => Swaps(t, {}, 0)
         /\ \A a \in FramesOf(t) : Moves(t, <<a>>) => Swaps(t, {a}, Owed(a))
         /\ \A a, b \in FramesOf(t) : Moves(t, <<a, b>>) => Swaps(t, {a, b}, Owed(a) + Owed(b))
         /\ \A a, b, c \in FramesOf(t) : Moves(t, <<a, b, c>>) =>
              Swaps(t, {a, b, c}, Owed(a) + Owed(b) + Owed(c))
<1> DEFINE S == FramesOf(t)
<1>0. ASSUME NEW a \in S
      PROVE  /\ <<a>> \in Seq(S) /\ {<<a>>[i] : i \in DOMAIN <<a>>} = {a}
             /\ Cardinality(OwedBy(<<a>>)) = Owed(a) /\ Owed(a) \in 0..3
  <2>1. Owed(a) \in 0..3
    BY OwedFacts
  <2>2. <<a>> \in Seq(S) /\ {<<a>>[i] : i \in DOMAIN <<a>>} = {a}
    OBVIOUS
  <2> QED
    BY <2>1, <2>2, OwedOne
<1>1. ASSUME Moves(t, <<>>)
      PROVE  Swaps(t, {}, 0)
  <2>1. <<>> \in Seq(S) /\ {<<>>[i] : i \in DOMAIN <<>>} = {}
    OBVIOUS
  <2>2. \A i \in DOMAIN <<>> : Owed(<<>>[i]) = 0
    OBVIOUS
  <2>3. Cardinality(OwedBy(<<>>)) = 0
    BY <2>1, <2>2, OwedNone
  <2> QED
    BY <1>1, <2>1, <2>3 DEF Swaps
<1>2. ASSUME NEW a \in S, Moves(t, <<a>>)
      PROVE  Swaps(t, {a}, Owed(a))
  BY <1>0, <1>2 DEF Swaps
<1>3. ASSUME NEW a \in S, NEW b \in S
      PROVE  /\ <<a, b>> \in Seq(S) /\ {<<a, b>>[i] : i \in DOMAIN <<a, b>>} = {a, b}
             /\ Cardinality(OwedBy(<<a, b>>)) = Owed(a) + Owed(b)
  <2>1. <<a>> \in Seq(S) /\ <<b>> \in Seq(S) /\ <<a, b>> = <<a>> \o <<b>>
    <3>1. <<a>> \o <<b>> = <<a, b>>
      BY Joined, Zenon
    <3>2. <<a>> \in Seq(S) /\ <<b>> \in Seq(S)
      OBVIOUS
    <3> HIDE DEF S
    <3> QED
      BY <3>1, <3>2, Zenon
  <2>2. Cardinality(OwedBy(<<a>> \o <<b>>)) = Cardinality(OwedBy(<<a>>)) + Cardinality(OwedBy(<<b>>))
    BY <2>1, OwedJoined
  <2>3. <<a, b>> \in Seq(S) /\ {<<a, b>>[i] : i \in DOMAIN <<a, b>>} = {a, b}
    OBVIOUS
  <2> QED
    BY <1>0, <2>1, <2>2, <2>3
<1>4. ASSUME NEW a \in S, NEW b \in S, Moves(t, <<a, b>>)
      PROVE  Swaps(t, {a, b}, Owed(a) + Owed(b))
  BY <1>3, <1>4 DEF Swaps
<1>5. ASSUME NEW a \in S, NEW b \in S, NEW c \in S, Moves(t, <<a, b, c>>)
      PROVE  Swaps(t, {a, b, c}, Owed(a) + Owed(b) + Owed(c))
  <2>1. <<a, b>> \in Seq(S) /\ <<c>> \in Seq(S) /\ <<a, b, c>> = <<a, b>> \o <<c>>
    BY Joined
  <2>2. Cardinality(OwedBy(<<a, b>> \o <<c>>)) =
          Cardinality(OwedBy(<<a, b>>)) + Cardinality(OwedBy(<<c>>))
    BY <2>1, OwedJoined
  <2>3. <<a, b, c>> \in Seq(S) /\ {<<a, b, c>>[i] : i \in DOMAIN <<a, b, c>>} = {a, b, c}
    OBVIOUS
  <2>4. Cardinality(OwedBy(<<a, b, c>>)) = Owed(a) + Owed(b) + Owed(c)
    BY <1>0, <1>3, <2>1, <2>2
  <2> QED
    BY <1>5, <2>3, <2>4 DEF Swaps
<1> QED
  BY <1>1, <1>2, <1>4, <1>5

LEMMA Sums ==
  ASSUME NEW q \in Nat, NEW c \in Nat, NEW o \in Nat, NEW h \in Nat, NEW n \in Nat
  PROVE  /\ (q - h) + (c - o + n) + o + h = (q + c) + n
         /\ (q + h) + (c - o + n) + o = (q + c) + n + h
         /\ q + (c - o + n) + o = (q + c) + n
  OBVIOUS

LEMMA SwapsHeld ==
  ASSUME TypeInv, NEW t \in Threads, NEW A, NEW n, Swaps(t, A, n)
  PROVE  /\ queue' = queue =>
              HeldBy(A, Gone(t)) /\ Owing' + OwedTop(t) = Owing + n
         /\ \A k \in Tasks : queue' = Append(queue, k) =>
              Owing' + OwedTop(t) = Owing + n + Owed(k)
         /\ queue # <<>> /\ queue' = Tail(queue) =>
              Owing' + OwedTop(t) + Owed(Head(queue)) = Owing + n
         /\ QueueMoves \/ (\E k \in Tasks : queue' = Append(queue, k)) => Owing' \in Int
         /\ n \in Nat /\ OwedTop(t) \in Nat /\ Gone(t) \subseteq Held /\ Owing \in Nat
<1> USE DEF TypeInv
<1>1. PICK fs \in Seq(FramesOf(t)) :
        Moves(t, fs) /\ A = {fs[i] : i \in DOMAIN fs} /\ Cardinality(OwedBy(fs)) = n
  BY DEF Swaps
<1>2. Trades(t, A)
  BY <1>1, MovesFacts
<1>3. queue' = queue => HeldBy(A, Gone(t))
  BY <1>2, HeldTrades DEF Gone
<1>4. /\ Cardinality(OwedByCalls)' = Cardinality(OwedByCalls) - OwedTop(t) + n
      /\ Cardinality(OwedByCalls) \in Nat /\ OwedTop(t) \in Nat /\ n \in Nat
  BY <1>1, OwedMoves
<1>5. Gone(t) \subseteq Held
  BY FrameInHeld DEF Gone
<1>6. Owing \in Nat /\ Cardinality(OwedBy(queue)) \in Nat
  BY DebtType, OwedTasks
<1>7. queue' = queue => Owing' + OwedTop(t) = Owing + n
  BY <1>4, <1>6, OwedTasks, Sums DEF Owing
<1>8. ASSUME NEW k \in Tasks, queue' = Append(queue, k)
      PROVE  Owing' + OwedTop(t) = Owing + n + Owed(k)
  <2>1. Owed(k) \in Nat /\ Cardinality(OwedBy(queue))' = Cardinality(OwedBy(queue)) + Owed(k)
    BY <1>8, OwedTasks, OwedFacts
  <2> QED
    BY <1>4, <1>6, <2>1, Sums DEF Owing
<1>9. ASSUME queue # <<>>, queue' = Tail(queue)
      PROVE  Owing' + OwedTop(t) + Owed(Head(queue)) = Owing + n
  <2>1. /\ Owed(Head(queue)) \in Nat
        /\ Cardinality(OwedBy(queue))' = Cardinality(OwedBy(queue)) - Owed(Head(queue))
    BY <1>9, OwedTasks, OwedFacts
  <2> QED
    BY <1>4, <1>6, <2>1, Sums DEF Owing
<1>10. ASSUME QueueMoves \/ \E k \in Tasks : queue' = Append(queue, k)
       PROVE  Owing' \in Int
  <2>1. Cardinality(OwedByCalls)' \in Nat
    BY <1>1, OwedMoves
  <2>2. Cardinality(OwedBy(queue))' \in Int
    <3>1. CASE queue' = queue
      BY <1>6, <3>1
    <3>2. CASE \E k \in Tasks : queue' = Append(queue, k)
      BY <1>6, <3>2, OwedTasks, OwedFacts
    <3>3. CASE queue # <<>> /\ queue' = Tail(queue)
      BY <1>6, <3>3, OwedTasks, OwedFacts
    <3> QED
      BY <1>10, <3>1, <3>2, <3>3 DEF QueueMoves
  <2> QED
    BY <2>1, <2>2 DEF Owing
<1> QED
  BY <1>3, <1>4, <1>5, <1>6, <1>7, <1>8, <1>9, <1>10

-----------------------------------------------------------------------------
(* What the steps that show nothing do to the calls that are held.         *)

\* Thread t's innermost call makes way for the calls A.
Effect(t, A, n) ==
  /\ HeldBy(A, Gone(t)) /\ Gone(t) \subseteq Held
  /\ Owing' + OwedTop(t) = Owing + n /\ Owing' \in Int

LEMMA TopEffects ==
  ASSUME TypeInv, NEW t \in Threads, stack[t] # <<>>, queue' = queue
  PROVE  /\ Gone(t) = {Top(t)} /\ OwedTop(t) = Owed(Top(t)) /\ Top(t) \in FramesOf(t)
         /\ Return(t) => Effect(t, {}, 0)
         /\ \A pc : LET g == [Top(t) EXCEPT !.pc = pc] IN
              /\ g.fn = Top(t).fn /\ g.pc = pc /\ g.mode = Top(t).mode /\ g.flag = Top(t).flag
              /\ Goto(t, pc) /\ g \in FramesOf(t) => Effect(t, {g}, Owed(g))
         /\ \A a \in FramesOf(t) : ReturnBy(t, <<a>>) => Effect(t, {a}, Owed(a))
<1>0. StackOK
  BY DEF TypeInv
<1>1. Gone(t) = {Top(t)} /\ OwedTop(t) = Owed(Top(t)) /\ Top(t) \in FramesOf(t)
  BY <1>0, TopFacts DEF Gone, OwedTop
<1>2. \A A, n : Swaps(t, A, n) => Effect(t, A, n)
  BY SwapsHeld DEF Effect, QueueMoves
<1>3. ASSUME Return(t)
      PROVE  Effect(t, {}, 0)
  BY <1>0, <1>2, <1>3, ReturnMoves, SwapsMoves
<1>4. ASSUME NEW pc
      PROVE  LET g == [Top(t) EXCEPT !.pc = pc] IN
               /\ g.fn = Top(t).fn /\ g.pc = pc /\ g.mode = Top(t).mode /\ g.flag = Top(t).flag
               /\ Goto(t, pc) /\ g \in FramesOf(t) => Effect(t, {g}, Owed(g))
  <2> DEFINE g == [Top(t) EXCEPT !.pc = pc]
  <2>1. g.fn = Top(t).fn /\ g.pc = pc /\ g.mode = Top(t).mode /\ g.flag = Top(t).flag
    BY <1>1 DEF FramesOf, FrameType
  <2>2. Goto(t, pc) => Moves(t, <<g>>)
    BY <1>0, GotoMoves
  <2> HIDE DEF g
  <2>3. Goto(t, pc) /\ g \in FramesOf(t) => Effect(t, {g}, Owed(g))
    BY <1>2, <2>2, SwapsMoves
  <2> QED
    BY <2>1, <2>3 DEF g
<1>5. ASSUME NEW a \in FramesOf(t), ReturnBy(t, <<a>>)
      PROVE  Effect(t, {a}, Owed(a))
  BY <1>2, <1>5, ReturnByMoves, SwapsMoves
<1> QED
  BY <1>1, <1>3, <1>4, <1>5

\* What a change has tested, or is about to test
Tests(f) == f.fn = "change" /\ f.pc \in {"running", "check"}
Asked(f) == f.fn = "change" /\ f.pc = "cache" /\ f.flag
Ends(f)  == f.fn = "done" /\ f.pc = "test"

\* SetLastCacheDisplayMode by a change f that goes on as g
LEMMA CacheEffect ==
  ASSUME TypeInv, NEW t \in Threads, SetLastCacheDisplayMode(t)
  PROVE  \E f, g :
           /\ f.fn = "change" /\ f.pc = "cache" /\ g.fn = "change" /\ g.pc = "running"
           /\ f.mode = g.mode /\ f.flag \in BOOLEAN
           /\ Effect(t, {g}, 0) /\ Gone(t) = {f} /\ OwedTop(t) = 0
           /\ cache' = f.mode /\ wanted' = (IF f.flag THEN f.mode ELSE wanted)
           /\ ~f.flag /\ f.mode # wanted => "stale" \in upset'
<1> DEFINE f == Top(t)
           g == [f EXCEPT !.pc = "running"]
<1>1. /\ stack[t] # <<>> /\ f.fn = "change" /\ f.pc = "cache" /\ queue' = queue
      /\ Goto(t, "running")
  BY DEF SetLastCacheDisplayMode, At
<1>2. f \in FramesOf(t) /\ Gone(t) = {f} /\ OwedTop(t) = Owed(f)
  BY <1>1, TopEffects
<1>3. g \in FramesOf(t)
  BY <1>1, <1>2, DullGoto
<1>4. g.fn = f.fn /\ g.pc = "running" /\ g.mode = f.mode /\ Effect(t, {g}, Owed(g))
  BY <1>1, <1>3, TopEffects
<1>5. f.flag \in BOOLEAN
  BY <1>2 DEF FramesOf, FrameType
<1>6. /\ cache' = f.mode /\ wanted' = (IF f.flag THEN f.mode ELSE wanted)
      /\ ~f.flag /\ f.mode # wanted => "stale" \in upset'
  BY DEF SetLastCacheDisplayMode, Note
<1> HIDE DEF f, g
<1>7. Owed(f) = 0 /\ Owed(g) = 0
  BY <1>1, <1>4 DEF Owed
<1> QED
  BY <1>1, <1>2, <1>4, <1>5, <1>6, <1>7

LEMMA RunningEffect ==
  ASSUME TypeInv, NEW t \in Threads, TestRunning(t)
  PROVE  \E f, A :
           /\ f.fn = "change" /\ f.pc = "running"
           /\ Effect(t, A, 0) /\ Gone(t) = {f} /\ OwedTop(t) = 0
           /\ \/ A = {} /\ running
              \/ \E g : A = {g} /\ g.fn = "change" /\ g.pc = "check" /\ g.mode = f.mode
<1> DEFINE f == Top(t)
           g == [f EXCEPT !.pc = "check"]
<1>1. /\ stack[t] # <<>> /\ f.fn = "change" /\ f.pc = "running" /\ queue' = queue
      /\ (running /\ Return(t)) \/ Goto(t, "check")
  BY DEF TestRunning, At
<1>2. f \in FramesOf(t) /\ Gone(t) = {f} /\ OwedTop(t) = Owed(f)
  BY <1>1, TopEffects
<1>3. g \in FramesOf(t)
  BY <1>1, <1>2, DullGoto
<1>4. /\ g.fn = f.fn /\ g.pc = "check" /\ g.mode = f.mode
      /\ Goto(t, "check") => Effect(t, {g}, Owed(g))
      /\ Return(t) => Effect(t, {}, 0)
  BY <1>1, <1>3, TopEffects
<1> HIDE DEF f, g
<1>5. Owed(f) = 0 /\ Owed(g) = 0
  BY <1>1, <1>4 DEF Owed
<1>6. CASE running /\ Return(t)
  BY <1>1, <1>2, <1>4, <1>5, <1>6
<1>7. CASE Goto(t, "check")
  BY <1>1, <1>2, <1>4, <1>5, <1>7
<1> QED
  BY <1>1, <1>6, <1>7

\* A change that is not made
LEMMA NoStartEffect ==
  ASSUME TypeInv, NEW t \in Threads, Start(t), ~Starts(t)
  PROVE  \E f :
           /\ f.fn = "change" /\ f.pc = "check"
           /\ Effect(t, {}, 0) /\ Gone(t) = {f} /\ OwedTop(t) = 0
           /\ current = f.mode \/ "refused" \in upset'
           /\ UNCHANGED <<last, running, pending>>
<1> DEFINE f == Top(t)
<1>1. stack[t] # <<>> /\ f.fn = "change" /\ f.pc = "check" /\ queue' = queue
  BY DEF Start, At
<1>2. f \in FramesOf(t) /\ Gone(t) = {f} /\ OwedTop(t) = Owed(f)
  BY <1>1, TopEffects
<1>3. CASE Refused(f) \/ current = f.mode
  <2>1. /\ Return(t) /\ UNCHANGED <<last, running, pending>>
        /\ Refused(f) => "refused" \in upset'
    BY <1>3 DEF Start, countVars, Note, Refused
  <2>2. Effect(t, {}, 0)
    BY <1>1, <2>1, TopEffects
  <2> HIDE DEF f
  <2>3. Owed(f) = 0
    BY <1>1 DEF Owed
  <2> QED
    BY <1>1, <1>2, <1>3, <2>1, <2>2, <2>3
<1>4. CASE ~(Refused(f) \/ current = f.mode)
  BY <1>1, <1>4, StartMade DEF TypeInv
<1> QED
  BY <1>3, <1>4

-----------------------------------------------------------------------------
(* The same of any step: the calls A come, those of B, which are held, may  *)
(* go, and o less and n more is owed.                                       *)

Exchange(A, B, n, o) ==
  /\ HeldBy(A, B) /\ B \subseteq Held
  /\ Owing' \in Int /\ n \in Nat /\ o \in Nat /\ Owing' + o = Owing + n

LEMMA EffectExchange ==
  ASSUME NEW t \in Threads, NEW A, NEW n \in Nat, Effect(t, A, n), OwedTop(t) \in Nat
  PROVE  Exchange(A, Gone(t), n, OwedTop(t))
  BY DEF Effect, Exchange

LEMMA MoveExchange ==
  ASSUME TypeInv, NEW t \in Threads, stack[t] # <<>>, queue' = queue
  PROVE  /\ Moves(t, <<>>) => Exchange({}, {Top(t)}, 0, Owed(Top(t)))
         /\ \A a \in FramesOf(t) : Moves(t, <<a>>) =>
              Exchange({a}, {Top(t)}, Owed(a), Owed(Top(t)))
         /\ \A a, b \in FramesOf(t) : Moves(t, <<a, b>>) =>
              Exchange({a, b}, {Top(t)}, Owed(a) + Owed(b), Owed(Top(t)))
         /\ \A a, b, c \in FramesOf(t) : Moves(t, <<a, b, c>>) =>
              Exchange({a, b, c}, {Top(t)}, Owed(a) + Owed(b) + Owed(c), Owed(Top(t)))
<1>1. \A A, n : Swaps(t, A, n) => Exchange(A, {Top(t)}, n, Owed(Top(t)))
  BY SwapsHeld DEF Exchange, Gone, OwedTop, QueueMoves
<1> QED
  BY <1>1, SwapsMoves

LEMMA BeginExchange ==
  ASSUME TypeInv, NEW t \in Threads, NEW a \in FramesOf(t), Moves(t, <<a>>), stack[t] = <<>>,
         queue' = queue
  PROVE  Exchange({a}, {}, Owed(a), 0)
<1>1. Swaps(t, {a}, Owed(a))
  BY SwapsMoves
<1> QED
  BY <1>1, SwapsHeld DEF Exchange, Gone, OwedTop, QueueMoves

LEMMA PostsExchange ==
  ASSUME TypeInv, NEW t \in Threads, stack[t] # <<>>, NEW k \in Tasks, NEW g \in FramesOf(t),
         t = "runner" => k \in FramesOf(t), PostsTask(t, k, g), k.fn # "panel"
  PROVE  Exchange({k, g}, {Top(t)}, Owed(k) + Owed(g), Owed(Top(t)))
<1>1. HeldBy({k, g}, {Top(t)}) /\ Top(t) \in Held
  BY HeldPosts, FrameInHeld DEF TypeInv
<1>2. Owed(k) \in Nat /\ Owed(g) \in Nat /\ Owed(Top(t)) \in Nat
  BY OwedFacts
<1>3. CASE t = "runner"
  BY <1>3, MoveExchange DEF PostsTask
<1>4. CASE t # "runner"
  <2>1. Moves(t, <<g>>) /\ queue' = Append(queue, k)
    BY <1>4 DEF PostsTask
  <2>2. Swaps(t, {g}, Owed(g))
    BY <2>1, SwapsMoves
  <2>3. Owing' + OwedTop(t) = Owing + Owed(g) + Owed(k) /\ Owing' \in Int /\ Owing \in Nat
    BY <2>1, <2>2, SwapsHeld DEF QueueMoves
  <2> QED
    BY <1>1, <1>2, <2>3 DEF Exchange, OwedTop
<1> QED
  BY <1>3, <1>4

-----------------------------------------------------------------------------
(* The count, the mode asked for, and the tent mode.                       *)

Flying    == \E f \in Held : InFlight(f)
Triggered == \E f \in Held : f.fn = "trigger"
Counted == ~Upset({"overlap", "stray", "bootRaces"})
Even == Counted /\ ~Upset({"unhandled", "boot"})

\* A change under way has its flag, and counts for all that is owed.
FlightOK == Counted /\ Flying => running /\ pending >= Debt /\ ~Triggered
\* So does, exactly, what is left when the call has returned; and some call ends it.
EvenOK ==
  Even /\ running => pending = Debt /\ ~Triggered /\ (pending = 0 => \E f \in Held : Ends(f))
NoticeOK == notices > 0 => "boot" \in upset

Straight == ~Upset({"overlap", "stale", "refused", "exitRaces", "stray", "bootRaces"})
\* The calls that will see that another mode was asked for
Looks(f) ==
  \/ f.fn = "done" /\ f.pc = "compare"
  \/ Tests(f) /\ f.mode = wanted
  \/ f.fn = "change" /\ f.pc = "cache" /\ ~f.flag /\ f.mode = wanted
CacheOK == Straight => \A f \in Held : Tests(f) => cache = wanted
WantedOK ==
  Straight => last = wanted \/ (cache = wanted /\ (running \/ \E f \in Held : Looks(f)))

\* The calls that end the coordination mode as the tent is set up
Awaits(f) == Asked(f) \/ (f.fn = "tentOn" /\ f.pc \in {"sense", "change"})
TentOK ==
  tent /\ ~Upset({"tentInChange"}) =>
    /\ \A f \in Held : Asked(f) => f.mode # "COORDINATION"
    /\ wanted # "COORDINATION" \/ \E f \in Held : Awaits(f)
AgreeInv == FlightOK /\ EvenOK /\ NoticeOK /\ CacheOK /\ WantedOK /\ TentOK

LEMMA UpsetFewer ==
  ASSUME upset \subseteq upset'
  PROVE  /\ Counted' => Counted
         /\ Even' => Even /\ Counted'
         /\ Straight' => Straight /\ Counted' /\ ~Upset({"overlap", "exitRaces"})'
         /\ ~Upset({"tentInChange"})' => ~Upset({"tentInChange"})
  BY DEF Upset, Counted, Even, Straight

\* What keeps the count: a step that counts down what it does, and takes nothing that
\* ends a change.
CountKept(A, B) ==
  /\ running' = running /\ upset \subseteq upset' /\ pending' \in Int
  /\ notices' \in Nat /\ (notices' > 0 => notices > 0 \/ "boot" \in upset')
  /\ \A a \in A : InFlight(a) => \E b \in B : InFlight(b)
  /\ \A a \in A : a.fn = "trigger" => \E b \in B : b.fn = "trigger"
  /\ \/ Triggered
     \/ /\ Counted' => pending' + Debt >= pending + Debt'
        /\ Even' => pending' + Debt = pending + Debt'
  /\ pending' = 0 => (\E a \in A : Ends(a)) \/ (pending = 0 /\ \A b \in B : ~Ends(b))

LEMMA Covers ==
  ASSUME NEW p \in Int, NEW d \in Int, NEW q \in Int, NEW e \in Int, p >= d, q + d >= p + e
  PROVE  q >= e
  OBVIOUS

LEMMA CountStays ==
  ASSUME TypeInv, FlightOK, EvenOK, NoticeOK, NEW A, NEW B, NEW n, NEW o,
         Exchange(A, B, n, o), CountKept(A, B)
  PROVE  FlightOK' /\ EvenOK' /\ NoticeOK'
<1>0. /\ Held' \subseteq Held \cup A /\ A \subseteq Held' /\ Held \subseteq Held' \cup B
      /\ B \subseteq Held
  BY DEF Exchange, HeldBy
<1>1. /\ Debt \in Nat /\ pending \in Int /\ pending' \in Int
      /\ Debt' \in Int /\ Debt \in Int
  BY DebtType DEF Debt, Exchange, CountKept
<1>2. \A f \in Held' : InFlight(f) => Flying
  BY <1>0 DEF CountKept, Flying
<1>3. \A f \in Held' : f.fn = "trigger" => Triggered
  BY <1>0 DEF CountKept, Triggered
<1>4. (Flying' => Flying) /\ (Triggered' => Triggered)
  BY <1>2, <1>3 DEF Flying, Triggered, InFlight
<1>5. /\ Counted' /\ ~Triggered => pending' + Debt >= pending + Debt'
      /\ Even' /\ ~Triggered => pending' + Debt = pending + Debt'
      /\ running' = running
  BY DEF CountKept
<1>6. FlightOK'
  <2> SUFFICES ASSUME Counted', Flying'
               PROVE  running' /\ pending' >= Debt' /\ ~Triggered'
    BY DEF FlightOK
  <2>1. running /\ pending >= Debt /\ ~Triggered
    BY <1>4, UpsetFewer DEF FlightOK, CountKept
  <2>2. pending' + Debt >= pending + Debt'
    BY <1>5, <2>1
  <2>3. pending' >= Debt'
    BY <1>1, <2>1, <2>2, Covers
  <2> QED
    BY <1>4, <1>5, <2>1, <2>3
<1>7. EvenOK'
  <2> SUFFICES ASSUME Even', running'
               PROVE  /\ pending' = Debt' /\ ~Triggered'
                      /\ pending' = 0 => \E f \in Held' : Ends(f)
    BY DEF EvenOK, Ends
  <2>1. pending = Debt /\ ~Triggered /\ (pending = 0 => \E f \in Held : Ends(f))
    BY UpsetFewer DEF EvenOK, CountKept
  <2>2. pending' = Debt' /\ ~Triggered'
    <3>1. pending' + Debt = pending + Debt'
      BY <1>5, <2>1
    <3>2. pending' = Debt'
      BY <1>1, <2>1, <3>1
    <3> QED
      BY <1>4, <2>1, <3>2
  <2>3. pending' = 0 => \E f \in Held' : Ends(f)
    BY <1>0, <2>1 DEF CountKept
  <2> QED
    BY <2>2, <2>3
<1>8. NoticeOK'
  BY DEF NoticeOK, CountKept
<1> QED
  BY <1>6, <1>7, <1>8

\* What keeps the modes: nothing that looks goes, unless something that looks comes.
LooksKept(A, B) ==
  /\ upset \subseteq upset' /\ UNCHANGED <<cache, last, wanted>>
  /\ \A a \in A : Tests(a) => \E b \in B : Tests(b)
  /\ \A b \in B : Looks(b) => running' \/ last = wanted \/ ~Straight' \/ \E a \in A : Looks(a)
  /\ running => running' \/ \E a \in A : Looks(a)

LEMMA LooksStay ==
  ASSUME CacheOK, WantedOK, NEW A, NEW B, NEW n, NEW o, Exchange(A, B, n, o), LooksKept(A, B)
  PROVE  CacheOK' /\ WantedOK'
<1>0. /\ Held' \subseteq Held \cup A /\ A \subseteq Held' /\ Held \subseteq Held' \cup B
      /\ B \subseteq Held
  BY DEF Exchange, HeldBy
<1>1. \A f : Looks(f)' <=> Looks(f)
  BY DEF Looks, LooksKept, Tests
<1>2. CacheOK'
  <2> SUFFICES ASSUME Straight', NEW f \in Held', Tests(f)
               PROVE  cache' = wanted'
    BY DEF CacheOK, Tests
  <2>1. \E g \in Held : Tests(g)
    BY <1>0 DEF LooksKept
  <2> QED
    BY <2>1, UpsetFewer DEF CacheOK, LooksKept
<1>3. WantedOK'
  <2> SUFFICES ASSUME Straight', last' # wanted'
               PROVE  cache' = wanted' /\ (running' \/ \E f \in Held' : Looks(f))
    BY <1>1 DEF WantedOK
  <2>1. /\ cache = wanted /\ (running \/ \E f \in Held : Looks(f)) /\ last # wanted
        /\ cache' = wanted'
    BY UpsetFewer DEF WantedOK, LooksKept
  <2> QED
    BY <1>0, <2>1 DEF LooksKept
<1> QED
  BY <1>2, <1>3

\* What keeps the tent mode free of the coordination mode
TentKept(A, B) ==
  /\ upset \subseteq upset' /\ (tent' => tent)
  /\ wanted' = wanted \/ wanted' # "COORDINATION"
  /\ \A a \in A : Asked(a) => a.mode # "COORDINATION" \/ ~tent
  /\ \A b \in B : Awaits(b) => (\E a \in A : Awaits(a)) \/ wanted' # "COORDINATION" \/ ~tent

LEMMA TentStays ==
  ASSUME TentOK, NEW A, NEW B, NEW n, NEW o, Exchange(A, B, n, o), TentKept(A, B)
  PROVE  TentOK'
<1>0. /\ Held' \subseteq Held \cup A /\ A \subseteq Held' /\ Held \subseteq Held' \cup B
      /\ B \subseteq Held
  BY DEF Exchange, HeldBy
<1> SUFFICES ASSUME tent', ~Upset({"tentInChange"})'
             PROVE  /\ \A f \in Held' : Asked(f) => f.mode # "COORDINATION"
                    /\ wanted' # "COORDINATION" \/ \E f \in Held' : Awaits(f)
  BY DEF TentOK, Awaits, Asked
<1>1. /\ tent
      /\ \A f \in Held : Asked(f) => f.mode # "COORDINATION"
      /\ wanted # "COORDINATION" \/ \E f \in Held : Awaits(f)
  BY UpsetFewer DEF TentOK, TentKept
<1>2. \A f \in Held' : Asked(f) => f.mode # "COORDINATION"
  BY <1>0, <1>1 DEF TentKept
<1>3. wanted' # "COORDINATION" \/ \E f \in Held' : Awaits(f)
  BY <1>0, <1>1 DEF TentKept
<1> QED
  BY <1>2, <1>3

LEMMA AgreeStays ==
  ASSUME TypeInv, AgreeInv, NEW A, NEW B, NEW n, NEW o, Exchange(A, B, n, o),
         CountKept(A, B), LooksKept(A, B), TentKept(A, B)
  PROVE  AgreeInv'
<1>1. FlightOK' /\ EvenOK' /\ NoticeOK'
  BY CountStays DEF AgreeInv
<1>2. CacheOK' /\ WantedOK'
  BY LooksStay DEF AgreeInv
<1>3. TentOK'
  BY TentStays DEF AgreeInv
<1> QED
  BY <1>1, <1>2, <1>3 DEF AgreeInv

\* x is counted down, and y notices come.
LEMMA Balance ==
  ASSUME TypeInv, NEW A, NEW B, NEW n, NEW o, NEW x \in Int, NEW y \in Int,
         Exchange(A, B, n, o), running' = running, upset \subseteq upset',
         pending' = pending - x, notices' = notices + y, notices' \in Nat,
         y > 0 => "boot" \in upset',
         \A a \in A : InFlight(a) => \E b \in B : InFlight(b),
         \A a \in A : a.fn = "trigger" => \E b \in B : b.fn = "trigger",
         Triggered \/ ~Counted' \/ (n + y + x <= o /\ (n + y + x = o \/ ~Even')),
         (x = 0 /\ \A b \in B : ~Ends(b)) \/ \E a \in A : Ends(a)
  PROVE  CountKept(A, B)
<1>1. /\ Owing \in Nat /\ notices \in Nat /\ pending \in Int
      /\ Owing' \in Int /\ n \in Nat /\ o \in Nat /\ Owing' + o = Owing + n
  BY DebtType DEF Exchange
<1>2. pending' \in Int /\ (notices' > 0 => notices > 0 \/ "boot" \in upset')
  BY <1>1
<1>3. /\ Debt = Owing + notices /\ Debt' = Owing' + (notices + y)
      /\ n + y + x <= o => pending' + Debt >= pending + Debt'
      /\ n + y + x = o => pending' + Debt = pending + Debt'
  <2>1. Debt = Owing + notices /\ Debt' = Owing' + (notices + y)
    BY DEF Debt
  <2>2. Owing \in Int /\ notices \in Int /\ n \in Int /\ o \in Int
    BY <1>1
  <2>3. /\ n + y + x <= o =>
             (pending - x) + (Owing + notices) >= pending + (Owing' + (notices + y))
        /\ n + y + x = o =>
             (pending - x) + (Owing + notices) = pending + (Owing' + (notices + y))
    <3>1. PICK p \in Int, g \in Int, h \in Int, m \in Int :
            p = pending /\ g = Owing /\ h = Owing' /\ m = notices
      BY <1>1, <2>2
    <3>2. h + o = g + n
      BY <1>1, <3>1
    <3>3. /\ n + y + x <= o => (p - x) + (g + m) >= p + (h + (m + y))
          /\ n + y + x = o => (p - x) + (g + m) = p + (h + (m + y))
      BY <2>2, <3>2
    <3> QED
      BY <3>1, <3>3
  <2> QED
    BY <2>1, <2>3
<1>4. Even' => Counted'
  BY UpsetFewer
<1>5. \/ Triggered
      \/ /\ Counted' => pending' + Debt >= pending + Debt'
         /\ Even' => pending' + Debt = pending + Debt'
  BY <1>3, <1>4
<1>6. pending' = 0 => (\E a \in A : Ends(a)) \/ (pending = 0 /\ \A b \in B : ~Ends(b))
  BY <1>1
<1> QED
  BY <1>2, <1>5, <1>6 DEF CountKept

\* The calls that the modes asked for do not depend on
Deaf(f) ==
  /\ ~Tests(f) /\ ~Awaits(f)
  /\ ~(f.fn = "done" /\ f.pc = "compare") /\ ~(f.fn = "change" /\ f.pc = "cache")

LEMMA DeafStay ==
  ASSUME NEW A, NEW B, \A f \in A \cup B : Deaf(f), upset \subseteq upset', tent' => tent,
         UNCHANGED <<cache, last, wanted, running>>
  PROVE  LooksKept(A, B) /\ TentKept(A, B)
<1>1. \A f : Deaf(f) => ~Tests(f) /\ ~Looks(f) /\ ~Asked(f) /\ ~Awaits(f)
  BY DEF Deaf, Looks, Awaits
<1> QED
  BY <1>1 DEF LooksKept, TentKept

LEMMA DeafAgree ==
  ASSUME TypeInv, AgreeInv, NEW A, NEW B, NEW n, NEW o, Exchange(A, B, n, o), CountKept(A, B),
         \A f \in A \cup B : Deaf(f), tent' => tent,
         UNCHANGED <<cache, last, wanted, running>>
  PROVE  AgreeInv'
<1>1. upset \subseteq upset'
  BY DEF CountKept
<1> QED
  BY <1>1, DeafStay, AgreeStays

LEMMA DeafCalls ==
  ASSUME NEW f,
         \/ f.fn \in {"offOn", "onMain", "onSub", "panel", "suspend", "resume", "cast", "sense",
                      "report", "tentOff", "boot", "trigger"}
         \/ InFlight(f)
         \/ f.fn = "done" /\ f.pc \in {"count", "test"}
         \/ f.fn = "tentOn" /\ f.pc = "wake"
  PROVE  Deaf(f)
  BY DEF Deaf, Tests, Awaits, Asked, InFlight

LEMMA PostsAgree ==
  ASSUME TypeInv, AgreeInv, NEW t \in Threads, stack[t] # <<>>, NEW k \in Tasks,
         NEW g \in FramesOf(t), PostsTask(t, k, g), k.fn # "panel",
         InFlight(Top(t)) \/ Top(t).fn = "trigger", g.fn = Top(t).fn,
         g.pc \in {"nodes", "postSub"},
         Top(t).fn = "change" => Owed(k) + Owed(g) = Owed(Top(t)),
         UNCHANGED <<cache, last, wanted, running, pending, notices, tent>>,
         upset \subseteq upset'
  PROVE  AgreeInv'
<1> DEFINE f == Top(t)
           n == Owed(k) + Owed(g)
<1>1. t = "runner" => k \in FramesOf(t)
  BY TaskFrames
<1>2. Exchange({k, g}, {f}, n, Owed(f))
  BY <1>1, PostsExchange
<1>3. k.fn \in {"offOn", "onMain", "onSub"}
  BY DEF Tasks
<1>4. f \in Held
  BY FrameInHeld DEF TypeInv
<1> HIDE DEF f
<1>5. Deaf(k) /\ Deaf(g) /\ Deaf(f)
  BY <1>3, DeafCalls DEF f, InFlight
<1>6. /\ ~InFlight(k) /\ (InFlight(g) => InFlight(f)) /\ k.fn # "trigger"
      /\ (g.fn = "trigger" => f.fn = "trigger") /\ ~Ends(f)
  BY <1>3 DEF f, InFlight, Ends
<1>7. pending' = pending - 0 /\ notices' = notices + 0 /\ notices' \in Nat
  BY DebtType
<1>8. Triggered \/ n = Owed(f)
  BY <1>4 DEF Triggered, f, InFlight
<1>9. n \in Nat /\ Owed(f) \in Nat
  BY <1>2 DEF Exchange
<1> HIDE DEF n
<1>10. CountKept({k, g}, {f})
  BY <1>2, <1>6, <1>7, <1>8, <1>9, Balance
<1> QED
  BY <1>2, <1>5, <1>10, DeafAgree

LEMMA PostAgree ==
  ASSUME TypeInv, AgreeInv, NEW t \in Threads, Posts(t)
  PROVE  AgreeInv'
<1> DEFINE f == Top(t)
<1>0. stack[t] # <<>> /\ f \in Held /\ f \in FramesOf(t)
  BY FrameInHeld, TopFacts DEF Posts, TypeInv
<1>1. CASE PostOffOn(t)
  <2> DEFINE g == [f EXCEPT !.pc = "nodes"]
             k == OffOnTask(t)
  <2>1. /\ f.fn \in {"change", "trigger"} /\ f.pc = "post"
        /\ g \in FramesOf(t) /\ PostsTask(t, k, g) /\ k \in Tasks
    BY <1>0, <1>1, OffOnEffect DEF TypeInv
  <2>2. UNCHANGED <<cache, last, wanted, running, pending, notices, tent>> /\ upset' = upset
    BY <1>1 DEF PostOffOn, modeVars, countVars, bootVars, foldVars
  <2>3. g.fn = f.fn /\ g.pc = "nodes" /\ k.fn = "offOn" /\ k.pc = "off"
    BY <1>0 DEF FramesOf, FrameType, OffOnTask, Frame
  <2> HIDE DEF g, k
  <2>4. /\ f.fn = "change" => Owed(f) = 3 /\ Owed(g) = 1 /\ Owed(k) = 2
        /\ InFlight(f) \/ f.fn = "trigger"
    BY <2>1, <2>3 DEF InFlight, Owed
  <2> QED
    BY <1>0, <2>1, <2>2, <2>3, <2>4, PostsAgree
<1>2. CASE PostOnMain(t)
  <2> DEFINE g == [f EXCEPT !.pc = "postSub"]
             k == OnMainTask(t)
  <2>1. /\ f.fn = "change" /\ f.pc = "postMain"
        /\ g \in FramesOf(t) /\ PostsTask(t, k, g) /\ k \in Tasks
    BY <1>0, <1>2, OnMainEffect DEF TypeInv
  <2>2. /\ UNCHANGED <<cache, last, wanted, running, pending, notices, tent>>
        /\ upset \subseteq upset'
    BY <1>2, NoteGrows DEF PostOnMain, modeVars, countVars, bootVars, foldVars
  <2>3. g.fn = f.fn /\ g.pc = "postSub" /\ k.fn = "onMain"
    BY <1>0, <2>1 DEF FramesOf, FrameType, OnMainTask, Frame
  <2> HIDE DEF g, k
  <2>4. Owed(f) = 3 /\ Owed(g) = 2 /\ Owed(k) = 1 /\ InFlight(f)
    BY <2>1, <2>3 DEF InFlight, Owed
  <2> QED
    BY <1>0, <2>1, <2>2, <2>3, <2>4, PostsAgree
<1>3. CASE PostOnSub(t)
  <2> DEFINE g == [f EXCEPT !.pc = "nodes"]
             k == OnSubTask(t)
  <2>1. /\ f.fn = "change" /\ f.pc = "postSub"
        /\ g \in FramesOf(t) /\ PostsTask(t, k, g) /\ k \in Tasks
    BY <1>0, <1>3, OnSubEffect DEF TypeInv
  <2>2. UNCHANGED <<cache, last, wanted, running, pending, notices, tent>> /\ upset' = upset
    BY <1>3 DEF PostOnSub, modeVars, countVars, bootVars, foldVars
  <2>3. g.fn = f.fn /\ g.pc = "nodes" /\ k.fn = "onSub"
    BY <1>0, <2>1 DEF FramesOf, FrameType, OnSubTask, Frame
  <2> HIDE DEF g, k
  <2>4. Owed(f) = 2 /\ Owed(g) = 1 /\ Owed(k) = 1 /\ InFlight(f)
    BY <2>1, <2>3 DEF InFlight, Owed
  <2> QED
    BY <1>0, <2>1, <2>2, <2>3, <2>4, PostsAgree
<1>4. CASE PostNothing(t)
  <2> DEFINE g == [f EXCEPT !.pc = "current"]
  <2>1. /\ f.fn \in {"change", "trigger"} /\ f.pc = "post"
        /\ g \in FramesOf(t) /\ Moves(t, <<g>>)
    BY <1>0, <1>4, PostNothingEffect DEF TypeInv
  <2>2. /\ UNCHANGED <<cache, last, wanted, running, pending, notices, tent, queue>>
        /\ upset \subseteq upset' /\ (f.fn = "change" => "unhandled" \in upset')
    BY <1>4 DEF PostNothing, modeVars, countVars, bootVars, foldVars, Note
  <2>3. g.fn = f.fn /\ g.pc = "current"
    BY <1>0 DEF FramesOf, FrameType
  <2>4. Exchange({g}, {f}, Owed(g), Owed(f))
    BY <1>0, <2>1, <2>2, MoveExchange
  <2> HIDE DEF f, g
  <2>5. /\ f.fn = "change" => Owed(f) = 3 /\ Owed(g) = 1
        /\ InFlight(f) \/ f.fn = "trigger"
        /\ (InFlight(g) => InFlight(f)) /\ (g.fn = "trigger" => f.fn = "trigger") /\ ~Ends(f)
    BY <2>1, <2>3 DEF InFlight, Owed, Ends
  <2>6. Deaf(f) /\ Deaf(g)
    BY <2>3, <2>5, DeafCalls DEF InFlight
  <2>7. pending' = pending - 0 /\ notices' = notices + 0 /\ notices' \in Nat
    BY <2>2, DebtType
  <2>8. Triggered \/ (Owed(g) + 0 + 0 <= Owed(f) /\ ~Even')
    BY <1>0, <2>1, <2>2, <2>5 DEF Triggered, Even, Upset
  <2>9. CountKept({g}, {f})
    BY <2>2, <2>4, <2>5, <2>7, <2>8, Balance
  <2> QED
    BY <2>2, <2>4, <2>6, <2>9, DeafAgree
<1>5. CASE ReadScreenOn(t)
  <2> DEFINE g == [f EXCEPT !.pc = "postMain", !.flag = deviceOn]
  <2>1. /\ f.fn = "change" /\ f.pc = "post"
        /\ g \in FramesOf(t) /\ Moves(t, <<g>>)
    BY <1>0, <1>5, ReadEffect DEF TypeInv
  <2>2. /\ UNCHANGED <<cache, last, wanted, running, pending, notices, tent, queue>>
        /\ upset \subseteq upset'
    BY <1>5, NoteGrows DEF ReadScreenOn, modeVars, countVars, bootVars, foldVars
  <2>3. g.fn = f.fn /\ g.pc = "postMain"
    BY <1>0 DEF FramesOf, FrameType
  <2>4. Exchange({g}, {f}, Owed(g), Owed(f))
    BY <1>0, <2>1, <2>2, MoveExchange
  <2> HIDE DEF f, g
  <2>5. /\ Owed(f) = 3 /\ Owed(g) = 3 /\ InFlight(f) /\ InFlight(g)
        /\ g.fn # "trigger" /\ ~Ends(f)
    BY <2>1, <2>3 DEF InFlight, Owed, Ends
  <2>6. Deaf(f) /\ Deaf(g)
    BY <2>5, DeafCalls
  <2>7. pending' = pending - 0 /\ notices' = notices + 0 /\ notices' \in Nat
    BY <2>2, DebtType
  <2>8. CountKept({g}, {f})
    BY <2>2, <2>4, <2>5, <2>7, Balance
  <2> QED
    BY <2>2, <2>4, <2>6, <2>8, DeafAgree
<1> QED
  BY <1>1, <1>2, <1>3, <1>4, <1>5 DEF Posts

LEMMA StartAgree ==
  ASSUME TypeInv, AgreeInv, NEW t \in Threads, Starts(t)
  PROVE  AgreeInv'
<1> DEFINE f == Top(t)
           g == [f EXCEPT !.pc = "post"]
<1>1. /\ stack[t] # <<>> /\ f \in FramesOf(t) /\ f.fn = "change" /\ f.pc = "check"
      /\ last' = f.mode /\ running' = TRUE /\ pending' = 3 /\ upset \subseteq upset'
      /\ Unfinished => "overlap" \in upset'
      /\ t # "boot" /\ ~Idle("boot") => "bootRaces" \in upset'
      /\ g \in FramesOf(t) /\ Moves(t, <<g>>)
  BY DEF Starts
<1>2. UNCHANGED <<cache, wanted, notices, tent, queue>>
  BY DEF Starts, Start, bootVars, foldVars
<1>3. g.fn = "change" /\ g.pc = "post"
  BY <1>1 DEF FramesOf, FrameType
<1>4. Exchange({g}, {f}, Owed(g), Owed(f)) /\ f \in Held
  BY <1>1, <1>2, MoveExchange, FrameInHeld DEF TypeInv
<1>5. \A h \in Held : h.fn = "trigger" => "bootRaces" \in upset'
  <2> SUFFICES ASSUME NEW h \in Held, h.fn = "trigger"
               PROVE  "bootRaces" \in upset'
    OBVIOUS
  <2>1. stack["boot"] # <<>> /\ h = Top("boot")
    BY TriggerOnBoot
  <2>2. t # "boot"
    BY <1>1, <2>1
  <2> QED
    BY <1>1, <2>1, <2>2 DEF Idle
<1> HIDE DEF f, g
<1>6. Owed(g) = 3 /\ Owed(f) = 0
  BY <1>1, <1>3 DEF Owed
<1>7. Held' \subseteq Held \cup {g} /\ g \in Held'
  BY <1>4 DEF Exchange, HeldBy
<1>8. ASSUME Counted'
      PROVE  pending' = Debt' /\ ~Triggered'
  <2>1. ~Unfinished
    BY <1>1, <1>8 DEF Counted, Upset
  <2>2. Debt = 0 /\ Owing \in Nat /\ notices \in Nat
    BY <2>1, DebtHeld, DebtType
  <2>3. Owing = 0 /\ notices = 0
    <3>1. PICK w \in Nat, m \in Nat : w = Owing /\ m = notices
      BY <2>2
    <3>2. w + m = 0
      BY <2>2, <3>1 DEF Debt
    <3> QED
      BY <3>1, <3>2
  <2>4. Owing' = 3
    <3>1. Owing' + 0 = 0 + 3 /\ Owing' \in Int
      BY <1>4, <1>6, <2>3 DEF Exchange
    <3>2. PICK w \in Int : w = Owing'
      BY <3>1
    <3>3. w + 0 = 0 + 3
      BY <3>1, <3>2
    <3>4. w = 3
      BY <3>3
    <3> QED
      BY <3>2, <3>4
  <2>5. Debt' = 3
    BY <1>2, <2>3, <2>4 DEF Debt
  <2>6. ~Triggered'
    BY <1>3, <1>5, <1>7, <1>8 DEF Triggered, Counted, Upset
  <2> QED
    BY <1>1, <2>5, <2>6
<1>9. FlightOK' /\ EvenOK' /\ NoticeOK'
  <2>1. FlightOK'
    <3>1. Debt' = pending' => pending' >= Debt'
      BY <1>1
    <3> QED
      BY <1>1, <1>8, <3>1 DEF FlightOK
  <2>2. EvenOK'
    BY <1>1, <1>8, UpsetFewer DEF EvenOK
  <2>3. NoticeOK'
    BY <1>1, <1>2 DEF NoticeOK, AgreeInv
  <2> QED
    BY <2>1, <2>2, <2>3
<1>10. CacheOK' /\ WantedOK'
  <2>1. ASSUME Straight'
        PROVE  cache' = wanted'
    <3>1. Tests(f) /\ Straight
      BY <1>1, <2>1, UpsetFewer DEF Tests
    <3> QED
      BY <1>2, <1>4, <3>1 DEF AgreeInv, CacheOK
  <2> QED
    BY <1>1, <2>1 DEF CacheOK, WantedOK
<1>11. TentOK'
  <2>1. /\ ~Asked(g) /\ ~Awaits(g) /\ ~Awaits(f)
    BY <1>1, <1>3 DEF Asked, Awaits
  <2>2. TentKept({g}, {f})
    BY <1>1, <1>2, <2>1 DEF TentKept
  <2> QED
    BY <1>4, <2>2, TentStays DEF AgreeInv
<1> QED
  BY <1>9, <1>10, <1>11 DEF AgreeInv

LEMMA ShowBootAgree ==
  ASSUME TypeInv, AgreeInv, NEW t \in Threads, stack[t] # <<>>, ShowOnBootAnimation(t)
  PROVE  AgreeInv'
<1> DEFINE f == Top(t)
           g == [f EXCEPT !.pc = "current"]
<1>1. /\ f \in FramesOf(t) /\ f.fn \in {"change", "trigger"} /\ f.pc = "post" /\ onBoot
      /\ g \in FramesOf(t) /\ f \in Frames(t)
      /\ Moves(t, <<g>>) \/ Moves(t, <<Done, g>>)
  BY BootEffect, TopFacts DEF TypeInv
<1>2. f.fn = "change"
  BY <1>1 DEF TypeInv, LoneOK, Lone
<1>3. /\ UNCHANGED <<cache, last, wanted, running, pending, tent, queue>>
      /\ upset \subseteq upset' /\ "boot" \in upset'
      /\ \/ notices' = notices + 1 /\ Goto(t, "current")
         \/ notices' = notices /\ Call(t, <<Done>>, "current")
  BY DEF ShowOnBootAnimation, modeVars, countVars, foldVars
<1>4. g.fn = "change" /\ g.pc = "current" /\ Done.fn = "done" /\ Done.pc = "count"
  BY <1>1, <1>2 DEF FramesOf, FrameType, Done, Frame
<1>5. Done \in FramesOf(t)
  BY NewFrames
<1>6. /\ Moves(t, <<g>>) => Exchange({g}, {f}, Owed(g), Owed(f))
      /\ Moves(t, <<Done, g>>) => Exchange({Done, g}, {f}, Owed(Done) + Owed(g), Owed(f))
  BY <1>1, <1>3, <1>5, MoveExchange
<1>7. /\ Goto(t, "current") => Moves(t, <<g>>)
      /\ Call(t, <<Done>>, "current") => Moves(t, <<Done, g>>)
  BY <1>5, GotoMoves, CallMoves1 DEF TypeInv
<1>8. notices \in Nat
  BY DebtType
<1> HIDE DEF f, g
<1>9. Owed(g) = 1 /\ Owed(f) = 3 /\ Owed(Done) = 1
  BY <1>1, <1>2, <1>4 DEF Owed
<1>10. InFlight(f) /\ ~Ends(f) /\ ~InFlight(Done) /\ InFlight(g)
  BY <1>1, <1>2, <1>4 DEF InFlight, Ends
<1>11. Deaf(f) /\ Deaf(g) /\ Deaf(Done)
  BY <1>4, <1>10, DeafCalls
<1>12. ~Even'
  BY <1>3 DEF Even, Upset
<1>13. CASE notices' = notices + 1 /\ Goto(t, "current")
  <2>1. Exchange({g}, {f}, Owed(g), Owed(f))
    BY <1>6, <1>7, <1>13
  <2>2. pending' = pending - 0 /\ notices' \in Nat
    BY <1>3, <1>8, <1>13, DebtType
  <2>4. Owed(g) + 1 + 0 <= Owed(f) /\ ~Even'
    BY <1>9, <1>12
  <2>3. CountKept({g}, {f})
    BY <1>3, <1>4, <1>10, <1>13, <2>1, <2>2, <2>4, Balance
  <2> QED
    BY <1>3, <1>11, <2>1, <2>3, DeafAgree
<1>14. CASE notices' = notices /\ Call(t, <<Done>>, "current")
  <2>1. Exchange({Done, g}, {f}, Owed(Done) + Owed(g), Owed(f))
    BY <1>6, <1>7, <1>14
  <2>2. pending' = pending - 0 /\ notices' = notices + 0 /\ notices' \in Nat
    BY <1>3, <1>8, <1>14, DebtType
  <2>4. Owed(Done) + Owed(g) + 0 + 0 <= Owed(f) /\ ~Even'
    BY <1>9, <1>12
  <2>3. CountKept({Done, g}, {f})
    BY <1>3, <1>4, <1>10, <2>1, <2>2, <2>4, Balance
  <2> QED
    BY <1>3, <1>11, <2>1, <2>3, DeafAgree
<1> QED
  BY <1>3, <1>13, <1>14

\* A step of the runner, or the end of a call, that hands on what it owes
LEMMA HandsOn ==
  ASSUME TypeInv, AgreeInv, NEW A, NEW B, NEW n, NEW o, Exchange(A, B, n, o), n = o,
         \A f \in A \cup B : Deaf(f) /\ f.fn # "trigger",
         \A a \in A : ~InFlight(a), \A b \in B : ~Ends(b),
         UNCHANGED <<cache, last, wanted, running, pending, notices, tent>>,
         upset \subseteq upset'
  PROVE  AgreeInv'
<1>1. pending' = pending - 0 /\ notices' = notices + 0 /\ notices' \in Nat
  BY DebtType
<1>2. n + 0 + 0 <= o /\ n + 0 + 0 = o
  BY DEF Exchange
<1>3. CountKept(A, B)
  BY <1>1, <1>2, Balance
<1> QED
  BY <1>3, DeafAgree

LEMMA FinishAgree ==
  ASSUME TypeInv, AgreeInv, NEW t \in Threads, Finish(t)
  PROVE  AgreeInv'
<1> DEFINE f == Top(t)
<1>1. /\ stack[t] # <<>> /\ f \in FramesOf(t) /\ f.fn \in {"change", "trigger"}
      /\ f.pc \in {"nodes", "current"}
      /\ \/ f.fn = "change" /\ Moves(t, <<Done>>)
         \/ f.fn = "trigger" /\ Moves(t, <<>>)
  BY FinishEffect DEF TypeInv
<1>2. UNCHANGED <<cache, last, wanted, running, pending, notices, tent, queue, upset>>
  BY DEF Finish, countVars, foldVars, bootVars
<1>3. /\ Moves(t, <<>>) => Exchange({}, {f}, 0, Owed(f))
      /\ Moves(t, <<Done>>) => Exchange({Done}, {f}, Owed(Done), Owed(f))
  BY <1>1, <1>2, NewFrames, MoveExchange
<1>4. Done.fn = "done" /\ Done.pc = "count"
  BY DEF Done, Frame
<1> HIDE DEF f
<1>5. ~Ends(f) /\ ~Ends(Done) /\ ~InFlight(Done) /\ Deaf(Done) /\ Deaf(f)
  BY <1>1, <1>4, DeafCalls DEF Ends, InFlight
<1>6. CASE f.fn = "change" /\ Moves(t, <<Done>>)
  <2>1. Owed(Done) = Owed(f)
    BY <1>1, <1>4, <1>6 DEF Owed
  <2> QED
    BY <1>2, <1>3, <1>4, <1>5, <1>6, <2>1, HandsOn
<1>7. CASE f.fn = "trigger" /\ Moves(t, <<>>)
  <2>1. Owed(f) = 0 /\ Exchange({}, {f}, 0, 0) /\ f.fn # "change"
    BY <1>3, <1>7 DEF Owed
  <2>2. pending' = pending - 0 /\ notices' = notices + 0 /\ notices' \in Nat
    BY <1>2, DebtType
  <2>3. CountKept({}, {f})
    BY <1>2, <1>5, <2>1, <2>2, Balance
  <2> QED
    BY <1>2, <1>5, <2>1, <2>3, DeafAgree
<1> QED
  BY <1>1, <1>6, <1>7

LEMMA RunnerAgree ==
  ASSUME TypeInv, AgreeInv, TakeTask \/ TurnOff \/ TurnOn \/ TurnOnMain \/ TurnOnSub
  PROVE  AgreeInv'
<1>0. "runner" \in Threads
  BY DEF Threads
<1>1. UNCHANGED <<cache, last, wanted, running, pending, notices, tent, upset>>
  BY DEF TakeTask, TurnOff, TurnOn, TurnOnMain, TurnOnSub, modeVars, countVars, foldVars, bootVars
<1>2. CASE TakeTask
  <2>1. /\ stack["runner"] = <<>> /\ queue # <<>> /\ queue' = Tail(queue)
        /\ Head(queue) \in FramesOf("runner") /\ Moves("runner", <<Head(queue)>>)
        /\ HeldBy({}, {})
    BY <1>2, TakeTaskEffect DEF TypeInv
  <2>2. Swaps("runner", {Head(queue)}, Owed(Head(queue)))
    BY <1>0, <2>1, SwapsMoves
  <2>3. /\ Owing' + OwedTop("runner") + Owed(Head(queue)) = Owing + Owed(Head(queue))
        /\ OwedTop("runner") = 0 /\ Owing' \in Int /\ Owing \in Int
    BY <1>0, <2>1, <2>2, SwapsHeld DEF QueueMoves, OwedTop
  <2>4. Owing' + 0 = Owing + 0
    <3>1. PICK u \in Int, v \in Int, h \in Int : u = Owing' /\ v = Owing /\ h = Owed(Head(queue))
      BY <2>3, OwedFacts
    <3>2. u + 0 + h = v + h
      BY <2>3, <3>1
    <3>3. u + 0 = v + 0
      BY <3>2
    <3> QED
      BY <3>1, <3>3
  <2>5. Exchange({}, {}, 0, 0)
    BY <2>1, <2>3, <2>4 DEF Exchange
  <2> QED
    BY <1>1, <2>5, HandsOn
<1> DEFINE f == Top("runner")
           g == [f EXCEPT !.pc = "on"]
<1>3. /\ Done \in FramesOf("runner") /\ Done.fn = "done" /\ Done.pc = "count"
      /\ ~InFlight(Done) /\ Deaf(Done) /\ Owed(Done) = 1
  BY <1>0, NewFrames, DeafCalls DEF Done, Frame, InFlight, Owed
<1>4. CASE TurnOff
  <2>1. /\ stack["runner"] # <<>> /\ f \in FramesOf("runner") /\ f.fn = "offOn" /\ f.pc = "off"
        /\ g \in FramesOf("runner") /\ Moves("runner", <<Done, g>>) /\ queue' = queue
    BY <1>4, TurnOffEffect DEF TypeInv, TurnOff
  <2>2. Exchange({Done, g}, {f}, Owed(Done) + Owed(g), Owed(f))
    BY <1>0, <1>3, <2>1, MoveExchange
  <2>3. g.fn = "offOn" /\ g.pc = "on"
    BY <2>1 DEF FramesOf, FrameType
  <2> HIDE DEF f, g
  <2>4. /\ Owed(g) = 1 /\ Owed(f) = 2 /\ ~Ends(f) /\ ~InFlight(g)
        /\ Deaf(f) /\ Deaf(g)
    BY <2>1, <2>3, DeafCalls DEF Owed, Ends, InFlight
  <2>5. Owed(Done) + Owed(g) = Owed(f)
    BY <1>3, <2>4
  <2> QED
    BY <1>1, <1>3, <2>1, <2>2, <2>3, <2>4, <2>5, HandsOn
<1>5. CASE TurnOn \/ TurnOnMain \/ TurnOnSub
  <2>1. /\ stack["runner"] # <<>> /\ f \in FramesOf("runner")
        /\ (f.fn = "offOn" /\ f.pc = "on") \/ f.fn \in {"onMain", "onSub"}
        /\ Moves("runner", <<Done>>) /\ queue' = queue
    BY <1>5, TurnOnEffect DEF TypeInv, TurnOn, TurnOnMain, TurnOnSub
  <2>2. Exchange({Done}, {f}, Owed(Done), Owed(f))
    BY <1>0, <1>3, <2>1, MoveExchange
  <2> HIDE DEF f
  <2>3. Owed(f) = Owed(Done) /\ ~Ends(f) /\ Deaf(f)
    BY <1>3, <2>1, DeafCalls DEF Owed, Ends
  <2> QED
    BY <1>1, <1>3, <2>1, <2>2, <2>3, HandsOn
<1> QED
  BY <1>2, <1>4, <1>5

LEMMA ShownAgree ==
  ASSUME TypeInv, AgreeInv, Shown
  PROVE  AgreeInv'
  BY StartAgree, ShowBootAgree, PostAgree, FinishAgree, RunnerAgree DEF Shown

LEMMA SameDebt ==
  ASSUME TypeInv, NEW A, NEW B, NEW n, Exchange(A, B, n, n), notices' = notices
  PROVE  Debt' = Debt
<1>1. PICK u \in Int, v \in Int, m \in Int : u = Owing' /\ v = Owing /\ m = n
  BY DebtType DEF Exchange
<1>2. u + m = v + m
  BY <1>1 DEF Exchange
<1>3. u = v
  BY <1>2
<1> QED
  BY <1>1, <1>3 DEF Debt

\* A step of calls that owe nothing
LEMMA OwesNothing ==
  ASSUME TypeInv, NEW A, NEW B, Exchange(A, B, 0, 0), UNCHANGED <<running, pending, notices>>,
         upset \subseteq upset', \A a \in A : ~InFlight(a) /\ a.fn # "trigger",
         \A b \in B : ~Ends(b)
  PROVE  CountKept(A, B)
<1>1. Debt' = Debt /\ Debt \in Int /\ pending \in Int /\ notices \in Nat
  BY SameDebt, DebtType
<1>2. pending' + Debt = pending + Debt' /\ pending' + Debt >= pending + Debt'
  BY <1>1
<1> QED
  BY <1>1, <1>2 DEF CountKept

\* The calls that count down
LEMMA DoneAgree ==
  ASSUME TypeInv, AgreeInv, NEW t \in Threads,
         CountDown(t) \/ TestCount(t) \/ CompareWithCache(t)
  PROVE  AgreeInv'
<1> DEFINE f == Top(t)
           g == [f EXCEPT !.pc = "test"]
           h == [f EXCEPT !.pc = "compare"]
           c == CatchUp(cache)
<1>1. /\ UNCHANGED <<cache, last, wanted, notices, tent, queue, upset>>
      /\ stack[t] # <<>> /\ f.fn = "done"
  BY DEF CountDown, TestCount, CompareWithCache, At, modeVars, bootVars, foldVars
<1>2. f \in FramesOf(t) /\ f \in Held /\ StackOK
  BY <1>1, TopFacts, FrameInHeld DEF TypeInv
<1>3. g \in FramesOf(t) /\ h \in FramesOf(t) /\ c \in FramesOf(t)
  BY <1>1, <1>2, DullGoto, NewFrames DEF TypeInv, DataOK
<1>4. /\ Moves(t, <<>>) => Exchange({}, {f}, 0, Owed(f))
      /\ Moves(t, <<g>>) => Exchange({g}, {f}, Owed(g), Owed(f))
      /\ Moves(t, <<h>>) => Exchange({h}, {f}, Owed(h), Owed(f))
      /\ Moves(t, <<c>>) => Exchange({c}, {f}, Owed(c), Owed(f))
  BY <1>1, <1>3, MoveExchange
<1>5. /\ Return(t) => Moves(t, <<>>)
      /\ Goto(t, "test") => Moves(t, <<g>>)
      /\ Goto(t, "compare") => Moves(t, <<h>>)
      /\ ReturnBy(t, <<c>>) => Moves(t, <<c>>)
  BY <1>1, <1>2, ReturnMoves, GotoMoves, ReturnByMoves
<1>6. /\ g.fn = "done" /\ g.pc = "test" /\ h.fn = "done" /\ h.pc = "compare"
      /\ c.fn = "change" /\ c.pc = "cache" /\ ~c.flag /\ c.mode = cache
  BY <1>1, <1>2 DEF FramesOf, FrameType, CatchUp, Frame
<1>7. /\ CountDown(t) => f.pc = "count" /\ pending' = pending - 1 /\ running' = running
                          /\ Goto(t, "test")
      /\ TestCount(t) => /\ f.pc = "test" /\ pending' = pending
                         /\ \/ pending = 0 /\ running' = FALSE /\ Goto(t, "compare")
                            \/ pending # 0 /\ running' = running /\ Return(t)
      /\ CompareWithCache(t) => /\ f.pc = "compare" /\ pending' = pending /\ running' = running
                                /\ \/ cache = last /\ Return(t)
                                   \/ ReturnBy(t, <<c>>)
  BY DEF CountDown, TestCount, CompareWithCache, At, CountedDown, CaughtUp, countVars
<1> HIDE DEF f, g, h, c
<1>8. /\ Ends(g) /\ ~InFlight(g) /\ ~InFlight(h) /\ ~InFlight(c)
      /\ (f.pc # "test" => ~Ends(f))
  BY <1>1, <1>6 DEF Ends, InFlight
<1>9. /\ Owed(g) = 0 /\ Owed(h) = 0 /\ Owed(c) = 0
      /\ Owed(f) = IF f.pc = "count" THEN 1 ELSE 0
  BY <1>1, <1>6 DEF Owed
<1>10. /\ Deaf(g) /\ (f.pc # "compare" => Deaf(f))
       /\ ~Tests(h) /\ ~Awaits(h) /\ ~Asked(h) /\ Looks(h)
       /\ ~Tests(c) /\ ~Awaits(c) /\ ~Asked(c) /\ (cache = wanted => Looks(c))
       /\ ~Tests(f) /\ ~Awaits(f)
  BY <1>1, <1>6 DEF Deaf, Tests, Awaits, Asked, Looks
<1>11. notices' = notices + 0 /\ notices' \in Nat
  BY <1>1, DebtType
<1>12. TentKept({}, {f}) /\ TentKept({h}, {f}) /\ TentKept({c}, {f})
  BY <1>1, <1>10 DEF TentKept
<1>13. CASE CountDown(t)
  <2>1. Exchange({g}, {f}, Owed(g), Owed(f))
    BY <1>4, <1>5, <1>7, <1>13
  <2>2. Owed(g) + 0 + 1 <= Owed(f) /\ Owed(g) + 0 + 1 = Owed(f)
    BY <1>7, <1>9, <1>13
  <2>3. CountKept({g}, {f})
    BY <1>1, <1>6, <1>7, <1>8, <1>11, <1>13, <2>1, <2>2, Balance
  <2> QED
    BY <1>1, <1>7, <1>10, <1>13, <2>1, <2>3, DeafAgree
<1>14. CASE TestCount(t) /\ pending = 0
  <2>1. /\ Exchange({h}, {f}, 0, 0) /\ running' = FALSE /\ pending' = pending
    BY <1>4, <1>5, <1>7, <1>9, <1>14
  <2>2. FlightOK'
    <3>1. \A e \in Held' : InFlight(e) => e \in Held /\ Owed(e) > 0
      BY <1>8, <2>1 DEF Exchange, HeldBy, InFlight, Owed
    <3>2. Flying' => Flying /\ Debt > 0
      BY <3>1, DebtHeld DEF Flying, InFlight
    <3>3. ~(Counted' /\ Flying')
      <4> SUFFICES ASSUME Counted', Flying'
                   PROVE  FALSE
        OBVIOUS
      <4>1. Debt > 0 /\ pending >= Debt /\ Debt \in Nat
        BY <1>1, <3>2, UpsetFewer, DebtType DEF AgreeInv, FlightOK
      <4> QED
        BY <1>14, <4>1
    <3> QED
      BY <3>3 DEF FlightOK
  <2>3. EvenOK' /\ NoticeOK'
    BY <1>1, <2>1 DEF EvenOK, NoticeOK, AgreeInv
  <2>4. LooksKept({h}, {f})
    BY <1>1, <1>10, <2>1 DEF LooksKept
  <2> QED
    BY <1>12, <2>1, <2>2, <2>3, <2>4, LooksStay, TentStays DEF AgreeInv
<1>15. CASE TestCount(t) /\ pending # 0
  <2>1. Exchange({}, {f}, 0, 0) /\ running' = running /\ pending' = pending /\ f.pc = "test"
    BY <1>4, <1>5, <1>7, <1>9, <1>15
  <2>2. CountKept({}, {f})
    <3>1. Debt' = Debt /\ pending \in Int
      BY <1>1, <2>1, SameDebt, DebtType
    <3>2. Debt \in Int
      BY DebtType
    <3>3. pending' + Debt = pending + Debt' /\ pending' + Debt >= pending + Debt'
      BY <2>1, <3>1, <3>2
    <3> QED
      BY <1>1, <1>11, <1>15, <2>1, <3>1, <3>3 DEF CountKept
  <2> QED
    BY <1>1, <1>10, <2>1, <2>2, DeafAgree
<1>16. CASE CompareWithCache(t) /\ cache = last /\ Return(t)
  <2>1. Exchange({}, {f}, 0, 0) /\ running' = running /\ pending' = pending /\ f.pc = "compare"
    BY <1>4, <1>5, <1>7, <1>9, <1>16
  <2>2. CountKept({}, {f})
    BY <1>1, <1>8, <2>1, OwesNothing
  <2>3. Straight' => last = wanted
    BY <1>1, <1>16, UpsetFewer DEF AgreeInv, WantedOK
  <2>4. LooksKept({}, {f})
    BY <1>1, <1>10, <2>1, <2>3 DEF LooksKept
  <2> QED
    BY <1>12, <2>1, <2>2, <2>4, AgreeStays
<1>17. CASE CompareWithCache(t) /\ ReturnBy(t, <<c>>)
  <2>1. Exchange({c}, {f}, 0, 0) /\ running' = running /\ pending' = pending /\ f.pc = "compare"
    BY <1>4, <1>5, <1>7, <1>9, <1>17
  <2>2. CountKept({c}, {f})
    BY <1>1, <1>6, <1>8, <2>1, OwesNothing
  <2>3. Straight' => last = wanted \/ cache = wanted
    BY <1>1, UpsetFewer DEF AgreeInv, WantedOK
  <2>4. LooksKept({c}, {f})
    BY <1>1, <1>10, <2>1, <2>3 DEF LooksKept
  <2> QED
    BY <1>12, <2>1, <2>2, <2>4, AgreeStays
<1> QED
  BY <1>7, <1>13, <1>14, <1>15, <1>16, <1>17

\* A change up to its start, which is made or not
LEMMA AskAgree ==
  ASSUME TypeInv, ModeInv, AgreeInv, NEW t \in Threads,
         SetLastCacheDisplayMode(t) \/ TestRunning(t) \/ (Start(t) /\ ~Starts(t))
  PROVE  AgreeInv'
<1>1. UNCHANGED <<running, pending, notices, tent>>
  BY NoStartEffect DEF SetLastCacheDisplayMode, TestRunning, Start, countVars, bootVars, foldVars
<1>2. upset \subseteq upset'
  BY NoteGrows DEF SetLastCacheDisplayMode, TestRunning, Start, Note
<1>3. CASE SetLastCacheDisplayMode(t)
  <2>1. PICK f, g :
          /\ f.fn = "change" /\ f.pc = "cache" /\ g.fn = "change" /\ g.pc = "running"
          /\ f.mode = g.mode /\ f.flag \in BOOLEAN
          /\ Effect(t, {g}, 0) /\ Gone(t) = {f} /\ OwedTop(t) = 0
          /\ cache' = f.mode /\ wanted' = (IF f.flag THEN f.mode ELSE wanted)
          /\ ~f.flag /\ f.mode # wanted => "stale" \in upset'
    BY <1>3, CacheEffect
  <2>2. Exchange({g}, {f}, 0, 0)
    BY <2>1, EffectExchange
  <2>3. last' = last
    BY <1>3 DEF SetLastCacheDisplayMode
  <2>4. /\ ~InFlight(g) /\ ~Ends(f) /\ ~Asked(g) /\ ~Awaits(g) /\ Tests(g)
        /\ (Asked(f) <=> f.flag) /\ (Awaits(f) <=> f.flag)
    BY <2>1 DEF InFlight, Ends, Asked, Awaits, Tests
  <2>5. CountKept({g}, {f})
    BY <1>1, <1>2, <2>1, <2>2, <2>4, OwesNothing
  <2>6. FlightOK' /\ EvenOK' /\ NoticeOK'
    BY <2>2, <2>5, CountStays DEF AgreeInv
  <2>7. Straight' => cache' = wanted' /\ g.mode = wanted'
    BY <2>1 DEF Straight, Upset
  <2>8. g \in Held'
    BY <2>2 DEF Exchange, HeldBy
  <2>9. Straight' => \E h \in Held' : Looks(h)'
    BY <2>4, <2>7, <2>8 DEF Looks, Tests
  <2>10. CacheOK' /\ WantedOK'
    <3>1. CacheOK'
      BY <2>7 DEF CacheOK
    <3>2. WantedOK'
      BY <2>7, <2>9 DEF WantedOK, Looks, Tests
    <3> QED
      BY <3>1, <3>2
  <2>11. TentOK'
    <3> SUFFICES ASSUME tent', ~Upset({"tentInChange"})'
                 PROVE  /\ \A h \in Held' : Asked(h) => h.mode # "COORDINATION"
                        /\ wanted' # "COORDINATION" \/ \E h \in Held' : Awaits(h)
      BY DEF TentOK, Awaits, Asked
    <3>1. /\ \A h \in Held : Asked(h) => h.mode # "COORDINATION"
          /\ wanted # "COORDINATION" \/ \E h \in Held : Awaits(h)
      BY <1>1, <1>2, UpsetFewer DEF AgreeInv, TentOK
    <3>2. /\ Held' \subseteq Held \cup {g} /\ Held \subseteq Held' \cup {f} /\ f \in Held
      BY <2>2 DEF Exchange, HeldBy
    <3>3. f.flag => wanted' # "COORDINATION"
      BY <2>1, <2>4, <3>1, <3>2
    <3>4. ~f.flag => wanted' = wanted
      BY <2>1
    <3> QED
      BY <2>4, <3>1, <3>2, <3>3, <3>4
  <2> QED
    BY <2>6, <2>10, <2>11 DEF AgreeInv
<1>4. CASE TestRunning(t)
  <2>1. PICK f, A :
          /\ f.fn = "change" /\ f.pc = "running"
          /\ Effect(t, A, 0) /\ Gone(t) = {f} /\ OwedTop(t) = 0
          /\ \/ A = {} /\ running
             \/ \E g : A = {g} /\ g.fn = "change" /\ g.pc = "check" /\ g.mode = f.mode
    BY <1>4, RunningEffect
  <2>2. Exchange(A, {f}, 0, 0)
    BY <2>1, EffectExchange
  <2>3. UNCHANGED <<cache, last, wanted>>
    BY <1>4 DEF TestRunning, modeVars
  <2>4. \A g \in A : g.fn = "change" /\ g.pc = "check" /\ g.mode = f.mode
    BY <2>1
  <2>5. \A g \in A : /\ ~InFlight(g) /\ ~Asked(g) /\ ~Awaits(g) /\ g.fn # "trigger"
                     /\ (Looks(f) => Looks(g))
    BY <2>1, <2>4 DEF InFlight, Asked, Awaits, Looks, Tests
  <2>6. ~Ends(f) /\ Tests(f) /\ ~Awaits(f)
    BY <2>1 DEF Ends, Tests, Awaits, Asked
  <2>7. CountKept(A, {f})
    BY <1>1, <1>2, <2>2, <2>5, <2>6, OwesNothing
  <2>8. LooksKept(A, {f})
    BY <1>1, <1>2, <2>1, <2>3, <2>5, <2>6 DEF LooksKept
  <2>9. TentKept(A, {f})
    BY <1>1, <1>2, <2>3, <2>5, <2>6 DEF TentKept
  <2> QED
    BY <2>2, <2>7, <2>8, <2>9, AgreeStays
<1>5. CASE Start(t) /\ ~Starts(t)
  <2>1. PICK f :
          /\ f.fn = "change" /\ f.pc = "check"
          /\ Effect(t, {}, 0) /\ Gone(t) = {f} /\ OwedTop(t) = 0
          /\ current = f.mode \/ "refused" \in upset'
          /\ UNCHANGED <<last, running, pending>>
    BY <1>5, NoStartEffect
  <2>2. Exchange({}, {f}, 0, 0)
    BY <2>1, EffectExchange
  <2>3. UNCHANGED <<cache, last, wanted>>
    BY <1>5, <2>1 DEF Start
  <2>4. ~Ends(f) /\ ~Awaits(f) /\ (Looks(f) => f.mode = wanted)
    BY <2>1 DEF Ends, Tests, Awaits, Asked, Looks
  <2>5. CountKept({}, {f})
    BY <1>1, <1>2, <2>2, <2>4, OwesNothing
  <2>6. Looks(f) => running' \/ last = wanted \/ ~Straight'
    <3> SUFFICES ASSUME Looks(f), Straight', last # wanted
                 PROVE  running
      BY <1>1
    <3>1. current # last
      BY <2>1, <2>4 DEF Straight, Upset
    <3>2. Flying
      BY <1>2, <3>1, UpsetFewer, CalmNow DEF ModeInv, ModesOK, Flying
    <3> QED
      BY <1>2, <3>2, UpsetFewer DEF AgreeInv, FlightOK
  <2>7. LooksKept({}, {f})
    BY <1>1, <1>2, <2>3, <2>6 DEF LooksKept
  <2>8. TentKept({}, {f})
    BY <1>1, <1>2, <2>3, <2>4 DEF TentKept
  <2> QED
    BY <2>2, <2>5, <2>7, <2>8, AgreeStays
<1> QED
  BY <1>3, <1>4, <1>5

\* The calls that ask for a mode, which owe nothing themselves
Outer(f) ==
  \/ Asked(f)
  \/ f.fn \in {"sense", "report", "tentOn", "tentOff", "cast", "suspend", "resume", "panel", "boot"}

LEMMA OuterFacts ==
  ASSUME NEW f, Outer(f)
  PROVE  /\ Owed(f) = 0 /\ ~InFlight(f) /\ f.fn # "trigger" /\ ~Ends(f) /\ ~Tests(f) /\ ~Looks(f)
         /\ (Awaits(f) => Asked(f) \/ f.fn = "tentOn")
  BY DEF Outer, Owed, InFlight, Ends, Tests, Looks, Asked, Awaits

LEMMA OuterAgree ==
  ASSUME TypeInv, AgreeInv, NEW A, NEW B, Exchange(A, B, 0, 0), \A f \in A \cup B : Outer(f),
         UNCHANGED <<cache, last, wanted, running, pending, notices>>,
         upset \subseteq upset', tent' => tent,
         \A a \in A : Asked(a) => a.mode # "COORDINATION" \/ ~tent,
         \A b \in B : Awaits(b) => \E a \in A : Awaits(a)
  PROVE  AgreeInv'
<1>1. \A f \in A \cup B : /\ ~InFlight(f) /\ f.fn # "trigger" /\ ~Ends(f)
                          /\ ~Tests(f) /\ ~Looks(f)
  BY OuterFacts
<1>2. CountKept(A, B)
  BY <1>1, OwesNothing
<1>3. LooksKept(A, B)
  BY <1>1 DEF LooksKept
<1>4. TentKept(A, B)
  BY DEF TentKept
<1> QED
  BY <1>2, <1>3, <1>4, AgreeStays

\* A change of fold status, which may ask for the mode of it
LEMMA SensedAgree ==
  ASSUME TypeInv, AgreeInv, NEW t \in {"sensor", "tent", "runner"}, stack[t] # <<>>,
         NEW s \in Statuses, NEW pc, Outer(Top(t)), queue' = queue,
         UNCHANGED <<cache, last, wanted, running, pending, notices, tent>>,
         upset \subseteq upset',
         \/ /\ Call(t, SensorCalls(s), pc)
            /\ LET g == [Top(t) EXCEPT !.pc = pc]
               IN  g \in FramesOf(t) /\ Outer(g) /\ ~Asked(g) /\ (Awaits(Top(t)) => Awaits(g))
         \/ ReturnBy(t, SensorCalls(s)) /\ ~Awaits(Top(t))
  PROVE  AgreeInv'
<1> DEFINE f == Top(t)
           g == [f EXCEPT !.pc = pc]
           c == Change(ModeOf(s))
           u == Frame("sense", "unlock", "UNKNOWN", FALSE)
<1>0. t \in Threads /\ StackOK /\ DataOK
  BY DEF Threads, TypeInv
<1>1. /\ c \in FramesOf(t) /\ u \in FramesOf(t)
      /\ ModeOf(s) # "COORDINATION"
  BY <1>0, NewFrames, ModeOfType
<1>2. /\ c.fn = "change" /\ c.pc = "cache" /\ c.mode = ModeOf(s) /\ c.flag
      /\ u.fn = "sense"
  BY DEF Change, Frame
<1>3. SensorCalls(s) = <<>> \/ SensorCalls(s) = <<c, u>>
  BY DEF SensorCalls
<1>4. /\ Moves(t, <<>>) => Exchange({}, {f}, 0, Owed(f))
      /\ g \in FramesOf(t) /\ Moves(t, <<g>>) => Exchange({g}, {f}, Owed(g), Owed(f))
      /\ Moves(t, <<c, u>>) => Exchange({c, u}, {f}, Owed(c) + Owed(u), Owed(f))
      /\ g \in FramesOf(t) /\ Moves(t, <<c, u, g>>) =>
           Exchange({c, u, g}, {f}, Owed(c) + Owed(u) + Owed(g), Owed(f))
  <2> HIDE DEF f, g, c, u
  <2> QED
    BY <1>0, <1>1, MoveExchange DEF f
<1>5. \/ Moves(t, <<>>) /\ ~Awaits(f)
      \/ Moves(t, <<c, u>>) /\ ~Awaits(f)
      \/ /\ Moves(t, <<g>>) \/ Moves(t, <<c, u, g>>)
         /\ g \in FramesOf(t) /\ Outer(g) /\ ~Asked(g) /\ (Awaits(f) => Awaits(g))
  <2>1. CASE ReturnBy(t, SensorCalls(s)) /\ ~Awaits(f)
    <3> HIDE DEF c, u
    <3> QED
      BY <1>0, <1>3, <2>1, ReturnByMoves
  <2>2. CASE /\ Call(t, SensorCalls(s), pc)
             /\ g \in FramesOf(t) /\ Outer(g) /\ ~Asked(g) /\ (Awaits(f) => Awaits(g))
    <3>1. SensorCalls(s) = <<>> => Moves(t, <<g>>)
      BY <1>0, <2>2, CallMoves0
    <3>2. SensorCalls(s) = <<c, u>> => Moves(t, <<c, u, g>>)
      <4> HIDE DEF c, u
      <4> QED
        BY <1>0, <1>1, <2>2, CallMoves2
    <3> QED
      BY <1>3, <2>2, <3>1, <3>2
  <2> QED
    BY <2>1, <2>2
<1>6. Outer(f)
  OBVIOUS
<1> HIDE DEF f, g, c, u
<1>7. Outer(c) /\ Outer(u) /\ Asked(c) /\ Awaits(c) /\ ~Asked(u) /\ c.mode # "COORDINATION"
  BY <1>1, <1>2 DEF Outer, Asked, Awaits
<1>8. Owed(c) = 0 /\ Owed(u) = 0 /\ Owed(f) = 0 /\ (Outer(g) => Owed(g) = 0)
  BY <1>6, <1>7, OuterFacts
<1>9. \/ Exchange({}, {f}, 0, 0) /\ ~Awaits(f)
      \/ Exchange({c, u}, {f}, 0, 0) /\ ~Awaits(f)
      \/ /\ Exchange({g}, {f}, 0, 0) \/ Exchange({c, u, g}, {f}, 0, 0)
         /\ Outer(g) /\ ~Asked(g) /\ (Awaits(f) => Awaits(g))
  BY <1>4, <1>5, <1>8
<1>10. CASE Exchange({}, {f}, 0, 0) /\ ~Awaits(f)
  BY <1>6, <1>10, OuterAgree
<1>11. CASE Exchange({c, u}, {f}, 0, 0) /\ ~Awaits(f)
  BY <1>6, <1>7, <1>11, OuterAgree
<1>12. CASE Exchange({g}, {f}, 0, 0) /\ Outer(g) /\ ~Asked(g) /\ (Awaits(f) => Awaits(g))
  BY <1>6, <1>12, OuterAgree
<1>13. CASE Exchange({c, u, g}, {f}, 0, 0) /\ Outer(g) /\ ~Asked(g) /\ (Awaits(f) => Awaits(g))
  BY <1>6, <1>7, <1>13, OuterAgree
<1> QED
  BY <1>9, <1>10, <1>11, <1>12, <1>13

\* The reports of the sensors
LEMMA ReportAgree ==
  ASSUME TypeInv, AgreeInv, NEW t \in Threads,
         \/ \E s \in Reports : HandleReport(t, s)
         \/ EndHandleSensorChange(t) \/ LeaveTent(t)
  PROVE  AgreeInv'
<1> DEFINE f == Top(t)
           g == [f EXCEPT !.pc = "leave"]
<1>1. /\ stack[t] # <<>> /\ f.fn \in {"report", "sense"}
      /\ (\E s \in Reports : HandleReport(t, s)) => f.fn = "report"
      /\ UNCHANGED <<cache, last, wanted, running, pending, notices, queue, upset>> /\ (tent' => tent)
  BY DEF HandleReport, EndHandleSensorChange, LeaveTent, At, modeVars, countVars, bootVars, foldVars
<1>2. f \in FramesOf(t) /\ StackOK
  BY <1>1, TopFacts DEF TypeInv
<1>3. Outer(f) /\ ~Awaits(f)
  BY <1>1 DEF Outer, Awaits, Asked
<1>4. CASE EndHandleSensorChange(t) \/ LeaveTent(t)
  <2>1. Moves(t, <<>>)
    BY <1>1, <1>2, <1>4, ReturnMoves DEF EndHandleSensorChange, LeaveTent
  <2>2. Exchange({}, {f}, 0, Owed(f)) /\ Owed(f) = 0
    BY <1>1, <1>3, <2>1, MoveExchange, OuterFacts
  <2>3. Exchange({}, {f}, 0, 0)
    BY <2>2
  <2> QED
    BY <1>1, <1>3, <2>3, OuterAgree
<1>5. CASE \E s \in Reports : HandleReport(t, s)
  <2>1. PICK s \in Reports : HandleReport(t, s)
    BY <1>5
  <2>2. s \in Statuses /\ t \in {"sensor", "tent", "runner"} /\ tent' = tent
    BY <1>1, <1>2, <1>5, <2>1, SensorThread, DualFoldAssumption DEF DualFoldAssumption, HandleReport
  <2>3. g \in FramesOf(t) /\ g.fn = "report"
    BY <1>1, <1>2, <1>5, DullGoto DEF FramesOf, FrameType
  <2>4. Outer(g) /\ ~Asked(g)
    BY <2>3 DEF Outer, Asked
  <2>5. Call(t, SensorCalls(s), "leave") \/ ReturnBy(t, SensorCalls(s))
    BY <2>1 DEF HandleReport
  <2> QED
    BY <1>1, <1>3, <2>2, <2>3, <2>4, <2>5, SensedAgree
<1> QED
  BY <1>4, <1>5

\* The tent mode
LEMMA TentAgree ==
  ASSUME TypeInv, AgreeInv, TentStep
  PROVE  AgreeInv'
<1> DEFINE t == "tent"
           f == Top(t)
<1>0. t \in Threads /\ t \in {"sensor", "tent", "runner"} /\ StackOK /\ DataOK
  BY DEF Threads, TypeInv
<1>1. /\ stack[t] # <<>> /\ f.fn \in {"tentOn", "tentOff"}
      /\ UNCHANGED <<cache, last, wanted, running, pending, notices, tent, queue, upset>>
  BY DEF TentStep, HandleTent, ChangeOnTentMode, WakeupOnTentMode, ChangeOffTentMode, At, modeVars,
     countVars, bootVars, foldVars
<1>2. f \in FramesOf(t)
  BY <1>0, <1>1, TopFacts
<1>3. Outer(f)
  BY <1>1 DEF Outer
<1>4. CASE \E s \in Reports \cup {"FOLDED"} : HandleTent(s)
  <2> DEFINE g == [f EXCEPT !.pc = "change"]
  <2>1. PICK s \in Reports \cup {"FOLDED"} : HandleTent(s)
    BY <1>4
  <2>2. s \in Statuses
    BY DualFoldAssumption DEF DualFoldAssumption, Statuses
  <2>3. g \in FramesOf(t) /\ g.fn = f.fn /\ g.pc = "change"
    BY <1>0, <1>1, <1>2, DullGoto DEF FramesOf, FrameType
  <2>4. Outer(g) /\ ~Asked(g) /\ (Awaits(f) => Awaits(g))
    BY <1>1, <2>3 DEF Outer, Asked, Awaits
  <2>5. Call(t, SensorCalls(s), "change")
    BY <2>1 DEF HandleTent
  <2> QED
    BY <1>0, <1>1, <1>3, <2>2, <2>3, <2>4, <2>5, SensedAgree
<1>5. CASE ChangeOnTentMode
  <2> DEFINE g == [f EXCEPT !.pc = "wake"]
             c == Change("SUB")
  <2>1. f.fn = "tentOn" /\ f.pc = "change"
    BY <1>5 DEF ChangeOnTentMode, At
  <2>2. c \in FramesOf(t) /\ g \in FramesOf(t)
    BY <1>0, <1>2, <2>1, NewFrames, DullGoto DEF Modes
  <2>3. Moves(t, <<c, g>>)
    BY <1>0, <1>1, <1>5, <2>2, CallMoves1 DEF ChangeOnTentMode
  <2>4. Exchange({c, g}, {f}, Owed(c) + Owed(g), Owed(f))
    BY <1>0, <1>1, <2>2, <2>3, MoveExchange
  <2>5. /\ c.fn = "change" /\ c.pc = "cache" /\ c.mode = "SUB" /\ c.flag
        /\ g.fn = "tentOn" /\ g.pc = "wake"
    BY <1>2, <2>1 DEF Change, Frame, FramesOf, FrameType
  <2> HIDE DEF f, g, c
  <2>6. Outer(c) /\ Outer(g) /\ Asked(c) /\ Awaits(c) /\ ~Asked(g) /\ c.mode # "COORDINATION"
    BY <2>5 DEF Outer, Asked, Awaits
  <2>7. Owed(c) = 0 /\ Owed(g) = 0 /\ Owed(f) = 0
    BY <1>3, <2>6, OuterFacts
  <2>8. Exchange({c, g}, {f}, 0, 0)
    BY <2>4, <2>7
  <2> QED
    BY <1>1, <1>3, <2>6, <2>8, OuterAgree
<1>6. CASE WakeupOnTentMode
  <2>1. f.fn = "tentOn" /\ f.pc = "wake" /\ Moves(t, <<>>)
    BY <1>0, <1>1, <1>6, ReturnMoves DEF WakeupOnTentMode, At
  <2>2. Exchange({}, {f}, 0, Owed(f))
    BY <1>0, <1>1, <2>1, MoveExchange
  <2> HIDE DEF f
  <2>3. Owed(f) = 0 /\ ~Awaits(f)
    BY <1>3, <2>1, OuterFacts DEF Awaits, Asked
  <2>4. Exchange({}, {f}, 0, 0)
    BY <2>2, <2>3
  <2> QED
    BY <1>1, <1>3, <2>3, <2>4, OuterAgree
<1>7. CASE ChangeOffTentMode
  <2> DEFINE c == Change(GetModeMatchStatus)
  <2>1. f.fn = "tentOff"
    BY <1>7 DEF ChangeOffTentMode, At
  <2>2. c \in FramesOf(t) /\ GetModeMatchStatus # "COORDINATION"
    BY <1>0, NewFrames, ModeOfType
  <2>3. Moves(t, <<c>>)
    BY <1>0, <1>1, <1>7, ReturnByMoves DEF ChangeOffTentMode
  <2>4. Exchange({c}, {f}, Owed(c), Owed(f))
    BY <1>0, <1>1, <2>2, <2>3, MoveExchange
  <2>5. c.fn = "change" /\ c.pc = "cache" /\ c.mode # "COORDINATION" /\ c.flag
    BY <2>2 DEF Change, Frame
  <2> HIDE DEF f, c
  <2>6. Outer(c) /\ Asked(c) /\ Awaits(c)
    BY <2>5 DEF Outer, Asked, Awaits
  <2>7. Owed(c) = 0 /\ Owed(f) = 0
    BY <1>3, <2>6, OuterFacts
  <2>8. Exchange({c}, {f}, 0, 0)
    BY <2>4, <2>7
  <2> QED
    BY <1>1, <1>3, <2>5, <2>6, <2>8, OuterAgree
<1> QED
  BY <1>4, <1>5, <1>6, <1>7 DEF TentStep

\* A call that asks for a mode, or will, begins.
LEMMA BeginOuter ==
  ASSUME TypeInv, AgreeInv, NEW t \in Threads, NEW a \in FramesOf(t), Outer(a), Moves(t, <<a>>),
         stack[t] = <<>>, queue' = queue,
         UNCHANGED <<cache, last, wanted, running, pending, notices, tent>>,
         upset \subseteq upset', Asked(a) => a.mode # "COORDINATION" \/ ~tent
  PROVE  AgreeInv'
<1>1. Exchange({a}, {}, Owed(a), 0)
  BY BeginExchange
<1>2. Owed(a) = 0
  BY OuterFacts
<1>3. Exchange({a}, {}, 0, 0)
  BY <1>1, <1>2
<1> QED
  BY <1>3, OuterAgree

LEMMA NothingMoves ==
  ASSUME TypeInv, UNCHANGED <<stack, queue>>
  PROVE  Exchange({}, {}, 0, 0)
<1>1. Held' = Held /\ Owing' = Owing
  <2>1. \A t \in Threads : Frames(t)' = Frames(t) /\ OwedBy(stack[t])' = OwedBy(stack[t])
    BY DEF Frames
  <2>2. OwedBy(queue)' = OwedBy(queue) /\ OwedByCalls' = OwedByCalls
    BY DEF OwedByCalls
  <2> QED
    BY <2>1, <2>2 DEF Held, Owing
<1>2. Owing \in Int
  BY DebtType
<1> QED
  BY <1>1, <1>2 DEF Exchange, HeldBy

\* What is asked of the phone, but for the tent mode
LEMMA RequestAgree ==
  ASSUME TypeInv, AgreeInv,
         \/ \E t \in {"sensor", "runner"} : Report(t)
         \/ \E mode \in Requests : SetFoldDisplayMode(mode)
         \/ LockDisplayStatus \/ CreateCastScreen \/ TwoSecondsPass \/ ConnectSub
         \/ PowerOff \/ PowerOn \/ PowerInit
  PROVE  AgreeInv'
<1>0. StackOK /\ QueueOK /\ DataOK
  BY DEF TypeInv
<1> DEFINE Same == /\ UNCHANGED <<cache, last, wanted, running, pending, notices, tent, queue>>
                   /\ upset \subseteq upset'
<1>1. CASE \E t \in {"sensor", "runner"} : Report(t)
  <2>1. PICK t \in {"sensor", "runner"} : Report(t)
    BY <1>1
  <2> DEFINE a == Frame("report", "sense", "UNKNOWN", tent)
  <2>2. t \in Threads /\ a \in FramesOf(t)
    BY <1>0, NewFrames DEF Threads, DataOK
  <2>3. Same /\ Begin(t, <<a>>)
    BY <2>1 DEF Report, modeVars, countVars, bootVars, foldVars
  <2>4. Outer(a) /\ ~Asked(a)
    BY DEF Outer, Asked, Frame
  <2> HIDE DEF a
  <2>5. Moves(t, <<a>>) /\ stack[t] = <<>>
    BY <1>0, <2>2, <2>3, HeldBegin
  <2> QED
    BY <2>2, <2>3, <2>4, <2>5, BeginOuter
<1>2. CASE \E mode \in Requests : SetFoldDisplayMode(mode)
  <2>1. PICK mode \in Requests : SetFoldDisplayMode(mode)
    BY <1>2
  <2> DEFINE a == Change(mode)
  <2>2. "ipc" \in Threads /\ a \in FramesOf("ipc")
    BY NewFrames, DualFoldAssumption DEF Threads, DualFoldAssumption
  <2>3. Same /\ Begin("ipc", <<a>>) /\ (mode # "COORDINATION" \/ ~tent)
    BY <2>1 DEF SetFoldDisplayMode, NotInTent, modeVars, countVars, bootVars, foldVars
  <2>4. Outer(a) /\ a.mode = mode
    BY DEF Outer, Asked, Change, Frame
  <2> HIDE DEF a
  <2>5. Moves("ipc", <<a>>) /\ stack["ipc"] = <<>>
    BY <1>0, <2>2, <2>3, HeldBegin
  <2> QED
    BY <2>2, <2>3, <2>4, <2>5, BeginOuter
<1>3. CASE CreateCastScreen
  <2> DEFINE a == Frame("cast", "exit", "UNKNOWN", FALSE)
  <2>1. "ipc" \in Threads /\ a \in FramesOf("ipc")
    BY NewFrames DEF Threads
  <2>2. Same /\ Begin("ipc", <<a>>)
    BY <1>3 DEF CreateCastScreen, modeVars, countVars, bootVars, foldVars
  <2>3. Outer(a) /\ ~Asked(a)
    BY DEF Outer, Asked, Frame
  <2> HIDE DEF a
  <2>4. Moves("ipc", <<a>>) /\ stack["ipc"] = <<>>
    BY <1>0, <2>1, <2>2, HeldBegin
  <2> QED
    BY <2>1, <2>2, <2>3, <2>4, BeginOuter
<1>4. CASE LockDisplayStatus \/ TwoSecondsPass \/ ConnectSub
  <2>1. Same /\ stack' = stack
    BY <1>4, NoteGrows DEF LockDisplayStatus, TwoSecondsPass, ConnectSub, modeVars, countVars,
       bootVars, foldVars
  <2>2. Exchange({}, {}, 0, 0)
    BY <2>1, NothingMoves
  <2> QED
    BY <2>1, <2>2, OuterAgree
<1>5. CASE PowerOff \/ PowerOn
  <2>1. PICK a \in FramesOf("power") :
          /\ PowerOff => a = PowerFrame("suspend", IF last = "COORDINATION" THEN "exit" ELSE "panel")
          /\ PowerOn => a = PowerFrame("resume", "panel")
          /\ stack["power"] = <<>> /\ Moves("power", <<a>>)
    BY <1>0, <1>5, PowerKeyEffect
  <2>2. "power" \in Threads /\ Same
    BY <1>5 DEF Threads, PowerOff, PowerOn, modeVars, countVars, bootVars, foldVars
  <2>3. a.fn \in {"suspend", "resume"}
    BY <1>5, <2>1 DEF PowerFrame, Frame
  <2>4. Outer(a) /\ ~Asked(a)
    BY <2>3 DEF Outer, Asked
  <2> QED
    BY <2>1, <2>2, <2>4, BeginOuter
<1>6. CASE PowerInit
  <2>1. stack["boot"] = <<>> /\ BootFrame \in FramesOf("boot") /\ Moves("boot", <<BootFrame>>)
    BY <1>0, <1>6, PowerInitEffect
  <2>2. "boot" \in Threads /\ Same
    BY <1>6 DEF Threads, PowerInit, modeVars, countVars, bootVars, foldVars
  <2>3. Outer(BootFrame) /\ ~Asked(BootFrame)
    BY DEF Outer, Asked, BootFrame, Frame
  <2> QED
    BY <2>1, <2>2, <2>3, BeginOuter
<1> QED
  BY <1>1, <1>2, <1>3, <1>4, <1>5, <1>6

\* The answers of the clients
LEMMA AnswerAgree ==
  ASSUME TypeInv, AgreeInv, NotifyFoldToExpandCompletion \/ StrayPropertyChange
  PROVE  AgreeInv'
<1>1. "ipc" \in Threads /\ Done \in FramesOf("ipc") /\ StackOK /\ QueueOK
  BY NewFrames DEF Threads, TypeInv
<1>2. /\ Begin("ipc", <<Done>>) /\ upset \subseteq upset'
      /\ UNCHANGED <<cache, last, wanted, running, pending, tent, queue>>
  BY NoteGrows DEF NotifyFoldToExpandCompletion, StrayPropertyChange, modeVars, countVars,
     bootVars, foldVars
<1>3. Moves("ipc", <<Done>>) /\ stack["ipc"] = <<>>
  BY <1>1, <1>2, HeldBegin
<1>4. Exchange({Done}, {}, Owed(Done), 0)
  BY <1>1, <1>2, <1>3, BeginExchange
<1>5. Done.fn = "done" /\ Done.pc = "count"
  BY DEF Done, Frame
<1>6. Owed(Done) = 1 /\ ~InFlight(Done) /\ Deaf(Done)
  BY <1>5, DeafCalls DEF Owed, InFlight
<1>7. notices \in Nat /\ pending' = pending - 0
  BY <1>2, DebtType
<1>8. CASE NotifyFoldToExpandCompletion
  <2>1. notices > 0 /\ notices' = notices - 1
    BY <1>8 DEF NotifyFoldToExpandCompletion
  <2>2. notices' = notices + (-1) /\ notices' \in Nat
    BY <1>7, <2>1
  <2>3. CountKept({Done}, {})
    <3>1. Owed(Done) + (-1) + 0 <= 0 /\ Owed(Done) + (-1) + 0 = 0
      BY <1>6
    <3>2. ~((-1) > 0) /\ -1 \in Int
      OBVIOUS
    <3> QED
      BY <1>2, <1>4, <1>5, <1>6, <1>7, <2>2, <3>1, <3>2, Balance
  <2> QED
    BY <1>2, <1>4, <1>6, <2>3, DeafAgree
<1>9. CASE StrayPropertyChange
  <2>1. "stray" \in upset' /\ notices' = notices + 0 /\ notices' \in Nat
    BY <1>7, <1>9 DEF StrayPropertyChange, Note, bootVars
  <2>2. ~Counted'
    BY <2>1 DEF Counted, Upset
  <2>3. CountKept({Done}, {})
    BY <1>2, <1>4, <1>5, <1>6, <1>7, <2>1, <2>2, Balance
  <2> QED
    BY <1>2, <1>4, <1>6, <2>3, DeafAgree
<1> QED
  BY <1>8, <1>9

LEMMA NoneChanging ==
  ASSUME TypeInv, ~Changing
  PROVE  ~Unfinished /\ \A f \in Held : f.fn # "change"
<1>1. ~Unfinished /\ \A t \in Threads : \A f \in Frames(t) : f.fn # "change"
  BY DEF Changing
<1>2. \A i \in DOMAIN queue : queue[i].fn # "change"
  BY DEF TypeInv, QueueOK, Tasks
<1> QED
  BY <1>1, <1>2 DEF Held

\* The tent mode changes, which changes under way may overtake.
LEMMA SwitchAgree ==
  ASSUME TypeInv, AgreeInv, SwitchTent
  PROVE  AgreeInv'
<1> DEFINE a == Frame(IF tent THEN "tentOff" ELSE "tentOn", "sense", "UNKNOWN", FALSE)
<1>1. "tent" \in Threads /\ a \in FramesOf("tent") /\ StackOK /\ QueueOK
  BY NewFrames DEF Threads, TypeInv
<1>2. /\ Begin("tent", <<a>>) /\ upset \subseteq upset' /\ tent' = ~tent
      /\ Changing => "tentInChange" \in upset'
      /\ UNCHANGED <<cache, last, wanted, running, pending, notices, queue>>
  BY NoteGrows DEF SwitchTent, Note, modeVars, countVars, bootVars
<1>3. /\ a.fn \in {"tentOn", "tentOff"} /\ a.pc = "sense"
      /\ ~tent => a.fn = "tentOn"
  BY DEF Frame
<1> HIDE DEF a
<1>4. Exchange({a}, {}, Owed(a), 0)
  BY <1>1, <1>2, HeldBegin, BeginExchange
<1>5. Outer(a) /\ ~Asked(a) /\ (~tent => Awaits(a))
  BY <1>3 DEF Outer, Asked, Awaits
<1>6. Exchange({a}, {}, 0, 0)
  BY <1>4, <1>5, OuterFacts
<1>7. CountKept({a}, {}) /\ LooksKept({a}, {})
  BY <1>2, <1>5, <1>6, OuterFacts, OwesNothing DEF LooksKept
<1>8. FlightOK' /\ EvenOK' /\ NoticeOK' /\ CacheOK' /\ WantedOK'
  BY <1>6, <1>7, CountStays, LooksStay DEF AgreeInv
<1>9. TentOK'
  <2> SUFFICES ASSUME tent', ~Upset({"tentInChange"})'
               PROVE  /\ \A f \in Held' : Asked(f) => f.mode # "COORDINATION"
                      /\ wanted' # "COORDINATION" \/ \E f \in Held' : Awaits(f)
    BY DEF TentOK, Awaits, Asked
  <2>1. ~Changing /\ ~tent
    BY <1>2 DEF Upset, TypeInv, DataOK
  <2>2. \A f \in Held : ~Asked(f)
    BY <2>1, NoneChanging DEF Asked
  <2>3. Held' \subseteq Held \cup {a} /\ a \in Held'
    BY <1>6 DEF Exchange, HeldBy
  <2> QED
    BY <1>5, <2>1, <2>2, <2>3
<1> QED
  BY <1>8, <1>9 DEF AgreeInv

\* The exit of the coordination mode
LEMMA ExitAgree ==
  ASSUME TypeInv, AgreeInv, NEW t \in Threads, ExitSub(t) \/ ExitMode(t)
  PROVE  AgreeInv'
<1>0. StackOK /\ QueueOK /\ DataOK
  BY DEF TypeInv
<1> DEFINE f == Top(t)
<1>1. /\ UNCHANGED <<running, pending, notices, tent, cache, queue>> /\ upset \subseteq upset'
  BY NoteGrows DEF ExitSub, ExitMode, modeVars, countVars, bootVars, foldVars
<1>2. CASE ExitSub(t)
  <2> DEFINE g == [f EXCEPT !.pc = "exitMode"]
  <2>1. /\ stack[t] # <<>> /\ f \in FramesOf(t) /\ f.fn \in {"suspend", "cast"}
        /\ g \in FramesOf(t) /\ Moves(t, <<g>>)
    BY <1>0, <1>2, ExitSubEffect
  <2>2. g.fn = f.fn
    BY <2>1 DEF FramesOf, FrameType
  <2>3. Exchange({g}, {f}, Owed(g), Owed(f))
    BY <1>1, <2>1, MoveExchange
  <2> HIDE DEF f, g
  <2>4. Outer(f) /\ Outer(g) /\ ~Asked(g) /\ ~Awaits(f)
    BY <2>1, <2>2 DEF Outer, Asked, Awaits
  <2>5. Exchange({g}, {f}, 0, 0)
    BY <2>3, <2>4, OuterFacts
  <2>6. UNCHANGED <<last, wanted>>
    BY <1>2 DEF ExitSub, modeVars
  <2> QED
    BY <1>1, <2>4, <2>5, <2>6, OuterAgree
<1>3. CASE ExitMode(t)
  <2> DEFINE g == [f EXCEPT !.pc = "panel"]
  <2>1. /\ stack[t] # <<>> /\ f \in FramesOf(t) /\ f.fn \in {"suspend", "cast"}
        /\ \/ f.fn = "suspend" /\ g \in FramesOf(t) /\ Moves(t, <<g>>)
           \/ Moves(t, <<>>)
    BY <1>0, <1>3, ExitModeEffect
  <2>2. g.fn = f.fn
    BY <2>1 DEF FramesOf, FrameType
  <2>3. \/ Exchange({}, {f}, 0, Owed(f))
        \/ Exchange({g}, {f}, Owed(g), Owed(f)) /\ f.fn = "suspend"
    BY <1>1, <2>1, MoveExchange
  <2> HIDE DEF f, g
  <2>4. Outer(f) /\ ~Awaits(f) /\ (f.fn = "suspend" => Outer(g) /\ ~Asked(g))
    BY <2>1, <2>2 DEF Outer, Asked, Awaits
  <2>5. PICK A : Exchange(A, {f}, 0, 0) /\ \A a \in A : Outer(a) /\ ~Asked(a)
    <3>1. Exchange({}, {f}, 0, 0) \/ (Exchange({g}, {f}, 0, 0) /\ Outer(g) /\ ~Asked(g))
      <4>1. Owed(f) = 0 /\ (f.fn = "suspend" => Owed(g) = 0)
        BY <2>4, OuterFacts
      <4> QED
        BY <2>3, <2>4, <4>1
    <3>2. CASE Exchange({}, {f}, 0, 0)
      BY <3>2
    <3>3. CASE Exchange({g}, {f}, 0, 0) /\ Outer(g) /\ ~Asked(g)
      BY <3>3
    <3> QED
      BY <3>1, <3>2, <3>3
  <2>6. /\ last' = GetModeMatchStatus /\ wanted' = GetModeMatchStatus
        /\ GetModeMatchStatus # "COORDINATION"
        /\ Changing => "exitRaces" \in upset'
    BY <1>0, <1>3, ModeOfType DEF ExitMode, ExitRaces
  <2>7. \A a \in A : ~InFlight(a) /\ a.fn # "trigger" /\ ~Tests(a)
    BY <2>5, OuterFacts
  <2>8. CountKept(A, {f})
    BY <1>1, <2>4, <2>5, <2>7, OuterFacts, OwesNothing
  <2>9. TentKept(A, {f})
    BY <1>1, <2>4, <2>5, <2>6 DEF TentKept
  <2>10. CacheOK'
    <3> SUFFICES ASSUME Straight', NEW h \in Held', Tests(h)
                 PROVE  cache' = wanted'
      BY DEF CacheOK, Tests
    <3>1. ~Changing
      BY <2>6 DEF Straight, Upset
    <3>2. h \in Held
      BY <2>5, <2>7 DEF Exchange, HeldBy
    <3> QED
      BY <3>1, <3>2, NoneChanging DEF Tests
  <2>11. WantedOK'
    BY <2>6 DEF WantedOK
  <2>12. FlightOK' /\ EvenOK' /\ NoticeOK' /\ TentOK'
    BY <2>5, <2>8, <2>9, CountStays, TentStays DEF AgreeInv
  <2> QED
    BY <2>10, <2>11, <2>12 DEF AgreeInv
<1> QED
  BY <1>2, <1>3

\* The panel of a power key, and the mode after it
LEMMA PanelAgree ==
  ASSUME TypeInv, AgreeInv, PostPanel \/ SetPanel \/ RecoverDisplayMode
  PROVE  AgreeInv'
<1> DEFINE p == "power"
           f == Top(p)
<1>0. StackOK /\ QueueOK /\ DataOK /\ PanelOK /\ p \in Threads
  BY DEF TypeInv, Threads
<1>1. UNCHANGED <<cache, last, wanted, running, pending, notices, tent, upset>>
  BY DEF PostPanel, SetPanel, RecoverDisplayMode, modeVars, countVars, bootVars, foldVars
<1>2. CASE PostPanel
  <2> DEFINE g == [f EXCEPT !.pc = "wait"]
             k == Frame("panel", "set", "UNKNOWN", f.flag)
  <2>1. /\ stack[p] # <<>> /\ f \in FramesOf(p) /\ f.fn \in {"suspend", "resume"}
        /\ g \in FramesOf(p) /\ k \in Tasks /\ queue' = Append(queue, k) /\ Moves(p, <<g>>)
        /\ HeldBy({k, g}, {f})
    BY <1>0, <1>2, PostPanelEffect
  <2>2. f \in Held /\ g.fn = f.fn /\ k.fn = "panel"
    BY <1>0, <2>1, FrameInHeld DEF FramesOf, FrameType, Frame
  <2>3. Swaps(p, {g}, Owed(g)) /\ OwedTop(p) = Owed(f)
    BY <1>0, <2>1, SwapsMoves DEF OwedTop
  <2> HIDE DEF f, g, k
  <2>4. Owing' + Owed(f) = Owing + Owed(g) + Owed(k) /\ Owing' \in Int /\ Owing \in Nat
    <3>1. \E h \in Tasks : queue' = Append(queue, h)
      BY <2>1
    <3>2. Owing' \in Int /\ Owing \in Nat
      BY <1>0, <2>3, <3>1, SwapsHeld
    <3>3. Owing' + OwedTop(p) = Owing + Owed(g) + Owed(k)
      BY <1>0, <2>1, <2>3, SwapsHeld
    <3> QED
      BY <2>3, <3>2, <3>3
  <2>5. Outer(f) /\ Outer(g) /\ Outer(k) /\ ~Asked(g) /\ ~Asked(k) /\ ~Awaits(f)
    BY <2>1, <2>2 DEF Outer, Asked, Awaits
  <2>6. Owed(f) = 0 /\ Owed(g) = 0 /\ Owed(k) = 0
    BY <2>5, OuterFacts
  <2>7. Owing' + 0 = Owing + 0
    <3>1. PICK w \in Int, v \in Int : w = Owing' /\ v = Owing
      BY <2>4
    <3>2. w + 0 = v + 0 + 0
      BY <2>4, <2>6, <3>1
    <3>3. w + 0 = v + 0
      BY <3>2
    <3> QED
      BY <3>1, <3>3
  <2>8. Exchange({k, g}, {f}, 0, 0)
    BY <2>1, <2>2, <2>4, <2>7 DEF Exchange
  <2> QED
    BY <1>1, <2>5, <2>8, OuterAgree
<1>3. CASE SetPanel
  <2> DEFINE g == [f EXCEPT !.pc = "recover"]
             k == Head(queue)
  <2>1. /\ stack[p] # <<>> /\ f \in FramesOf(p) /\ f.fn \in {"suspend", "resume"}
        /\ queue # <<>> /\ queue' = Tail(queue) /\ k.fn = "panel"
        /\ \/ Moves(p, <<>>) /\ HeldBy({}, {k, f})
           \/ g \in FramesOf(p) /\ Moves(p, <<g>>) /\ HeldBy({g}, {k, f})
    BY <1>0, <1>3, SetPanelEffect DEF SetPanel
  <2>2. f \in Held /\ g.fn = f.fn /\ k \in Held /\ OwedTop(p) = Owed(f)
    <3>1. k \in Held
      <4>1. queue \in Seq(Tasks)
        BY <1>0 DEF QueueOK
      <4>2. 1 \in DOMAIN queue /\ k = queue[1]
        BY <2>1, <4>1
      <4> QED
        BY <4>2 DEF Held
    <3> QED
      BY <1>0, <2>1, <3>1, FrameInHeld DEF FramesOf, FrameType, OwedTop
  <2>3. PICK A, n : /\ Swaps(p, A, n) /\ HeldBy(A, {k, f})
                    /\ (A = {} /\ n = 0) \/ (A = {g} /\ n = Owed(g))
    <3>1. CASE Moves(p, <<>>) /\ HeldBy({}, {k, f})
      <4>1. Swaps(p, {}, 0)
        BY <1>0, <3>1, SwapsMoves
      <4> QED
        BY <3>1, <4>1
    <3>2. CASE g \in FramesOf(p) /\ Moves(p, <<g>>) /\ HeldBy({g}, {k, f})
      <4>1. Swaps(p, {g}, Owed(g))
        BY <1>0, <3>2, SwapsMoves
      <4> QED
        BY <3>2, <4>1
    <3> QED
      BY <2>1, <3>1, <3>2
  <2>4. Owing' + Owed(f) + Owed(k) = Owing + n /\ Owing' \in Int /\ Owing \in Nat
    BY <1>0, <2>1, <2>2, <2>3, SwapsHeld DEF QueueMoves
  <2> HIDE DEF f, g, k
  <2>5. Outer(f) /\ Outer(g) /\ Outer(k) /\ ~Asked(g) /\ ~Awaits(f) /\ ~Awaits(k)
    BY <2>1, <2>2 DEF Outer, Asked, Awaits
  <2>6. Owed(f) = 0 /\ Owed(g) = 0 /\ Owed(k) = 0
    BY <2>5, OuterFacts
  <2>7. n = 0
    BY <2>3, <2>6
  <2>8. Owing' + 0 = Owing + 0
    <3>1. PICK w \in Int, v \in Int : w = Owing' /\ v = Owing
      BY <2>4
    <3>2. w + 0 + 0 = v + 0
      BY <2>4, <2>6, <2>7, <3>1
    <3>3. w + 0 = v + 0
      BY <3>2
    <3> QED
      BY <3>1, <3>3
  <2>9. Exchange(A, {k, f}, 0, 0)
    BY <2>2, <2>3, <2>4, <2>8 DEF Exchange
  <2>10. \A a \in A : a = g
    BY <2>3
  <2> QED
    BY <1>1, <2>5, <2>9, <2>10, OuterAgree
<1>4. CASE RecoverDisplayMode
  <2> DEFINE c == Change(GetModeMatchStatus)
  <2>1. /\ stack[p] # <<>> /\ f \in FramesOf(p) /\ f.fn = "suspend" /\ c \in FramesOf(p)
        /\ Moves(p, <<>>) \/ Moves(p, <<c>>)
    BY <1>0, <1>4, RecoverEffect
  <2>2. queue' = queue /\ GetModeMatchStatus # "COORDINATION"
    BY <1>0, <1>4, ModeOfType DEF RecoverDisplayMode
  <2>3. Exchange({}, {f}, 0, Owed(f)) \/ Exchange({c}, {f}, Owed(c), Owed(f))
    BY <1>0, <2>1, <2>2, MoveExchange
  <2>4. Outer(f) /\ Outer(c) /\ ~Awaits(f) /\ c.mode # "COORDINATION"
    BY <2>1, <2>2 DEF Outer, Asked, Awaits, Change, Frame
  <2> HIDE DEF f, c
  <2>5. Exchange({}, {f}, 0, 0) \/ Exchange({c}, {f}, 0, 0)
    BY <2>3, <2>4, OuterFacts
  <2>6. CASE Exchange({}, {f}, 0, 0)
    BY <1>1, <2>4, <2>6, OuterAgree
  <2>7. CASE Exchange({c}, {f}, 0, 0)
    BY <1>1, <2>4, <2>7, OuterAgree
  <2> QED
    BY <2>5, <2>6, <2>7
<1> QED
  BY <1>2, <1>3, <1>4

\* The end of the boot animation, which changes under way race
LEMMA BootAgree ==
  ASSUME TypeInv, AgreeInv, RecoverWhenBootAnimationExit
  PROVE  AgreeInv'
<1> DEFINE b == "boot"
           f == Top(b)
           c == Change(GetModeMatchStatus)
<1>0. StackOK /\ QueueOK /\ DataOK /\ b \in Threads
  BY DEF TypeInv, Threads
<1>1. /\ UNCHANGED <<cache, last, wanted, running, pending, notices, tent, queue>>
      /\ upset \subseteq upset' /\ (Changing => "bootRaces" \in upset')
  BY NoteGrows DEF RecoverWhenBootAnimationExit, Note, modeVars, countVars, foldVars
<1>2. /\ stack[b] # <<>> /\ f.fn = "boot" /\ c \in FramesOf(b) /\ Trigger \in FramesOf(b)
      /\ Moves(b, <<c>>) \/ Moves(b, <<Trigger>>)
  BY <1>0, BootExitEffect
<1>3. /\ Moves(b, <<c>>) => Exchange({c}, {f}, Owed(c), Owed(f))
      /\ Moves(b, <<Trigger>>) => Exchange({Trigger}, {f}, Owed(Trigger), Owed(f))
  BY <1>0, <1>1, <1>2, MoveExchange
<1>4. GetModeMatchStatus # "COORDINATION"
  BY <1>0, ModeOfType
<1>5. Outer(f) /\ ~Awaits(f) /\ Outer(c) /\ c.mode # "COORDINATION"
  BY <1>2, <1>4 DEF Outer, Asked, Awaits, Change, Frame
<1> HIDE DEF f, c
<1>6. Trigger.fn = "trigger"
  BY DEF Trigger, Frame
<1>7. Owed(c) = 0 /\ Owed(f) = 0 /\ Owed(Trigger) = 0
  BY <1>5, <1>6, OuterFacts DEF Owed
<1>8. CASE Moves(b, <<c>>)
  <2>1. Exchange({c}, {f}, 0, 0)
    BY <1>3, <1>7, <1>8
  <2> QED
    BY <1>1, <1>5, <2>1, OuterAgree
<1>9. CASE Moves(b, <<Trigger>>)
  <2>1. Exchange({Trigger}, {f}, 0, 0)
    BY <1>3, <1>7, <1>9
  <2>2. Deaf(Trigger) /\ Deaf(f) /\ ~InFlight(Trigger)
    BY <1>2, <1>6, DeafCalls DEF InFlight
  <2>3. LooksKept({Trigger}, {f}) /\ TentKept({Trigger}, {f})
    BY <1>1, <2>2, DeafStay
  <2>4. Counted' => ~Changing
    BY <1>1 DEF Counted, Upset
  <2>5. FlightOK'
    <3> SUFFICES ASSUME Counted', NEW h \in Held', InFlight(h)
                 PROVE  FALSE
      BY DEF FlightOK, Flying, InFlight
    <3>1. h \in Held
      BY <2>1, <2>2 DEF Exchange, HeldBy
    <3> QED
      BY <2>4, <3>1, NoneChanging DEF InFlight
  <2>6. EvenOK'
    <3> SUFFICES ASSUME Even', running'
                 PROVE  FALSE
      BY DEF EvenOK
    <3>1. Even /\ running /\ ~Unfinished
      BY <1>1, <2>4, UpsetFewer, NoneChanging
    <3>2. pending = 0 /\ \E h \in Held : Ends(h)
      BY <3>1, DebtHeld DEF AgreeInv, EvenOK
    <3> QED
      BY <3>1, <3>2, NoneUnfinished DEF Ends
  <2>7. NoticeOK'
    BY <1>1 DEF NoticeOK, AgreeInv
  <2> QED
    BY <2>1, <2>3, <2>5, <2>6, <2>7, LooksStay, TentStays DEF AgreeInv
<1> QED
  BY <1>2, <1>8, <1>9

LEMMA AgreeStep ==
  ASSUME TypeInv, ModeInv, AgreeInv, [Next]_vars
  PROVE  AgreeInv'
<1>1. ASSUME NEW t \in Threads, Step(t)
      PROVE  AgreeInv'
  <2>1. CASE Start(t)
    BY <2>1, AskAgree, StartAgree
  <2>2. CASE PostWork(t)
    <3>1. Shown
      BY <2>2 DEF PostWork, Posts, Shown
    <3> QED
      BY <3>1, ShownAgree
  <2>3. CASE Finish(t)
    BY <2>3, FinishAgree
  <2>4. CASE CountDown(t) \/ TestCount(t) \/ CompareWithCache(t)
    BY <2>4, DoneAgree
  <2>5. CASE ExitSub(t) \/ ExitMode(t)
    BY <2>5, ExitAgree
  <2> QED
    BY <1>1, <2>1, <2>2, <2>3, <2>4, <2>5, AskAgree, ReportAgree DEF Step
<1>2. CASE RunnerStep \/ PowerStep
  BY <1>2, RunnerAgree, PanelAgree DEF RunnerStep, PowerStep
<1>3. CASE Environment
  BY <1>3, RequestAgree, AnswerAgree, SwitchAgree DEF Environment
<1>4. CASE UNCHANGED vars
  <2>1. /\ UNCHANGED <<cache, last, wanted, running, pending, notices, tent, upset, stack, queue>>
    BY <1>4 DEF vars, modeVars, countVars, bootVars, foldVars
  <2>2. Exchange({}, {}, 0, 0)
    BY <2>1, NothingMoves
  <2> QED
    BY <2>1, <2>2, OuterAgree
<1> QED
  BY <1>1, <1>2, <1>3, <1>4, TentAgree, BootAgree DEF Next

LEMMA InitAgree ==
  ASSUME Init
  PROVE  AgreeInv
<1>1. Held = {} /\ last = wanted
  BY InitHeld
<1>2. ~running /\ ~tent /\ notices = 0
  BY DEF Init
<1> QED
  BY <1>1, <1>2 DEF AgreeInv, FlightOK, EvenOK, NoticeOK, CacheOK, WantedOK, TentOK, Flying

LEMMA AgreeHolds ==
  Spec => []AgreeInv
<1>1. TypeInv /\ ModeInv /\ AgreeInv /\ [Next]_vars => AgreeInv'
  BY AgreeStep
<1>2. FoldInv => TypeInv /\ ModeInv
  BY DEF FoldInv
<1> QED
  BY <1>1, <1>2, InitAgree, FoldHolds, PTL DEF Spec

LEMMA NoneHeld ==
  ASSUME TypeInv, Quiet
  PROVE  Held = {}
<1>1. \A t \in Threads : stack[t] = <<>>
  BY DEF Quiet, Idle
<1>2. \A t \in Threads : Frames(t) = {}
  BY <1>1, RestFacts DEF TypeInv
<1> QED
  BY <1>2 DEF Quiet, Held

\* While a change runs, the count of its flag is what its call and its tasks
\* have yet to count down, and when nothing is left some call is about to
\* clear the flag, in whatever order the call, the tasks and the answer of the
\* SCB count (SetdisplayModeChangeStatus): a flag is not left set, nor cleared
\* early, unless two changes overlap, or the change has no work or is made
\* during the boot.
THEOREM CountCorrect ==
  Spec => []CountIsOwed
<1>1. TypeInv /\ AgreeInv => CountIsOwed
  <2> SUFFICES ASSUME TypeInv, AgreeInv, running,
                      ~Upset({"overlap", "unhandled", "boot", "stray", "bootRaces"})
               PROVE  /\ pending = Owing
                      /\ pending = 0 => \E t \in Threads : Ending(t)
    BY DEF CountIsOwed, Owing
  <2>1. Even /\ "boot" \notin upset
    BY DEF Even, Counted, Upset
  <2>2. notices = 0 /\ Owing \in Nat
    BY <2>1, DebtType DEF AgreeInv, NoticeOK
  <2>3. Debt = Owing
    BY <2>2 DEF Debt
  <2>4. pending = Debt /\ (pending = 0 => \E f \in Held : Ends(f))
    BY <2>1 DEF AgreeInv, EvenOK
  <2>5. ASSUME NEW f \in Held, Ends(f)
        PROVE  \E t \in Threads : Ending(t)
    <3>1. f \notin {queue[i] : i \in DOMAIN queue}
      BY <2>5 DEF TypeInv, QueueOK, Tasks, Ends
    <3> QED
      BY <2>5, <3>1 DEF Held, Ends, Ending
  <2> QED
    BY <2>3, <2>4, <2>5
<1>2. FoldInv => TypeInv
  BY DEF FoldInv
<1> QED
  BY <1>1, <1>2, FoldHolds, AgreeHolds, PTL

\* Once every call has returned and no change runs, the mode is the one asked
\* for last, in whatever order the changes were made, refused while another
\* ran and caught up with through the cached mode (lastCachedisplayMode_); it
\* is not the coordination mode in tent mode; and the clients are told the
\* mode that the next request is compared with (CheckDisplayMode).
THEOREM AgreeCorrect ==
  Spec => []ModeAgrees
<1>1. TypeInv /\ ModeInv /\ AgreeInv => ModeAgrees
  <2> SUFFICES ASSUME TypeInv, ModeInv, AgreeInv, Quiet
               PROVE  /\ ~running =>
                           \/ /\ last = wanted
                              /\ tent => last # "COORDINATION" \/ Upset({"tentInChange"})
                           \/ Upset({"overlap", "stale", "refused", "exitRaces", "stray", "bootRaces"})
                      /\ last = current \/ Upset({"overlap", "exitRaces"})
    BY DEF ModeAgrees
  <2>1. Held = {}
    BY NoneHeld
  <2>2. last = current \/ Upset({"overlap", "exitRaces"})
    BY <2>1 DEF ModeInv, ModesOK
  <2>3. ~running /\ Straight => last = wanted
    BY <2>1 DEF AgreeInv, WantedOK
  <2>4. tent => wanted # "COORDINATION" \/ Upset({"tentInChange"})
    BY <2>1 DEF AgreeInv, TentOK
  <2> QED
    BY <2>2, <2>3, <2>4 DEF Straight
<1>2. FoldInv => TypeInv /\ ModeInv
  BY DEF FoldInv
<1> QED
  BY <1>1, <1>2, FoldHolds, AgreeHolds, PTL

-----------------------------------------------------------------------------
(* The panels and the display nodes of the mode.                           *)

Single == ~Upset({"overlap", "exitRaces", "bootRaces", "bootBoth", "exitFolded"})
OnOne  == last \in {"MAIN", "SUB"}
\* FoldScreenPowerInit has set the panels.
Booted == ~onBoot \/ ~Idle("boot")

\* What a call is yet to do: to set the panel of the power keys, to turn the other
\* panel off, to light the sub panel, to give the nodes
Begun(f)   == f.fn \in {"change", "trigger"} /\ f.pc = "post"
Moving(f)  == Begun(f) \/ f.fn = "offOn"
Darkens(f) == Begun(f) \/ (f.fn = "offOn" /\ f.pc = "off")
Lights(f)  == (f.fn = "change" /\ f.pc \in {"post", "postMain", "postSub"}) \/ f.fn = "onSub"
Shows(f)   == f.fn \in {"change", "trigger"} /\ f.pc \in {"post", "postMain", "postSub", "nodes"}
Busy(f)    == InFlight(f) \/ f.fn \in Works

\* A call that lights the sub panel with the power state it was given
Lamp(f)    == f.fn = "onSub" \/ (f.fn = "change" /\ f.pc \in {"postMain", "postSub"})
\* A suspend that the coordination mode came after, or that has left it
Away(f)    == f.fn = "suspend" /\ f.pc \notin {"exit", "exitMode"}
Opens(f)   == f.fn = "change" /\ f.pc = "post"
Leaves(f)  == f.pc = "exitMode"

ScreenOK == Single /\ OnOne => screenId = OnScreen(last) \/ \E f \in Held : Moving(f)
OffOK ==
  Single /\ Booted /\ OnOne => OffScreen(last) \notin lit \/ \E f \in Held : Darkens(f)
\* Nothing lights the sub panel again while the coordination mode is left.
LeftOK ==
  Single /\ last = "COORDINATION" /\ Exiting =>
    "sub" \notin lit /\ \A f \in Held : ~Busy(f)
Awake == Single /\ last = "COORDINATION" /\ ~Upset({"coordOff"})
SubOK  == Awake => "sub" \in lit \/ Exiting \/ \E f \in Held : Lights(f)
LampOK == Awake => \A f \in Held : Lamp(f) => f.flag = TRUE
\* No suspend turns the sub panel of the coordination mode off.
AwayOK == Awake => (\A f \in Held : ~Away(f)) \/ \E f \in Held : Opens(f)
Tidy == Single /\ ~Upset({"fromSub", "bootBare"}) /\ Booted
NodesOK ==
  Tidy =>
    /\ OnOne => nodes = {OnScreen(last)} \/ \E f \in Held : Shows(f)
    /\ last = "COORDINATION" =>
         /\ Exiting => nodes = {"main"}
         /\ ~Exiting => nodes = Screens \/ ("main" \in nodes /\ \E f \in Held : Shows(f))
FollowInv == ScreenOK /\ OffOK /\ LeftOK /\ SubOK /\ LampOK /\ AwayOK /\ NodesOK

LEMMA SingleNow ==
  ASSUME upset \subseteq upset'
  PROVE  /\ Single' => Single /\ Calm /\ Calm'
         /\ Awake' => Single' /\ last' = "COORDINATION"
         /\ Awake' /\ last' = last => Awake
         /\ Tidy' => Single'
         /\ Tidy' /\ Booted => Tidy
  BY DEF Upset, Single, Calm, Awake, Tidy

LEMMA ExitingHeld ==
  ASSUME QueueOK
  PROVE  Exiting <=> \E f \in Held : Leaves(f)
<1>1. \A f \in {queue[i] : i \in DOMAIN queue} : ~Leaves(f)
  BY DEF QueueOK, Tasks, Leaves, FrameOK, PcsOf
<1> QED
  BY <1>1 DEF Held, Exiting, Leaves

\* The exits go on if none begins and none ends.
LEMMA ExitingSame ==
  ASSUME QueueOK, QueueOK', NEW A, NEW B, HeldBy(A, B), \A f \in A \cup B : ~Leaves(f)
  PROVE  Exiting' <=> Exiting
<1>1. (\E f \in Held : Leaves(f)) <=> \E f \in Held' : Leaves(f)
  BY DEF HeldBy
<1>2. Exiting <=> \E f \in Held : Leaves(f)
  BY ExitingHeld
<1>3. Exiting' <=> \E f \in Held' : Leaves(f)
  <2>1. \A f \in {queue'[i] : i \in DOMAIN queue'} : ~Leaves(f)
    BY DEF QueueOK, Tasks, Leaves, FrameOK, PcsOf
  <2> QED
    BY <2>1 DEF Held, Exiting, Leaves
<1> QED
  BY <1>1, <1>2, <1>3

\* No step but PowerInit turns Booted true.
LEMMA BootedStays ==
  ASSUME StackOK, onBoot' = onBoot,
         \/ stack["boot"] # <<>>
         \/ UNCHANGED stack
         \/ \E t \in Threads :
              /\ t # "boot" \/ stack[t] # <<>>
              /\ (\E fs : Moves(t, fs)) \/ (\E A : Trades(t, A))
  PROVE  Booted' => Booted
<1>1. CASE stack["boot"] # <<>> \/ UNCHANGED stack
  BY <1>1 DEF Booted, Idle
<1>2. ASSUME NEW t \in Threads, t # "boot", (\E fs : Moves(t, fs)) \/ \E A : Trades(t, A)
      PROVE  stack'["boot"] = stack["boot"]
  BY <1>2 DEF Moves, Trades, StackOK, Threads
<1>3. CASE stack["boot"] = <<>> /\ stack' # stack
  <2>1. PICK t \in Threads :
          /\ t # "boot" \/ stack[t] # <<>>
          /\ (\E fs : Moves(t, fs)) \/ (\E A : Trades(t, A))
    BY <1>3
  <2>2. t # "boot"
    BY <1>3, <2>1
  <2>3. stack'["boot"] = stack["boot"]
    BY <1>2, <2>1, <2>2
  <2> QED
    BY <2>3 DEF Booted, Idle
<1> QED
  BY <1>1, <1>3

-----------------------------------------------------------------------------
(* What keeps each part.                                                   *)

LEMMA ScreenKept ==
  ASSUME ScreenOK, NEW A, NEW B, HeldBy(A, B), last' = last, upset \subseteq upset',
         Single' /\ OnOne =>
           \/ screenId' = OnScreen(last)
           \/ \E a \in A : Moving(a)
           \/ screenId' = screenId /\ \A b \in B : ~Moving(b)
  PROVE  ScreenOK'
<1> SUFFICES ASSUME Single', OnOne
             PROVE  screenId' = OnScreen(last) \/ \E f \in Held' : Moving(f)
  BY DEF ScreenOK, OnOne, OnScreen, Moving, Begun
<1>1. screenId = OnScreen(last) \/ \E f \in Held : Moving(f)
  BY SingleNow DEF ScreenOK
<1> QED
  BY <1>1 DEF HeldBy

LEMMA OffKept ==
  ASSUME OffOK, NEW A, NEW B, HeldBy(A, B), last' = last, upset \subseteq upset',
         Booted' => Booted,
         Single' /\ OnOne /\ Booted =>
           \/ OffScreen(last) \notin lit'
           \/ \E a \in A : Darkens(a)
           \/ (OffScreen(last) \in lit' => OffScreen(last) \in lit) /\ \A b \in B : ~Darkens(b)
  PROVE  OffOK'
<1> SUFFICES ASSUME Single', OnOne, Booted'
             PROVE  OffScreen(last) \notin lit' \/ \E f \in Held' : Darkens(f)
  BY DEF OffOK, OnOne, OffScreen, Darkens, Begun
<1>1. OffScreen(last) \notin lit \/ \E f \in Held : Darkens(f)
  BY SingleNow DEF OffOK
<1> QED
  BY <1>1 DEF HeldBy

LEMMA LeftKept ==
  ASSUME QueueOK, QueueOK', LeftOK, NEW A, NEW B, HeldBy(A, B), B \subseteq Held,
         last' = last, upset \subseteq upset',
         \A f \in A \cup B : ~Leaves(f),
         Single' /\ last = "COORDINATION" => \A a \in A : Busy(a) => \E b \in B : Busy(b),
         Single' /\ last = "COORDINATION" /\ (\A f \in Held : ~Busy(f)) =>
           ("sub" \in lit' => "sub" \in lit)
  PROVE  LeftOK'
<1> SUFFICES ASSUME Single', last = "COORDINATION", Exiting'
             PROVE  "sub" \notin lit' /\ \A f \in Held' : ~Busy(f)
  BY DEF LeftOK, Busy, InFlight, Works
<1>1. Exiting
  BY ExitingSame
<1>2. "sub" \notin lit /\ \A f \in Held : ~Busy(f)
  BY <1>1, SingleNow DEF LeftOK
<1> QED
  BY <1>2 DEF HeldBy

LEMMA SubKept ==
  ASSUME QueueOK, QueueOK', SubOK, NEW A, NEW B, HeldBy(A, B),
         last' = last, upset \subseteq upset',
         \A f \in A \cup B : ~Leaves(f),
         Awake' =>
           \/ "sub" \in lit'
           \/ \E a \in A : Lights(a)
           \/ ("sub" \in lit => "sub" \in lit') /\ \A b \in B : ~Lights(b)
  PROVE  SubOK'
<1> SUFFICES ASSUME Awake'
             PROVE  "sub" \in lit' \/ Exiting' \/ \E f \in Held' : Lights(f)
  BY DEF SubOK, Lights
<1>1. "sub" \in lit \/ Exiting \/ \E f \in Held : Lights(f)
  BY SingleNow DEF SubOK
<1>2. Exiting' <=> Exiting
  BY ExitingSame
<1> QED
  BY <1>1, <1>2 DEF HeldBy

LEMMA LampKept ==
  ASSUME LampOK, NEW A, NEW B, HeldBy(A, B), last' = last, upset \subseteq upset',
         Awake' => \A a \in A : Lamp(a) => a.flag = TRUE
  PROVE  LampOK'
<1> SUFFICES ASSUME Awake', NEW f \in Held', Lamp(f)
             PROVE  f.flag = TRUE
  BY DEF LampOK, Lamp
<1>1. \A h \in Held : Lamp(h) => h.flag = TRUE
  BY SingleNow DEF LampOK
<1> QED
  BY <1>1 DEF HeldBy

LEMMA AwayKept ==
  ASSUME AwayOK, NEW A, NEW B, HeldBy(A, B), B \subseteq Held, last' = last,
         upset \subseteq upset',
         Awake' =>
           \/ \E a \in A : Opens(a)
           \/ \A f \in Held \cup A : ~Away(f)
           \/ (\A b \in B : ~Opens(b)) /\ \A a \in A : Away(a) => \E b \in B : Away(b)
  PROVE  AwayOK'
<1> SUFFICES ASSUME Awake'
             PROVE  (\A f \in Held' : ~Away(f)) \/ \E f \in Held' : Opens(f)
  BY DEF AwayOK, Away, Opens
<1>1. (\A f \in Held : ~Away(f)) \/ \E f \in Held : Opens(f)
  BY SingleNow DEF AwayOK
<1> QED
  BY <1>1 DEF HeldBy

LEMMA NodesKept ==
  ASSUME QueueOK, QueueOK', NodesOK, NEW A, NEW B, HeldBy(A, B),
         UNCHANGED <<last, nodes>>, upset \subseteq upset', Booted' => Booted,
         \A f \in A \cup B : ~Leaves(f),
         Single' /\ (OnOne \/ last = "COORDINATION") =>
           \A b \in B : Shows(b) => \E a \in A : Shows(a)
  PROVE  NodesOK'
<1> SUFFICES ASSUME Tidy'
             PROVE  /\ OnOne => nodes = {OnScreen(last)} \/ \E f \in Held' : Shows(f)
                    /\ last = "COORDINATION" =>
                         /\ Exiting' => nodes = {"main"}
                         /\ ~Exiting' =>
                              nodes = Screens \/ ("main" \in nodes /\ \E f \in Held' : Shows(f))
  BY DEF NodesOK, OnOne, OnScreen, Shows, Screens
<1>1. Tidy /\ Single'
  BY SingleNow DEF Tidy
<1>2. Exiting' <=> Exiting
  BY ExitingSame
<1>3. OnOne \/ last = "COORDINATION" => ((\E f \in Held : Shows(f)) => \E f \in Held' : Shows(f))
  BY <1>1 DEF HeldBy
<1> QED
  BY <1>1, <1>2, <1>3 DEF NodesOK

\* The steps that leave the mode and the panels alone
LEMMA FollowKept ==
  ASSUME QueueOK, QueueOK', FollowInv, NEW A, NEW B, HeldBy(A, B), B \subseteq Held,
         UNCHANGED <<last, panelVars>>, upset \subseteq upset', Booted' => Booted,
         \A f \in A \cup B : ~Leaves(f),
         Single' /\ OnOne =>
           /\ \A b \in B : Moving(b) => \E a \in A : Moving(a)
           /\ \A b \in B : Darkens(b) => \E a \in A : Darkens(a),
         Single' /\ (OnOne \/ last = "COORDINATION") =>
           \A b \in B : Shows(b) => \E a \in A : Shows(a),
         Single' /\ last = "COORDINATION" =>
           /\ \A a \in A : Busy(a) => \E b \in B : Busy(b)
           /\ \A b \in B : Lights(b) => \E a \in A : Lights(a),
         Awake' => \A a \in A : Lamp(a) => a.flag = TRUE,
         Awake' =>
           \/ \E a \in A : Opens(a)
           \/ \A f \in Held \cup A : ~Away(f)
           \/ (\A b \in B : ~Opens(b)) /\ \A a \in A : Away(a) => \E b \in B : Away(b)
  PROVE  FollowInv'
<1> USE DEF FollowInv
<1>1. UNCHANGED <<screenId, nodes, lit>>
  BY DEF panelVars
<1>2. ScreenOK'
  BY <1>1, ScreenKept
<1>3. OffOK'
  BY <1>1, OffKept
<1>4. LeftOK'
  BY <1>1, LeftKept
<1>5. SubOK'
  <2>1. Awake' => \/ "sub" \in lit'
                  \/ \E a \in A : Lights(a)
                  \/ ("sub" \in lit => "sub" \in lit') /\ \A b \in B : ~Lights(b)
    BY <1>1, SingleNow
  <2> QED
    BY <2>1, SubKept
<1>6. LampOK' /\ AwayOK'
  BY LampKept, AwayKept
<1>7. NodesOK'
  BY <1>1, NodesKept
<1> QED
  BY <1>2, <1>3, <1>4, <1>5, <1>6, <1>7

\* The calls that have none of this to do
Silent(f) == ~Moving(f) /\ ~Lights(f) /\ ~Shows(f) /\ ~Busy(f) /\ ~Away(f) /\ ~Leaves(f)

LEMMA SilentKept ==
  ASSUME QueueOK, QueueOK', FollowInv, NEW A, NEW B, HeldBy(A, B), B \subseteq Held,
         UNCHANGED <<last, panelVars>>, upset \subseteq upset', Booted' => Booted,
         \A a \in A : Silent(a) \/ (Away(a) /\ a.pc # "exitMode" /\ \E b \in B : Away(b)),
         \A b \in B : Silent(b) \/ (Away(b) /\ b.pc # "exitMode")
  PROVE  FollowInv'
<1>1. \A f \in A \cup B : ~Leaves(f) /\ ~Moving(f) /\ ~Darkens(f) /\ ~Shows(f) /\ ~Busy(f)
                        /\ ~Lights(f) /\ ~Lamp(f) /\ ~Opens(f)
  BY DEF Silent, Leaves, Moving, Darkens, Shows, Busy, Lights, Lamp, Opens, Away, Begun, InFlight,
     Works
<1> QED
  BY <1>1, FollowKept DEF Silent

LEMMA FrameInHeldNext ==
  ASSUME StackOK', QueueOK'
  PROVE  \A f \in Held' : FrameOK(f)
<1>1. \A t \in Threads : Frames(t)' \subseteq FramesOf(t)
  BY DEF StackOK, Frames
<1>2. \A i \in DOMAIN queue' : queue'[i] \in Tasks
  BY DEF QueueOK
<1> QED
  BY <1>1, <1>2 DEF Held, FramesOf, Tasks

LEMMA AsideFollow ==
  ASSUME TypeInv, FollowInv, Aside
  PROVE  FollowInv'
<1>1. PICK A \in SUBSET Dull, B \in SUBSET Dull : HeldBy(A, B)
  BY HeldAside DEF TypeInv
<1> DEFINE C == B \cap Held
<1>2. HeldBy(A, C)
  BY <1>1 DEF HeldBy
<1>3. \A f \in Dull : FrameOK(f) => Silent(f)
  BY DEF Dull, Silent, Leaves, Moving, Shows, Busy, Lights, Away, Begun, InFlight, Works,
     FrameOK, PcsOf
<1>4. C \subseteq Held /\ C \subseteq Dull
  OBVIOUS
<1>5. /\ UNCHANGED <<last, panelVars>> /\ upset \subseteq upset' /\ onBoot' = onBoot
      /\ queue' = queue /\ StackOK'
  BY DEF Aside
<1>6. QueueOK /\ QueueOK' /\ StackOK
  BY <1>5 DEF TypeInv, QueueOK
<1>8. \A f \in A \cup C : Silent(f)
  BY <1>2, <1>3, <1>4, <1>5, <1>6, FrameInHeld, FrameInHeldNext DEF HeldBy
<1>7. Booted' => Booted
  <2>1. CASE UNCHANGED stack
    BY <1>5, <1>6, <2>1, BootedStays
  <2>2. CASE \E t \in Threads : AsideBy(t)
    <3>1. PICK t \in Threads : AsideBy(t)
      BY <2>2
    <3>2. (t # "boot" \/ stack[t] # <<>>) /\ \E A1 : Trades(t, A1)
      BY <3>1 DEF AsideBy
    <3> QED
      BY <1>5, <1>6, <3>2, BootedStays
  <2> QED
    BY <2>1, <2>2 DEF Aside
<1> HIDE DEF C
<1> QED
  BY <1>2, <1>4, <1>5, <1>6, <1>7, <1>8, SilentKept

LEMMA StartFollow ==
  ASSUME TypeInv, FollowInv, NEW t \in Threads, Starts(t)
  PROVE  FollowInv'
<1> DEFINE f == Top(t)
           g == [f EXCEPT !.pc = "post"]
<1>1. /\ f \in FramesOf(t) /\ f.fn = "change" /\ f.pc = "check" /\ last' = f.mode
      /\ upset \subseteq upset'
      /\ Unfinished => "overlap" \in upset'
      /\ Exiting => "exitRaces" \in upset'
      /\ f.mode = "COORDINATION" /\ "main" \notin nodes => "fromSub" \in upset'
      /\ HeldBy({g}, {f}) /\ QueueOK'
  BY DEF Starts
<1>2. g.fn = "change" /\ g.pc = "post" /\ g.mode = last'
  BY <1>1 DEF FramesOf, FrameType
<1>3. nodes' = nodes
  BY DEF Starts, Start, panelVars
<1> HIDE DEF g
<1>4. /\ g \in Held' /\ Moving(g) /\ Darkens(g) /\ Lights(g) /\ Shows(g) /\ Opens(g)
      /\ ~Lamp(g) /\ ~Leaves(g) /\ ~Leaves(f)
  BY <1>1, <1>2 DEF HeldBy, Moving, Darkens, Lights, Shows, Opens, Lamp, Leaves, Begun
<1>5. Single' => ~Unfinished /\ ~Exiting
  BY <1>1 DEF Single, Upset
<1>6. Exiting' <=> Exiting
  BY <1>1, <1>4, ExitingSame DEF TypeInv
<1>7. ScreenOK'
  BY <1>4 DEF ScreenOK, Moving, Begun
<1>8. OffOK'
  BY <1>4 DEF OffOK, Darkens, Begun
<1>9. LeftOK'
  BY <1>5, <1>6 DEF LeftOK
<1>10. SubOK'
  BY <1>4 DEF SubOK, Lights
<1>11. LampOK'
  <2>1. Single' => \A h \in Held : ~Lamp(h)
    BY <1>5, NoneUnfinished DEF Lamp, InFlight
  <2> QED
    BY <1>1, <1>4, <2>1 DEF LampOK, Awake, HeldBy, Lamp
<1>12. AwayOK'
  BY <1>4 DEF AwayOK, Opens
<1>13. NodesOK'
  <2>1. Tidy' => Single' /\ (f.mode = "COORDINATION" => "main" \in nodes)
    BY <1>1 DEF Tidy, Upset
  <2> QED
    BY <1>1, <1>3, <1>4, <1>5, <1>6, <2>1 DEF NodesOK, Shows
<1> QED
  BY <1>7, <1>8, <1>9, <1>10, <1>11, <1>12, <1>13 DEF FollowInv

\* A change during the boot animation shows its mode before the panels are set.
LEMMA BootFollow ==
  ASSUME TypeInv, ModeInv, FollowInv, NEW t \in Threads, stack[t] # <<>>, ShowOnBootAnimation(t)
  PROVE  FollowInv'
<1> DEFINE f == Top(t)
           g == [f EXCEPT !.pc = "current"]
<1>1. /\ f \in FramesOf(t) /\ f.fn \in {"change", "trigger"} /\ f.pc = "post"
      /\ f.mode \in {"MAIN", "SUB"} /\ onBoot /\ f \in Held /\ g \in FramesOf(t)
      /\ (\E fs : Moves(t, fs))
      /\ \/ HeldBy({g}, {f})
         \/ HeldBy({Done, g}, {f})
  BY BootEffect, FrameInHeld DEF TypeInv
<1>2. /\ last' = last /\ screenId' = OnScreen(f.mode) /\ onBoot' = onBoot /\ upset \subseteq upset'
      /\ ~Idle("boot") => "bootRaces" \in upset'
  BY DEF ShowOnBootAnimation, modeVars
<1>3. Single' => f.mode = last
  <2>1. InFlight(f) \/ f.fn \in Works
    BY <1>1 DEF InFlight, Works
  <2>2. Single' => Calm /\ ~Upset({"overlap", "exitRaces"})
    BY <1>2, SingleNow, CalmNow
  <2> QED
    BY <1>1, <2>1, <2>2 DEF ModeInv, ModesOK, WorkOK
<1>4. Single' => ~Booted'
  <2>1. Single' => ~Booted
    BY <1>1, <1>2 DEF Single, Upset, Booted
  <2>2. Booted' => Booted
    BY <1>1, <1>2, BootedStays DEF TypeInv
  <2> QED
    BY <2>1, <2>2
<1>5. ScreenOK'
  BY <1>2, <1>3 DEF ScreenOK, OnScreen
<1>6. OffOK' /\ NodesOK'
  BY <1>4 DEF OffOK, NodesOK, Tidy
<1>7. Single' => last' # "COORDINATION"
  BY <1>1, <1>2, <1>3
<1>8. LeftOK' /\ SubOK' /\ LampOK' /\ AwayOK'
  BY <1>7 DEF LeftOK, SubOK, LampOK, AwayOK, Awake
<1> QED
  BY <1>5, <1>6, <1>8 DEF FollowInv

\* A device that is on is in no suspend.
LEMMA OffNotAway ==
  ASSUME TypeInv, PowerOK, deviceOn
  PROVE  \A f \in Held : ~Away(f)
<1>1. SUFFICES ASSUME NEW f \in Held, Away(f) PROVE FALSE
  OBVIOUS
<1>2. f \notin {queue[i] : i \in DOMAIN queue}
  BY <1>1 DEF TypeInv, QueueOK, Tasks, Away
<1>3. PICK t \in Threads : f \in Frames(t)
  BY <1>2 DEF Held
<1>4. f \in FramesOf(t)
  BY <1>3, FrameInHeld DEF TypeInv
<1>5. t = "power"
  BY <1>1, <1>4 DEF FramesOf, CallsOf, Threads, Away
<1>6. stack["power"] # <<>> /\ f = Top("power")
  BY <1>1, <1>3, <1>5, LoneFacts DEF TypeInv, Lone, Away
<1> QED
  BY <1>1, <1>6 DEF PowerOK, Away

LEMMA PostFollow ==
  ASSUME TypeInv, ModeInv, PowerOK, FollowInv, NEW t \in Threads, Posts(t)
  PROVE  FollowInv'
<1> USE DEF TypeInv
<1> DEFINE f == Top(t)
           Same == /\ UNCHANGED <<last, panelVars>> /\ upset \subseteq upset'
                   /\ Booted' => Booted
<1>0. stack[t] # <<>> /\ f \in Held /\ f \in FramesOf(t)
  BY FrameInHeld, TopFacts DEF Posts
<1>1. ASSUME UNCHANGED <<last, panelVars, onBoot>>, upset \subseteq upset',
             NEW fs, Moves(t, fs)
      PROVE  Same
  BY <1>0, <1>1, BootedStays
<1>2. f.mode = last \/ ~Single' \/ ~(upset \subseteq upset') \/ ~(InFlight(f) \/ f.fn \in Works)
  BY <1>0, SingleNow, CalmNow DEF ModeInv, ModesOK, WorkOK
<1>3. CASE PostOffOn(t)
  <2> DEFINE g == [f EXCEPT !.pc = "nodes"]
             k == OffOnTask(t)
  <2>1. /\ f.fn \in {"change", "trigger"} /\ f.pc = "post" /\ f.mode \in {"MAIN", "SUB"}
        /\ g \in FramesOf(t) /\ HeldBy({k, g}, {f}) /\ (\E fs : Moves(t, fs)) /\ QueueOK'
    BY <1>0, <1>3, OffOnEffect DEF PostsTask
  <2>2. Same
    BY <1>1, <1>3, <2>1 DEF PostOffOn, modeVars, bootVars
  <2>3. /\ g.fn = f.fn /\ g.pc = "nodes" /\ g.mode = f.mode
        /\ k.fn = "offOn" /\ k.pc = "off" /\ k.mode = f.mode
    BY <1>0 DEF FramesOf, FrameType, OffOnTask, Frame
  <2>4. f.mode = last \/ ~Single'
    BY <1>2, <2>1, <2>2 DEF InFlight, Works
  <2> HIDE DEF g, k
  <2>5. Moving(k) /\ Darkens(k) /\ Shows(g) /\ \A h \in {k, g, f} : ~Leaves(h)
    BY <2>1, <2>3 DEF Moving, Darkens, Shows, Leaves
  <2>6. Single' => last # "COORDINATION"
    BY <2>1, <2>4
  <2>7. ~Awake'
    BY <2>2, <2>6, SingleNow
  <2> QED
    BY <1>0, <2>1, <2>2, <2>5, <2>6, <2>7, FollowKept
<1>4. CASE PostOnMain(t)
  <2> DEFINE g == [f EXCEPT !.pc = "postSub"]
             k == OnMainTask(t)
  <2>1. /\ f.fn = "change" /\ f.pc = "postMain" /\ f.mode = "COORDINATION"
        /\ g \in FramesOf(t) /\ HeldBy({k, g}, {f}) /\ (\E fs : Moves(t, fs)) /\ QueueOK'
    BY <1>0, <1>4, OnMainEffect DEF PostsTask
  <2>2. Same
    BY <1>1, <1>4, <2>1, NoteGrows DEF PostOnMain, modeVars, bootVars
  <2>3. /\ g.fn = f.fn /\ g.pc = "postSub" /\ g.flag = f.flag
        /\ k.fn = "onMain" /\ k.pc = "on"
    BY <1>0 DEF FramesOf, FrameType, OnMainTask, Frame
  <2>4. f.mode = last \/ ~Single'
    BY <1>2, <2>1, <2>2 DEF InFlight
  <2> HIDE DEF g, k
  <2>5. /\ Shows(g) /\ Lights(g) /\ Busy(f) /\ Lamp(f) /\ ~Lamp(k) /\ ~Away(k) /\ ~Away(g)
        /\ ~Opens(f) /\ \A h \in {k, g, f} : ~Leaves(h)
    BY <2>1, <2>3 DEF Lights, Shows, Busy, InFlight, Lamp, Away, Leaves, Opens
  <2>6. ~(Single' /\ OnOne)
    BY <2>1, <2>4 DEF OnOne
  <2>7. Awake' => g.flag = TRUE
    <3>1. Awake' => Awake
      BY <2>2, SingleNow
    <3>2. Awake => f.flag = TRUE
      BY <1>0, <2>5 DEF FollowInv, LampOK
    <3> QED
      BY <2>3, <3>1, <3>2
  <2>8. Awake' => \A a \in {k, g} : Lamp(a) => a.flag = TRUE
    BY <2>5, <2>7
  <2>9. /\ \A b \in {f} : ~Opens(b)
        /\ \A a \in {k, g} : Away(a) => \E b \in {f} : Away(b)
        /\ \A a \in {k, g} : Busy(a) => \E b \in {f} : Busy(b)
        /\ \A b \in {f} : Lights(b) => \E a \in {k, g} : Lights(a)
        /\ \A b \in {f} : Shows(b) => \E a \in {k, g} : Shows(a)
    BY <2>5
  <2> QED
    BY <1>0, <2>1, <2>2, <2>5, <2>6, <2>8, <2>9, FollowKept
<1>5. CASE PostOnSub(t)
  <2> DEFINE g == [f EXCEPT !.pc = "nodes"]
             k == OnSubTask(t)
  <2>1. /\ f.fn = "change" /\ f.pc = "postSub" /\ f.mode = "COORDINATION"
        /\ g \in FramesOf(t) /\ HeldBy({k, g}, {f}) /\ (\E fs : Moves(t, fs)) /\ QueueOK'
    BY <1>0, <1>5, OnSubEffect DEF PostsTask
  <2>2. Same
    BY <1>1, <1>5, <2>1 DEF PostOnSub, modeVars, bootVars
  <2>3. /\ g.fn = f.fn /\ g.pc = "nodes"
        /\ k.fn = "onSub" /\ k.pc = "on" /\ k.flag = f.flag
    BY <1>0 DEF FramesOf, FrameType, OnSubTask, Frame
  <2>4. f.mode = last \/ ~Single'
    BY <1>2, <2>1, <2>2 DEF InFlight
  <2> HIDE DEF g, k
  <2>5. /\ Shows(g) /\ Lights(k) /\ Busy(f) /\ Lamp(f) /\ ~Lamp(g) /\ ~Away(k) /\ ~Away(g)
        /\ ~Opens(f) /\ \A h \in {k, g, f} : ~Leaves(h)
    BY <2>1, <2>3 DEF Lights, Shows, Busy, InFlight, Lamp, Away, Leaves, Opens
  <2>6. ~(Single' /\ OnOne)
    BY <2>1, <2>4 DEF OnOne
  <2>7. Awake' => k.flag = TRUE
    <3>1. Awake' => Awake
      BY <2>2, SingleNow
    <3>2. Awake => f.flag = TRUE
      BY <1>0, <2>5 DEF FollowInv, LampOK
    <3> QED
      BY <2>3, <3>1, <3>2
  <2>8. Awake' => \A a \in {k, g} : Lamp(a) => a.flag = TRUE
    BY <2>5, <2>7
  <2>9. /\ \A b \in {f} : ~Opens(b)
        /\ \A a \in {k, g} : Away(a) => \E b \in {f} : Away(b)
        /\ \A a \in {k, g} : Busy(a) => \E b \in {f} : Busy(b)
        /\ \A b \in {f} : Lights(b) => \E a \in {k, g} : Lights(a)
        /\ \A b \in {f} : Shows(b) => \E a \in {k, g} : Shows(a)
    BY <2>5
  <2> QED
    BY <1>0, <2>1, <2>2, <2>5, <2>6, <2>8, <2>9, FollowKept
<1>6. CASE PostNothing(t)
  <2> DEFINE g == [f EXCEPT !.pc = "current"]
  <2>1. /\ f.fn \in {"change", "trigger"} /\ f.pc = "post" /\ f.mode \in {"UNKNOWN", "FULL"}
        /\ g \in FramesOf(t) /\ HeldBy({g}, {f}) /\ (\E fs : Moves(t, fs)) /\ QueueOK'
    BY <1>0, <1>6, PostNothingEffect
  <2>2. Same
    BY <1>1, <1>6, <2>1, NoteGrows DEF PostNothing, modeVars, bootVars
  <2>3. f.mode = last \/ ~Single'
    BY <1>2, <2>1, <2>2 DEF InFlight, Works
  <2>4. g.pc = "current"
    BY <1>0 DEF FramesOf, FrameType
  <2> HIDE DEF g
  <2>5. ~Leaves(g) /\ ~Leaves(f)
    BY <2>1, <2>4 DEF Leaves
  <2>6. ~(Single' /\ (OnOne \/ last = "COORDINATION"))
    BY <2>1, <2>3 DEF OnOne
  <2>7. ~Awake'
    BY <2>2, <2>6, SingleNow
  <2> QED
    BY <1>0, <2>1, <2>2, <2>5, <2>6, <2>7, FollowKept
<1>7. CASE ReadScreenOn(t)
  <2> DEFINE g == [f EXCEPT !.pc = "postMain", !.flag = deviceOn]
  <2>1. /\ f.fn = "change" /\ f.pc = "post" /\ f.mode = "COORDINATION"
        /\ g \in FramesOf(t) /\ HeldBy({g}, {f}) /\ (\E fs : Moves(t, fs)) /\ QueueOK'
    BY <1>0, <1>7, ReadEffect
  <2>2. Same /\ (~deviceOn => "coordOff" \in upset')
    BY <1>1, <1>7, <2>1, NoteGrows DEF ReadScreenOn, modeVars, bootVars, Note
  <2>3. g.fn = f.fn /\ g.pc = "postMain" /\ g.flag = deviceOn
    BY <1>0 DEF FramesOf, FrameType
  <2>4. f.mode = last \/ ~Single'
    BY <1>2, <2>1, <2>2 DEF InFlight
  <2> HIDE DEF g
  <2>5. /\ Shows(g) /\ Lights(g) /\ Busy(f) /\ ~Away(g) /\ ~Leaves(g) /\ ~Leaves(f)
    BY <2>1, <2>3 DEF Lights, Shows, Busy, InFlight, Away, Leaves
  <2>6. ~(Single' /\ OnOne)
    BY <2>1, <2>4 DEF OnOne
  <2>7. Awake' => deviceOn = TRUE
    BY <2>2 DEF Awake, Upset, DataOK
  <2>8. deviceOn => \A h \in Held : ~Away(h)
    BY OffNotAway
  <2>9. Awake' => \A a \in {g} : Lamp(a) => a.flag = TRUE
    BY <2>3, <2>7
  <2>10. Awake' => \A h \in Held \cup {g} : ~Away(h)
    BY <2>5, <2>7, <2>8
  <2>11. /\ \A a \in {g} : Busy(a) => \E b \in {f} : Busy(b)
         /\ \A b \in {f} : Lights(b) => \E a \in {g} : Lights(a)
         /\ \A b \in {f} : Shows(b) => \E a \in {g} : Shows(a)
    BY <2>5
  <2> QED
    BY <1>0, <2>1, <2>2, <2>5, <2>6, <2>9, <2>10, <2>11, FollowKept
<1> QED
  BY <1>3, <1>4, <1>5, <1>6, <1>7 DEF Posts

\* The nodes of the mode are put on the tree.
LEMMA FinishFollow ==
  ASSUME TypeInv, ModeInv, FollowInv, NEW t \in Threads, Finish(t)
  PROVE  FollowInv'
<1> USE DEF TypeInv
<1> DEFINE f == Top(t)
<1>1. /\ stack[t] # <<>> /\ f \in Held /\ f \in FramesOf(t) /\ f.fn \in {"change", "trigger"}
      /\ f.pc \in {"nodes", "current"} /\ (\E fs : Moves(t, fs)) /\ QueueOK'
      /\ HeldBy({Done}, {f}) \/ HeldBy({}, {f})
  BY FinishEffect, FrameInHeld
<1>2. /\ UNCHANGED <<last, screenId, lit, onBoot>> /\ upset' = upset
      /\ nodes' = IF f.pc = "nodes" THEN NodesAfter(f.mode) ELSE nodes
  BY DEF Finish, bootVars
<1>3. Booted' => Booted
  BY <1>1, <1>2, BootedStays
<1>4. PICK A : A \in SUBSET {Done} /\ HeldBy(A, {f})
  BY <1>1
<1>5. /\ \A a \in A : Silent(a) /\ ~Lamp(a) /\ ~Opens(a)
      /\ ~Moving(f) /\ ~Darkens(f) /\ ~Lights(f) /\ ~Leaves(f) /\ ~Opens(f) /\ Busy(f)
  <2>1. Done.fn = "done" /\ Done.pc = "count"
    BY DEF Done, Frame
  <2> QED
    BY <1>1, <1>4, <2>1 DEF Silent, Moving, Darkens, Lights, Shows, Busy, Away, Leaves, Lamp, Opens,
       Begun, InFlight, Works
<1>6. \A h \in A \cup {f} : ~Leaves(h)
  BY <1>5 DEF Silent
<1>7. ScreenOK' /\ OffOK'
  BY <1>2, <1>3, <1>4, <1>5, ScreenKept, OffKept DEF FollowInv
<1>8. LeftOK'
  <2>1. \A a \in A : ~Busy(a)
    BY <1>5 DEF Silent
  <2> QED
    BY <1>1, <1>2, <1>4, <1>6, <2>1, LeftKept DEF FollowInv
<1>9. SubOK'
  BY <1>1, <1>2, <1>4, <1>5, <1>6, SubKept DEF FollowInv
<1>10. LampOK' /\ AwayOK'
  <2>1. \A a \in A : ~Lamp(a) /\ ~Away(a)
    BY <1>5 DEF Silent
  <2> QED
    BY <1>1, <1>2, <1>4, <1>5, <2>1, LampKept, AwayKept DEF FollowInv
<1>11. NodesOK'
  <2>1. CASE f.pc = "current"
    <3>1. ~Shows(f) /\ nodes' = nodes
      BY <1>2, <2>1 DEF Shows
    <3> QED
      BY <1>1, <1>2, <1>3, <1>4, <1>6, <3>1, NodesKept DEF FollowInv
  <2>2. CASE f.pc = "nodes"
    <3> SUFFICES ASSUME Tidy'
                 PROVE  /\ OnOne' => nodes' = {OnScreen(last')}
                        /\ last' = "COORDINATION" => ~Exiting' /\ nodes' = Screens
      BY DEF NodesOK, Shows
    <3>1. Tidy /\ Single /\ Calm /\ Single'
      BY <1>2, <1>3, SingleNow DEF Tidy
    <3>2. f.mode = last
      <4>1. InFlight(f) \/ f.fn \in Works
        BY <1>1, <2>2 DEF InFlight, Works
      <4> QED
        BY <1>1, <3>1, <4>1, CalmNow DEF ModeInv, ModesOK, WorkOK, Calm, Upset
    <3>3. nodes \subseteq Screens
      BY DEF DataOK
    <3>4. ASSUME OnOne PROVE nodes' = {OnScreen(last)}
      BY <1>2, <2>2, <3>2, <3>3, <3>4 DEF OnOne, NodesAfter, OnScreen, OffScreen, Screens
    <3>5. ASSUME last = "COORDINATION" PROVE ~Exiting' /\ nodes' = Screens
      <4>1. ~Exiting
        BY <1>1, <1>5, <3>1, <3>5 DEF FollowInv, LeftOK
      <4>2. ~Exiting'
        BY <1>1, <1>4, <1>6, <4>1, ExitingSame
      <4>3. "main" \in nodes
        BY <3>1, <3>5, <4>1 DEF FollowInv, NodesOK, Screens
      <4> QED
        BY <1>2, <2>2, <3>2, <3>3, <3>5, <4>2, <4>3 DEF NodesAfter, Screens
    <3> QED
      BY <1>2, <3>4, <3>5 DEF OnOne
  <2> QED
    BY <1>1, <2>1, <2>2
<1> QED
  BY <1>7, <1>8, <1>9, <1>10, <1>11 DEF FollowInv

\* The runner sets the panels.
LEMMA RunnerFollow ==
  ASSUME TypeInv, ModeInv, FollowInv, TurnOff \/ TurnOn \/ TurnOnMain \/ TurnOnSub
  PROVE  FollowInv'
<1> USE DEF TypeInv
<1> DEFINE r == "runner"
           f == Top(r)
           g == [f EXCEPT !.pc = "on"]
<1>0. r \in Threads
  BY DEF Threads
<1>1. /\ stack[r] # <<>> /\ f \in Held /\ f \in FramesOf(r) /\ f.fn \in {"offOn", "onMain", "onSub"}
      /\ TurnOff => f.fn = "offOn" /\ HeldBy({Done, g}, {f})
      /\ TurnOn => f.fn = "offOn" /\ f.pc = "on"
      /\ TurnOnMain => f.fn = "onMain"
      /\ TurnOnSub => f.fn = "onSub"
      /\ TurnOff \/ HeldBy({Done}, {f})
      /\ (\E fs : Moves(r, fs)) /\ QueueOK'
  BY <1>0, TurnOffEffect, TurnOnEffect, FrameInHeld
<1>2. /\ UNCHANGED <<last, nodes, onBoot>> /\ upset' = upset
      /\ TurnOff => screenId' = OffScreen(f.mode) /\ lit' = lit \ {screenId'}
      /\ TurnOn => screenId' = OnScreen(f.mode) /\ lit' \in {lit, lit \cup {screenId'}}
      /\ TurnOnMain => screenId' = "main" /\ lit' \in {lit, lit \cup {"main"}}
      /\ TurnOnSub => screenId' = screenId /\ lit' = IF f.flag THEN lit \cup {"sub"} ELSE lit
  BY DEF TurnOff, TurnOn, TurnOnMain, TurnOnSub, MainOn, modeVars, bootVars
<1>3. Booted' => Booted
  BY <1>0, <1>1, <1>2, BootedStays
<1>4. PICK A : /\ HeldBy(A, {f}) /\ A \subseteq {Done, g} /\ A \in {{Done}, {Done, g}}
               /\ TurnOff => g \in A
               /\ ~TurnOff => g \notin A \/ g = Done
  <2>1. CASE TurnOff
    BY <1>1, <2>1
  <2>2. CASE ~TurnOff
    BY <1>1, <2>2
  <2> QED
    BY <2>1, <2>2
<1>5. /\ g.fn = f.fn /\ g.pc = "on" /\ g.mode = f.mode /\ Done.fn = "done" /\ Done.pc = "count"
      /\ f.fn = "offOn" => f.mode \in {"MAIN", "SUB"}
      /\ f.fn # "offOn" => f.mode = "COORDINATION"
      /\ f.pc # "exitMode"
  BY <1>1 DEF FramesOf, FrameType, FrameOK, ModeFits, PcsOf, Done, Frame
<1>6. Single' => f.mode = last
  BY <1>1, <1>2, SingleNow DEF ModeInv, WorkOK, Works
<1> HIDE DEF g
<1>7. /\ Silent(Done) /\ ~Lamp(Done) /\ ~Opens(Done)
      /\ \A h \in {f, g} : ~Shows(h) /\ ~Leaves(h) /\ ~Opens(h) /\ ~Away(h)
      /\ Busy(f)
      /\ f.fn = "offOn" => Moving(g) /\ ~Lights(f) /\ ~Lamp(g)
      /\ f.fn = "onMain" => ~Moving(f) /\ ~Darkens(f) /\ ~Lights(f)
      /\ f.fn = "onSub" => ~Moving(f) /\ ~Darkens(f) /\ Lamp(f)
      /\ f.pc = "on" => ~Darkens(f)
  BY <1>1, <1>5 DEF Silent, Moving, Darkens, Lights, Shows, Busy, Away, Leaves, Lamp, Opens,
       Begun, InFlight, Works
<1>8. \A h \in A \cup {f} : ~Leaves(h)
  BY <1>4, <1>7 DEF Silent
<1>9. Single' => (OnOne <=> f.fn = "offOn") /\ (last = "COORDINATION" <=> f.fn # "offOn")
  BY <1>5, <1>6 DEF OnOne
<1>10. ScreenOK'
  <2>1. Single' /\ OnOne =>
           \/ screenId' = OnScreen(last)
           \/ \E a \in A : Moving(a)
    BY <1>1, <1>2, <1>4, <1>6, <1>7, <1>9
  <2> QED
    BY <1>2, <1>4, <2>1, ScreenKept DEF FollowInv
<1>11. OffOK'
  <2>1. ASSUME Single', OnOne
        PROVE  \/ OffScreen(last) \notin lit'
               \/ (OffScreen(last) \in lit' => OffScreen(last) \in lit) /\ ~Darkens(f)
    <3>1. TurnOff \/ TurnOn
      BY <1>1, <1>9, <2>1
    <3>2. OnScreen(last) # OffScreen(last)
      BY DEF OnScreen, OffScreen
    <3> QED
      BY <1>1, <1>2, <1>6, <1>7, <2>1, <3>1, <3>2
  <2> QED
    BY <1>2, <1>3, <1>4, <2>1, OffKept DEF FollowInv
<1>12. LeftOK'
  <2>1. \E b \in {f} : Busy(b)
    BY <1>7
  <2> QED
    BY <1>1, <1>2, <1>4, <1>8, <2>1, LeftKept DEF FollowInv
<1>13. SubOK'
  <2>1. ASSUME Awake'
        PROVE  \/ "sub" \in lit'
               \/ ("sub" \in lit => "sub" \in lit') /\ ~Lights(f)
    <3>1. Single' /\ last = "COORDINATION" /\ Awake
      BY <1>2, <2>1, SingleNow
    <3>2. CASE TurnOnMain
      BY <1>1, <1>2, <1>7, <3>2
    <3>3. CASE TurnOnSub
      <4>1. f.flag = TRUE
        BY <1>1, <1>7, <3>1, <3>3 DEF FollowInv, LampOK
      <4> QED
        BY <1>2, <3>3, <4>1
    <3> QED
      BY <1>1, <1>9, <3>1, <3>2, <3>3
  <2> QED
    BY <1>1, <1>2, <1>4, <1>8, <2>1, SubKept DEF FollowInv
<1>14. LampOK' /\ AwayOK'
  <2>1. Awake' => \A a \in A : ~Lamp(a)
    <3>1. Awake' => Single' /\ last = "COORDINATION"
      BY <1>2, SingleNow
    <3> QED
      BY <1>1, <1>4, <1>7, <1>9, <3>1
  <2>2. \A a \in A : ~Away(a)
    BY <1>4, <1>7 DEF Silent
  <2>3. \A b \in {f} : ~Opens(b)
    BY <1>7
  <2> QED
    BY <1>1, <1>2, <1>4, <2>1, <2>2, <2>3, LampKept, AwayKept DEF FollowInv
<1>15. NodesOK'
  <2>1. \A b \in {f} : ~Shows(b)
    BY <1>7
  <2> QED
    BY <1>1, <1>2, <1>3, <1>4, <1>8, <2>1, NodesKept DEF FollowInv
<1> QED
  BY <1>10, <1>11, <1>12, <1>13, <1>14, <1>15 DEF FollowInv

LEMMA ShownFollow ==
  ASSUME TypeInv, ModeInv, PowerOK, FollowInv, Shown
  PROVE  FollowInv'
<1>1. CASE TakeTask
  <2>1. /\ "runner" \in Threads /\ HeldBy({}, {}) /\ QueueOK' /\ \E fs : Moves("runner", fs)
    BY <1>1, TakeTaskEffect DEF TypeInv, Threads
  <2>2. UNCHANGED <<last, panelVars, onBoot>> /\ upset' = upset
    BY <1>1 DEF TakeTask, modeVars, bootVars
  <2>3. Booted' => Booted
    BY <2>1, <2>2, BootedStays DEF TypeInv
  <2> QED
    BY <2>1, <2>2, <2>3, SilentKept DEF TypeInv
<1> QED
  BY <1>1, StartFollow, BootFollow, PostFollow, FinishFollow, RunnerFollow DEF Shown

\* The first half of an exit from the coordination mode
LEMMA ExitSubFollow ==
  ASSUME TypeInv, ModeInv, FollowInv, NEW t \in Threads, ExitSub(t)
  PROVE  FollowInv'
<1> USE DEF TypeInv
<1> DEFINE f == Top(t)
           g == [f EXCEPT !.pc = "exitMode"]
<1>1. /\ stack[t] # <<>> /\ f \in FramesOf(t) /\ f \in Held /\ f.fn \in {"suspend", "cast"}
      /\ f.pc = "exit" /\ HeldBy({g}, {f}) /\ QueueOK' /\ \E fs : Moves(t, fs)
  BY ExitSubEffect, FrameInHeld
<1>2. /\ UNCHANGED <<last, screenId, onBoot>> /\ lit' = lit \ {"sub"} /\ nodes' = nodes \ {"sub"}
      /\ upset \subseteq upset'
      /\ ExitRaces(t) => "exitRaces" \in upset'
  BY NoteGrows DEF ExitSub, SubOff, modeVars, bootVars, Note
<1>3. g.fn = f.fn /\ g.pc = "exitMode"
  BY <1>1 DEF FramesOf, FrameType
<1> HIDE DEF g
<1>4. /\ g \in Held' /\ Leaves(g) /\ ~Busy(g) /\ ~Lamp(g) /\ ~Away(g)
      /\ ~Opens(f) /\ ~Shows(f)
  BY <1>1, <1>3 DEF HeldBy, Leaves, Busy, InFlight, Works, Lamp, Away, Opens, Shows
<1>5. Exiting'
  <2>1. \A h \in {queue'[i] : i \in DOMAIN queue'} : ~Leaves(h)
    BY <1>1 DEF QueueOK, Tasks, Leaves, FrameOK, PcsOf
  <2> QED
    BY <1>4, <2>1 DEF Held, Exiting, Leaves
<1>6. ASSUME Single'
      PROVE  last = "COORDINATION" /\ \A h \in Held : ~Busy(h) /\ ~Shows(h)
  <2>1. last = "COORDINATION" /\ ~Changing
    BY <1>2, <1>6 DEF Single, Upset, ExitRaces
  <2>2. \A h \in Held : ~InFlight(h) /\ h.fn \notin {"offOn", "onMain", "onSub"}
    BY <2>1, NoneUnfinished DEF Changing
  <2>3. ASSUME NEW h \in Held PROVE h.fn # "trigger"
    <3>1. FrameOK(h)
      BY FrameInHeld
    <3>2. h.fn = "trigger" => h.mode = last
      BY <1>2, <1>6, SingleNow DEF ModeInv, WorkOK, Works
    <3> QED
      BY <2>1, <3>1, <3>2 DEF FrameOK, ModeFits
  <2>4. \A h \in Held : ~Busy(h)
    BY <2>2, <2>3 DEF Busy, Works
  <2>5. \A h \in Held : Shows(h) => Busy(h)
    BY DEF Shows, Busy, InFlight, Works
  <2> QED
    BY <2>1, <2>4, <2>5
<1>7. ScreenOK' /\ OffOK'
  BY <1>2, <1>6 DEF ScreenOK, OffOK, OnOne
<1>8. LeftOK'
  BY <1>1, <1>2, <1>4, <1>6 DEF LeftOK, HeldBy, Busy, InFlight, Works
<1>9. SubOK'
  BY <1>5 DEF SubOK
<1>10. LampOK' /\ AwayOK'
  BY <1>1, <1>2, <1>4, LampKept, AwayKept DEF FollowInv
<1>11. NodesOK'
  <2> SUFFICES ASSUME Tidy'
               PROVE  last = "COORDINATION" /\ nodes' = {"main"}
    BY <1>2, <1>5 DEF NodesOK, OnOne
  <2>1. Booted
    BY <1>1, <1>2, BootedStays DEF Tidy
  <2>2. Tidy /\ Single'
    BY <1>2, <2>1, SingleNow
  <2>3. nodes \in {{"main"}, Screens}
    BY <1>6, <2>2 DEF FollowInv, NodesOK
  <2> QED
    BY <1>2, <1>6, <2>2, <2>3 DEF Screens
<1> QED
  BY <1>7, <1>8, <1>9, <1>10, <1>11 DEF FollowInv

\* The second half
LEMMA ExitModeFollow ==
  ASSUME TypeInv, ModeInv, FollowInv, NEW t \in Threads, ExitMode(t)
  PROVE  FollowInv'
<1> USE DEF TypeInv
<1> DEFINE f == Top(t)
<1>1. /\ stack[t] # <<>> /\ f \in Held /\ f.pc = "exitMode" /\ QueueOK' /\ \E fs : Moves(t, fs)
  BY ExitModeEffect, FrameInHeld
<1>2. /\ UNCHANGED <<panelVars, onBoot>> /\ last' = GetModeMatchStatus /\ upset \subseteq upset'
      /\ ExitRaces(t) => "exitRaces" \in upset'
      /\ GetModeMatchStatus # "MAIN" => "exitFolded" \in upset'
  BY DEF ExitMode, bootVars
<1>3. Exiting
  BY <1>1, ExitingHeld DEF Leaves
<1>4. ASSUME Single'
      PROVE  /\ last' = "MAIN" /\ last = "COORDINATION" /\ Single
             /\ screenId = "main" /\ "sub" \notin lit
  <2>1. last' = "MAIN" /\ last = "COORDINATION"
    BY <1>2, <1>4 DEF Single, Upset, ExitRaces
  <2>2. Single /\ Calm
    BY <1>2, <1>4, SingleNow
  <2>3. "sub" \notin lit /\ \A h \in Held : ~Busy(h)
    BY <1>3, <2>1, <2>2 DEF FollowInv, LeftOK
  <2>4. \A h \in Held : ~ShowsMain(h)
    BY <2>3 DEF Busy, ShowsMain, InFlight, Works
  <2> QED
    BY <2>1, <2>2, <2>3, <2>4 DEF ModeInv, CoordOK
<1>5. ScreenOK' /\ OffOK'
  BY <1>2, <1>4 DEF ScreenOK, OffOK, OnScreen, OffScreen, panelVars
<1>6. LeftOK' /\ SubOK' /\ LampOK' /\ AwayOK'
  BY <1>4 DEF LeftOK, SubOK, LampOK, AwayOK, Awake
<1>7. NodesOK'
  <2> SUFFICES ASSUME Tidy'
               PROVE  last' = "MAIN" /\ nodes' = {"main"}
    BY DEF NodesOK, OnOne, OnScreen
  <2>1. Booted
    BY <1>1, <1>2, BootedStays DEF Tidy
  <2>2. Tidy /\ Single'
    BY <1>2, <2>1, SingleNow
  <2> QED
    BY <1>2, <1>3, <1>4, <2>2 DEF FollowInv, NodesOK, panelVars
<1> QED
  BY <1>5, <1>6, <1>7 DEF FollowInv

\* While the runner has no task at hand, no panel is off without one being next.
LEMMA OffOnIsOff ==
  ASSUME TypeInv, stack["runner"] = <<>>, NEW h \in Held, h.fn = "offOn"
  PROVE  h.pc = "off"
<1>1. CASE h \in {queue[i] : i \in DOMAIN queue}
  BY <1>1 DEF TypeInv, QueueOK, Tasks
<1>2. ASSUME NEW t \in Threads, h \in Frames(t)
      PROVE  FALSE
  <2>1. h \in FramesOf(t)
    BY <1>2, FrameInHeld DEF TypeInv
  <2>2. t = "runner"
    BY <2>1 DEF FramesOf, CallsOf, Threads
  <2> QED
    BY <1>2, <2>2, RestFacts DEF TypeInv
<1> QED
  BY <1>1, <1>2 DEF Held

\* A power call turns the panel on, or off.
LEMMA SetPanelFollow ==
  ASSUME TypeInv, ModeInv, FollowInv, SetPanel
  PROVE  FollowInv'
<1> USE DEF TypeInv
<1> DEFINE p == "power"
           f == Top(p)
           g == [f EXCEPT !.pc = "recover"]
           k == Head(queue)
<1>0. p \in Threads
  BY DEF Threads
<1>1. /\ stack["runner"] = <<>> /\ stack[p] # <<>> /\ f \in FramesOf(p) /\ f \in Held
      /\ f.pc = "wait" /\ f.fn \in {"suspend", "resume"}
      /\ k.fn = "panel" /\ k.flag = (f.fn = "resume")
      /\ HeldBy({}, {k, f}) \/ (f.fn = "suspend" /\ HeldBy({g}, {k, f}))
      /\ QueueOK' /\ \E fs : Moves(p, fs)
  BY <1>0, SetPanelEffect, FrameInHeld
<1>2. k \in Held
  <2>1. queue # <<>>
    BY DEF SetPanel
  <2>2. 1 \in DOMAIN queue /\ k = queue[1]
    BY <2>1 DEF QueueOK
  <2> QED
    BY <2>2 DEF Held
<1>3. /\ UNCHANGED <<last, screenId, nodes, onBoot>> /\ upset' = upset
      /\ lit' = IF k.flag THEN lit \cup ({screenId} \cap Screens) ELSE lit \ {screenId}
  BY DEF SetPanel, modeVars, bootVars
<1>4. Booted' => Booted
  BY <1>0, <1>1, <1>3, BootedStays
<1>5. k.pc = "set" /\ g.fn = f.fn /\ g.pc = "recover"
  <2>1. FrameOK(k)
    BY <1>2, FrameInHeld
  <2> QED
    BY <1>1, <2>1 DEF FrameOK, PcsOf, FramesOf, FrameType
<1> HIDE DEF g, k
<1>6. PICK A : HeldBy(A, {k, f}) /\ (A = {} \/ (A = {g} /\ f.fn = "suspend"))
  BY <1>1
<1>7. /\ \A h \in A \cup {k, f} : ~Leaves(h) /\ ~Moving(h) /\ ~Darkens(h) /\ ~Shows(h) /\ ~Busy(h)
                                 /\ ~Lights(h) /\ ~Lamp(h) /\ ~Opens(h)
      /\ \A a \in A : Away(a) => Away(f)
  BY <1>1, <1>5, <1>6 DEF Leaves, Moving, Darkens, Shows, Busy, Lights, Lamp, Opens, Away, Begun,
     InFlight, Works
<1>8. ScreenOK'
  BY <1>3, <1>6, <1>7, ScreenKept DEF FollowInv
<1>9. OffOK'
  <2>1. CASE screenId # OffScreen(last) \/ ~k.flag
    <3>1. OffScreen(last) \in lit' => OffScreen(last) \in lit
      BY <1>3, <2>1
    <3> QED
      BY <1>3, <1>4, <1>6, <1>7, <3>1, OffKept DEF FollowInv
  <2>2. CASE screenId = OffScreen(last)
    <3> SUFFICES ASSUME Single', OnOne PROVE \E h \in Held' : Darkens(h)
      BY <1>3 DEF OffOK, OnOne, Darkens, Begun
    <3>1. screenId # OnScreen(last)
      BY <2>2 DEF OnScreen, OffScreen
    <3>2. PICK h \in Held : Moving(h)
      BY <1>3, <3>1, SingleNow DEF FollowInv, ScreenOK
    <3>3. h.fn = "offOn" => h.pc = "off"
      BY <1>1, OffOnIsOff
    <3>4. Darkens(h)
      BY <3>2, <3>3 DEF Moving, Darkens
    <3>5. h \in Held'
      BY <1>6, <1>7, <3>2 DEF HeldBy
    <3> QED
      BY <3>4, <3>5
  <2> QED
    BY <2>1, <2>2
<1>10. LeftOK'
  <2>1. ASSUME Single', last = "COORDINATION", \A h \in Held : ~Busy(h)
        PROVE  "sub" \in lit' => "sub" \in lit
    <3>1. \A h \in Held : ~ShowsMain(h)
      BY <2>1 DEF Busy, ShowsMain, InFlight, Works
    <3>2. screenId = "main"
      BY <1>3, <2>1, <3>1, SingleNow DEF ModeInv, CoordOK
    <3> QED
      BY <1>3, <3>2
  <2> QED
    BY <1>1, <1>2, <1>3, <1>6, <1>7, <2>1, LeftKept DEF FollowInv
<1>11. SubOK'
  <2>1. CASE screenId # "sub" \/ k.flag
    <3>1. "sub" \in lit => "sub" \in lit'
      BY <1>3, <2>1
    <3>2. Awake' => \/ "sub" \in lit'
                    \/ \E a \in A : Lights(a)
                    \/ ("sub" \in lit => "sub" \in lit') /\ \A b \in {k, f} : ~Lights(b)
      BY <1>7, <3>1
    <3> QED
      BY <1>1, <1>3, <1>6, <1>7, <3>2, SubKept DEF FollowInv
  <2>2. CASE ~k.flag
    <3> SUFFICES ASSUME Awake' PROVE \E h \in Held' : Lights(h)
      BY DEF SubOK, Lights
    <3>1. Away(f)
      BY <1>1, <2>2 DEF Away
    <3>2. PICK h \in Held : Opens(h)
      BY <1>1, <1>3, <3>1, SingleNow DEF FollowInv, AwayOK
    <3>3. h \in Held' /\ Lights(h)
      BY <1>6, <1>7, <3>2 DEF HeldBy, Opens, Lights
    <3> QED
      BY <3>3
  <2> QED
    BY <2>1, <2>2
<1>12. LampOK' /\ AwayOK'
  BY <1>1, <1>2, <1>3, <1>6, <1>7, LampKept, AwayKept DEF FollowInv
<1>13. NodesOK'
  BY <1>1, <1>3, <1>4, <1>6, <1>7, NodesKept DEF FollowInv
<1> QED
  BY <1>8, <1>9, <1>10, <1>11, <1>12, <1>13 DEF FollowInv

LEMMA NoneChanges ==
  ASSUME TypeInv, ~Changing
  PROVE  \A h \in Held : h.fn # "change"
<1>1. \A t \in Threads : \A h \in Frames(t) : h.fn # "change"
  BY DEF Changing
<1>2. \A i \in DOMAIN queue : queue[i].fn # "change"
  BY DEF TypeInv, QueueOK, Tasks
<1> QED
  BY <1>1, <1>2 DEF Held

\* The boot animation has finished, and the panels are set.
LEMMA PowerInitFollow ==
  ASSUME TypeInv, ModeInv, FollowInv, PowerInit
  PROVE  FollowInv'
<1> USE DEF TypeInv
<1>1. /\ stack["boot"] = <<>> /\ HeldBy({BootFrame}, {}) /\ BootFrame \in Held' /\ QueueOK'
      /\ BootFrame.fn = "boot" /\ BootFrame.pc = "recover"
  BY PowerInitEffect DEF BootFrame, Frame, HeldBy
<1>2. /\ UNCHANGED <<last, screenId>> /\ upset \subseteq upset'
      /\ lit' = IF screenId = "none" THEN lit ELSE {screenId}
      /\ nodes' = IF screenId = "none" THEN nodes ELSE nodes \cap {screenId}
      /\ Changing => "bootRaces" \in upset'
      /\ last = "COORDINATION" => "bootBoth" \in upset'
      /\ screenId \in Screens \ nodes => "bootBare" \in upset'
  BY DEF PowerInit, modeVars
<1>3. ~Moving(BootFrame)
  BY <1>1 DEF Moving, Begun
<1>4. ScreenOK'
  BY <1>1, <1>2, ScreenKept DEF FollowInv
<1>5. Single' => last # "COORDINATION"
  BY <1>2 DEF Single, Upset
<1>6. LeftOK' /\ SubOK' /\ LampOK' /\ AwayOK'
  BY <1>2, <1>5, SingleNow DEF LeftOK, SubOK, LampOK, AwayOK
<1>7. ASSUME Single', OnOne
      PROVE  screenId = OnScreen(last)
  <2>1. ~Changing
    BY <1>2, <1>7 DEF Single, Upset
  <2>2. \A h \in Held : h.fn # "offOn" /\ h.fn # "change"
    BY <2>1, NoneUnfinished, NoneChanges DEF Changing
  <2>3. \A h \in Held : h.fn # "trigger"
    BY <1>1, TriggerOnBoot
  <2>4. \A h \in Held : ~Moving(h)
    BY <2>2, <2>3 DEF Moving, Begun
  <2> QED
    BY <1>2, <1>7, <2>4, SingleNow DEF FollowInv, ScreenOK
<1>8. OffOK'
  BY <1>2, <1>7 DEF OffOK, OnOne, OnScreen, OffScreen
<1>9. NodesOK'
  <2> SUFFICES ASSUME Tidy'
               PROVE  last # "COORDINATION" /\ (OnOne => nodes' = {OnScreen(last)})
    BY <1>2 DEF NodesOK, OnOne
  <2>1. Single' /\ screenId \notin Screens \ nodes
    BY <1>2 DEF Tidy, Upset
  <2> QED
    BY <1>2, <1>5, <1>7, <2>1 DEF OnScreen, Screens
<1> QED
  BY <1>4, <1>6, <1>8, <1>9 DEF FollowInv

\* The mode of the fold status is shown.
LEMMA BootExitFollow ==
  ASSUME TypeInv, ModeInv, ModeInv', FollowInv, RecoverWhenBootAnimationExit
  PROVE  FollowInv'
<1> USE DEF TypeInv
<1> DEFINE f == Top("boot")
           c == Change(GetModeMatchStatus)
<1>1. /\ stack["boot"] # <<>> /\ f \in FramesOf("boot") /\ f \in Held /\ f.fn = "boot"
      /\ c \in Dull \cap FramesOf("boot") /\ Trigger \in FramesOf("boot") /\ QueueOK'
      /\ HeldBy({c}, {f}) \/ HeldBy({Trigger}, {f})
  BY BootExitEffect, FrameInHeld DEF Threads
<1>2. UNCHANGED <<last, panelVars>> /\ upset \subseteq upset'
  BY DEF RecoverWhenBootAnimationExit, Note, modeVars
<1>3. Booted' => Booted
  BY <1>1 DEF Booted, Idle
<1>4. f.pc = "recover" /\ Trigger.fn = "trigger" /\ Trigger.pc = "post"
  BY <1>1 DEF FramesOf, FrameOK, PcsOf, Trigger, Frame
<1>5. Silent(f)
  BY <1>1, <1>4 DEF Silent, Moving, Begun, Lights, Shows, Busy, InFlight, Works, Away, Leaves
<1>6. CASE HeldBy({c}, {f})
  <2>1. Silent(c)
    BY <1>1 DEF Dull, FramesOf, FrameOK, PcsOf, Silent, Moving, Begun, Lights, Shows, Busy,
       InFlight, Works, Away, Leaves
  <2> HIDE DEF c
  <2> QED
    BY <1>1, <1>2, <1>3, <1>5, <1>6, <2>1, SilentKept
<1>7. CASE HeldBy({Trigger}, {f})
  <2>1. Single' => last # "COORDINATION"
    <3>1. Trigger.mode # "COORDINATION"
      BY <1>1, <1>4 DEF FramesOf, FrameOK, ModeFits
    <3>2. Trigger \in Held'
      BY <1>7 DEF HeldBy
    <3>3. Single' => Trigger.mode = last'
      BY <1>2, <1>4, <3>2, SingleNow DEF ModeInv, WorkOK, Works
    <3> QED
      BY <1>2, <3>1, <3>3
  <2>2. ~Awake'
    BY <1>2, <2>1, SingleNow
  <2>3. ~Moving(f) /\ ~Darkens(f) /\ ~Shows(f) /\ ~Leaves(f) /\ ~Leaves(Trigger)
    BY <1>4, <1>5 DEF Silent, Moving, Darkens, Leaves
  <2> QED
    BY <1>1, <1>2, <1>3, <1>7, <2>1, <2>2, <2>3, FollowKept
<1> QED
  BY <1>1, <1>6, <1>7

LEMMA PoweredFollow ==
  ASSUME TypeInv, ModeInv, ModeInv', FollowInv, Powered
  PROVE  FollowInv'
<1> USE DEF TypeInv
<1> DEFINE p == "power"
           f == Top(p)
           Same == UNCHANGED <<last, panelVars, onBoot>> /\ upset \subseteq upset'
\* What comes is of no suspend, or of one that goes on.
<1>1. ASSUME Same, QueueOK', NEW A, NEW B, HeldBy(A, B), B \subseteq Held,
             \E fs : Moves(p, fs),
             \A a \in A : Silent(a) \/ (Away(a) /\ a.pc # "exitMode" /\ \E b \in B : Away(b)),
             \A b \in B : Silent(b) \/ (Away(b) /\ b.pc # "exitMode")
      PROVE  FollowInv'
  <2>1. p \in Threads /\ p # "boot"
    BY DEF Threads
  <2>2. Booted' => Booted
    BY <1>1, <2>1, BootedStays
  <2> QED
    BY <1>1, <2>2, SilentKept
<1>2. \A h : h.fn \in {"suspend", "resume", "panel"} /\ h.pc # "exitMode" => Silent(h) \/ Away(h)
  BY DEF Silent, Moving, Begun, Lights, Shows, Busy, InFlight, Works, Leaves
<1>3. CASE PowerOff \/ PowerOn
  <2>1. PICK g \in FramesOf(p) :
          /\ PowerOff => g = PowerFrame("suspend", IF last = "COORDINATION" THEN "exit" ELSE "panel")
          /\ PowerOn => g = PowerFrame("resume", "panel")
          /\ Moves(p, <<g>>) /\ HeldBy({g}, {}) /\ QueueOK'
    BY <1>3, PowerKeyEffect
  <2>2. Same
    BY <1>3 DEF PowerOff, PowerOn, modeVars, bootVars
  <2>3. /\ g.fn \in {"suspend", "resume"} /\ g.pc \in {"exit", "panel"}
        /\ last = "COORDINATION" => ~Away(g)
    BY <1>3, <2>1 DEF PowerFrame, Frame, Away
  <2>4. /\ ~Leaves(g) /\ ~Busy(g) /\ ~Lamp(g)
        /\ Awake' => \A a \in {g} : Away(a) => \E b \in {} : Away(b)
    BY <2>2, <2>3, SingleNow DEF Leaves, Busy, InFlight, Works, Lamp
  <2>5. Booted' => Booted
    BY <2>1, <2>2, BootedStays DEF Threads
  <2>6. ASSUME NEW A, NEW B, A = {g}, B = {}
        PROVE  FollowInv'
    <3>1. HeldBy(A, B) /\ QueueOK'
      BY <2>1, <2>6
    <3>2. B \subseteq Held /\ (\A h \in A \cup B : ~Leaves(h)) /\ (\A a \in A : ~Busy(a) /\ ~Lamp(a))
      BY <2>4, <2>6
    <3>3. Awake' => (\A b \in B : ~Opens(b)) /\ \A a \in A : Away(a) => \E b \in B : Away(b)
      BY <2>4, <2>6
    <3> QED
      BY <2>2, <2>5, <2>6, <3>1, <3>2, <3>3, FollowKept
  <2> QED
    BY <2>6
<1>4. CASE PostPanel
  <2> DEFINE g == [f EXCEPT !.pc = "wait"]
             k == Frame("panel", "set", "UNKNOWN", f.flag)
  <2>1. /\ f \in Held /\ f \in FramesOf(p) /\ f.fn \in {"suspend", "resume"} /\ f.pc = "panel"
        /\ Moves(p, <<g>>) /\ HeldBy({k, g}, {f}) /\ QueueOK'
    BY <1>4, PostPanelEffect, FrameInHeld DEF Threads
  <2>2. g.fn = f.fn /\ g.pc = "wait" /\ k.fn = "panel" /\ k.pc = "set"
    BY <2>1 DEF FramesOf, FrameType, Frame
  <2>3. Same
    BY <1>4 DEF PostPanel, modeVars, bootVars
  <2>4. \E fs : Moves(p, fs)
    BY <2>1
  <2> HIDE DEF g, k
  <2>5. Silent(k) /\ (Away(g) => Away(f)) /\ g.pc # "exitMode" /\ f.pc # "exitMode"
    BY <1>2, <2>1, <2>2 DEF Away
  <2>6. (Silent(g) \/ Away(g)) /\ (Silent(f) \/ Away(f))
    BY <1>2, <2>1, <2>2, <2>5
  <2> QED
    BY <1>1, <2>1, <2>3, <2>4, <2>5, <2>6
<1>5. CASE RecoverDisplayMode
  <2> DEFINE c == Change(GetModeMatchStatus)
  <2>1. /\ f \in Held /\ f.fn = "suspend" /\ f.pc = "recover" /\ QueueOK'
        /\ c \in Dull \cap FramesOf(p) /\ (\E fs : Moves(p, fs))
        /\ HeldBy({}, {f}) \/ HeldBy({c}, {f})
    BY <1>5, RecoverEffect, FrameInHeld DEF Threads
  <2>2. Silent(c)
    BY <2>1 DEF Dull, FramesOf, FrameOK, PcsOf, Silent, Moving, Begun, Lights, Shows, Busy,
       InFlight, Works, Away, Leaves
  <2>3. Same
    BY <1>5 DEF RecoverDisplayMode, modeVars, bootVars
  <2>4. (Silent(f) \/ Away(f)) /\ f.pc # "exitMode"
    BY <1>2, <2>1
  <2> HIDE DEF c
  <2>5. CASE HeldBy({}, {f})
    BY <1>1, <2>1, <2>3, <2>4, <2>5
  <2>6. CASE HeldBy({c}, {f})
    BY <1>1, <2>1, <2>2, <2>3, <2>4, <2>6
  <2> QED
    BY <2>1, <2>5, <2>6
<1> QED
  BY <1>3, <1>4, <1>5, ExitSubFollow, ExitModeFollow, SetPanelFollow, PowerInitFollow,
     BootExitFollow DEF Powered

LEMMA FollowStep ==
  ASSUME FoldInv, FoldInv', FollowInv, [Next]_vars
  PROVE  FollowInv'
<1> USE DEF FoldInv
<1>1. CASE Next
  BY <1>1, NextCases, AsideFollow, ShownFollow, PoweredFollow DEF TypeInv
<1>2. CASE UNCHANGED vars
  <2>1. /\ UNCHANGED <<last, panelVars, onBoot, stack, queue>> /\ upset' = upset
    BY <1>2 DEF vars, modeVars, bootVars
  <2>2. Held' = Held
    BY <2>1 DEF Held, Frames
  <2>3. HeldBy({}, {}) /\ QueueOK /\ QueueOK' /\ (Booted' => Booted)
    BY <2>1, <2>2, BootedStays DEF HeldBy, TypeInv, QueueOK
  <2> QED
    BY <2>1, <2>3, SilentKept
<1> QED
  BY <1>1, <1>2

LEMMA InitFollow ==
  ASSUME Init
  PROVE  FollowInv
<1>1. Held = {} /\ last \in {"UNKNOWN", "MAIN", "SUB"}
  BY InitHeld
<1>2. stack = [t \in Threads |-> <<>>]
  BY DEF Init
<1>3. ~Exiting /\ Idle("boot")
  BY <1>2 DEF Exiting, Frames, Idle, Threads
<1>4. last \in {"MAIN", "SUB"} =>
        screenId = OnScreen(last) /\ (~onBoot => lit = {screenId} /\ nodes = {screenId})
  BY DEF Init, OnScreen
<1>5. LeftOK /\ SubOK /\ LampOK /\ AwayOK
  BY <1>1 DEF LeftOK, SubOK, LampOK, AwayOK, Awake
<1>6. ScreenOK /\ OffOK /\ NodesOK
  BY <1>1, <1>3, <1>4 DEF ScreenOK, OffOK, NodesOK, OnOne, Booted, Tidy, OnScreen, OffScreen
<1> QED
  BY <1>5, <1>6 DEF FollowInv

LEMMA FollowHolds == Spec => []FollowInv
<1>1. Init => FollowInv
  BY InitFollow
<1>2. FoldInv /\ FoldInv' /\ FollowInv /\ [Next]_vars => FollowInv'
  BY FollowStep
<1> QED
  BY <1>1, <1>2, FoldHolds, PTL DEF Spec

\* The power state goes stale on its way to a task only if it was read as off.
PromptOK == Single /\ ~Upset({"coordOff"}) => Prompt

LEMMA PromptStep ==
  ASSUME FoldInv, FollowInv, PromptOK, [Next]_vars
  PROVE  PromptOK'
<1> USE DEF FoldInv, TypeInv
<1>1. CASE UNCHANGED vars
  BY <1>1 DEF vars, PromptOK, Single, Prompt, Upset
<1>2. CASE Next
  <2>1. UpsetMore
    BY <1>2, UpsetStep
  <2> SUFFICES ASSUME Single', ~Upset({"coordOff"})', ~Prompt'
               PROVE  FALSE
    BY DEF PromptOK
  <2>2. Single /\ Calm /\ ~Upset({"coordOff"}) /\ Prompt
    <3>1. Single /\ Calm /\ ~Upset({"coordOff"})
      BY <2>1, SingleNow DEF UpsetMore, Upset
    <3> QED
      BY <3>1 DEF PromptOK
  <2>3. PICK t \in Threads : StaleBy(t)
    BY <2>1, <2>2 DEF UpsetMore, Prompt, Upset
  <2> DEFINE f == Top(t)
  <2>4. f \in Held /\ f.fn = "change" /\ f.pc = "postMain" /\ f.flag # TRUE
        /\ f.mode = "COORDINATION"
    BY <2>3, FrameInHeld, OnMainEffect DEF StaleBy
  <2>5. last = "COORDINATION"
    BY <2>2, <2>4 DEF ModeInv, ModesOK, InFlight, Single, Calm, Upset
  <2> QED
    BY <2>2, <2>4, <2>5 DEF FollowInv, LampOK, Awake, Lamp
<1> QED
  BY <1>1, <1>2

LEMMA PromptHolds == Spec => []PromptOK
<1>1. Init => PromptOK
  BY DEF Init, PromptOK, Prompt, Upset
<1>2. FoldInv /\ FollowInv /\ PromptOK /\ [Next]_vars => PromptOK'
  BY PromptStep
<1> QED
  BY <1>1, <1>2, FoldHolds, FollowHolds, PTL DEF Spec

\* Once every call has returned the panels that are lit on a device that is on, and
\* the display nodes on the tree, are those of the mode that the clients are told,
\* in whatever order the calls, the tasks of the runner (TurnOff, TurnOn, ...), the
\* power keys, the exits and the boot lit and darkened them, but for the cases that
\* the property names.
THEOREM FollowCorrect ==
  Spec => []PanelsFollowMode
<1>1. FoldInv /\ FollowInv /\ PromptOK => PanelsFollowMode
  <2> SUFFICES ASSUME FoldInv, FollowInv, PromptOK, Quiet, ~onBoot, last \in {"MAIN", "SUB", "COORDINATION"}
               PROVE  /\ deviceOn /\ ~wake =>
                           \/ lit = PanelsOf(last)
                           \/ Upset({"overlap", "coordOff", "exitFolded", "exitRaces",
                                     "bootRaces", "bootBoth"})
                      /\ \/ nodes = PanelsOf(last)
                         \/ Upset({"overlap", "fromSub", "exitFolded", "exitRaces", "bootRaces",
                                   "bootBoth", "bootBare"})
    BY DEF PanelsFollowMode
  <2> USE DEF FoldInv, FollowInv
  <2>1. Held = {}
    BY NoneHeld
  <2>2. \A t \in Threads : Frames(t) = {}
    BY <2>1 DEF Held
  <2>3. ~Exiting /\ Booted /\ ~TurningOn /\ stack["power"] = <<>>
    BY <2>2 DEF Exiting, Booted, TurningOn, Quiet, Idle, Threads
  <2>4. lit \subseteq Screens
    BY DEF TypeInv, DataOK
  <2>5. ASSUME deviceOn, ~Upset({"overlap", "coordOff", "exitFolded", "exitRaces", "bootRaces",
                                 "bootBoth"})
        PROVE  lit = PanelsOf(last)
    <3>1. Single /\ Calm /\ ~Upset({"coordOff"}) /\ ~Excused
      BY <2>5 DEF Upset, Single, Calm, Excused, PromptOK
    <3>2. screenId = OnScreen(last)
      BY <2>1, <3>1 DEF ScreenOK, OnOne, ModeInv, CoordOK, OnScreen
    <3>3. screenId \in lit
      BY <2>3, <2>5, <3>1, <3>2 DEF LitOK, OnScreen, Screens
    <3>4. CASE last \in {"MAIN", "SUB"}
      <4>1. OffScreen(last) \notin lit
        BY <2>1, <2>3, <3>1, <3>4 DEF OffOK, OnOne
      <4> QED
        BY <2>4, <3>2, <3>3, <3>4, <4>1 DEF OnScreen, OffScreen, PanelsOf, Screens
    <3>5. CASE last = "COORDINATION"
      <4>1. "sub" \in lit
        BY <2>1, <2>3, <3>1, <3>5 DEF SubOK, Awake
      <4> QED
        BY <2>4, <3>2, <3>3, <3>5, <4>1 DEF OnScreen, PanelsOf, Screens
    <3> QED
      BY <3>4, <3>5
  <2>6. ASSUME ~Upset({"overlap", "fromSub", "exitFolded", "exitRaces", "bootRaces", "bootBoth",
                       "bootBare"})
        PROVE  nodes = PanelsOf(last)
    <3>1. Tidy
      BY <2>3, <2>6 DEF Upset, Tidy, Single
    <3> QED
      BY <2>1, <2>3, <3>1 DEF NodesOK, OnOne, OnScreen, PanelsOf, Screens
  <2> QED
    BY <2>5, <2>6
<1> QED
  BY <1>1, FoldHolds, FollowHolds, PromptHolds, PTL
=============================================================================
