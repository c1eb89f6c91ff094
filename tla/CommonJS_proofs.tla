--------------------------- MODULE CommonJS_proofs ---------------------------
(***************************************************************************)
(* Proofs about CommonJS: for any sets of files, any nesting of their      *)
(* evaluations and any bound on loads, the cache follows the evaluation    *)
(* and a file that completed keeps its value.                              *)
(*                                                                         *)
(* CacheFollowsEvaluation is not inductive: when a body returns, the value *)
(* cached is that of the load its frame remembers, which must be the       *)
(* latest load of the file.  FramesCurrent adds that.                      *)
(***************************************************************************)
EXTENDS CommonJS, SequenceTheorems, TLAPS

Frame == [file : JsFile, load : 1..MaxLoads, exports : {"inner", "own"}]

\* Every evaluation in progress is the latest load of its file (.cpp:121-173).
FramesCurrent == \A i \in DOMAIN stack : stack[i].load = loads[stack[i].file]

IInv == TypeOK /\ FramesCurrent /\ CacheFollowsEvaluation

-----------------------------------------------------------------------------
(* Sequences *)

\* The members of a sequence are what its indices map to.
LEMMA Members ==
    ASSUME NEW S, NEW s \in Seq(S)
    PROVE  /\ DOMAIN s = 1..Len(s)
           /\ ToSet(s) = {s[i] : i \in 1..Len(s)}
           /\ \A i \in 1..Len(s) : s[i] \in S
  BY ElementOfSeq, LenProperties DEF ToSet

\* Append keeps the elements and adds one.
LEMMA Appended ==
    ASSUME NEW S, NEW s \in Seq(S), NEW x \in S
    PROVE  /\ Append(s, x) \in Seq(S)
           /\ Len(Append(s, x)) = Len(s) + 1
           /\ Append(s, x)[Len(s) + 1] = x
           /\ \A i \in 1..Len(s) : Append(s, x)[i] = s[i]
  OBVIOUS

\* Front drops the last element and nothing else.
LEMMA Fronted ==
    ASSUME NEW S, NEW s \in Seq(S), s # << >>
    PROVE  /\ Front(s) \in Seq(S)
           /\ Len(s) \in Nat \ {0}
           /\ Len(Front(s)) = Len(s) - 1
           /\ \A i \in 1..(Len(s) - 1) : Front(s)[i] = s[i]
           /\ Last(s) = s[Len(s)]
           /\ Last(s) \in S
  <1>1. Len(s) \in Nat \ {0}
    BY EmptySeq, LenProperties
  <1>2. \A i \in 1..Len(s) : s[i] \in S
    BY ElementOfSeq
  <1>3. Last(s) = s[Len(s)] /\ Last(s) \in S
    BY <1>1, <1>2 DEF Last
  <1>4. /\ Front(s) \in Seq(S)
        /\ Len(Front(s)) = Len(s) - 1
        /\ \A i \in 1..(Len(s) - 1) : Front(s)[i] = s[i]
    <2> DEFINE n == Len(s) - 1
    <2>1. n \in Nat /\ \A i \in 1..n : s[i] \in S
      BY <1>1, <1>2
    <2>2. /\ SubSeq(s, 1, n) \in Seq(S)
          /\ Len(SubSeq(s, 1, n)) = IF 1 <= n THEN n - 1 + 1 ELSE 0
          /\ \A i \in 1..(n - 1 + 1) : SubSeq(s, 1, n)[i] = s[1 + i - 1]
      <3> HIDE DEF n
      <3> QED BY <2>1, SubSeqProperties
    <2>3. Front(s) = SubSeq(s, 1, n)
      BY DEF Front
    <2>4. /\ Front(s) \in Seq(S)
          /\ Len(Front(s)) = n
          /\ \A i \in 1..n : Front(s)[i] = s[i]
      <3> HIDE DEF n
      <3>1. /\ (IF 1 <= n THEN n - 1 + 1 ELSE 0) = n
            /\ \A i \in 1..n : i \in 1..(n - 1 + 1) /\ 1 + i - 1 = i
        BY <2>1
      <3> QED BY <2>2, <2>3, <3>1
    <2>5. QED BY <2>4
  <1>5. QED BY <1>1, <1>3, <1>4

\* Replacing one element keeps the length and the others.
LEMMA Replaced ==
    ASSUME NEW S, NEW s \in Seq(S), NEW k \in 1..Len(s), NEW x \in S
    PROVE  /\ [s EXCEPT ![k] = x] \in Seq(S)
           /\ Len([s EXCEPT ![k] = x]) = Len(s)
           /\ [s EXCEPT ![k] = x][k] = x
           /\ \A i \in 1..Len(s) : i # k => [s EXCEPT ![k] = x][i] = s[i]
  OBVIOUS

-----------------------------------------------------------------------------
(* Type correctness *)

\* What the loader knows of the innermost evaluation, and of the rest.
LEMMA Innermost ==
    ASSUME TypeOK, stack # << >>
    PROVE  /\ Len(stack) \in Nat \ {0}
           /\ Last(stack) = stack[Len(stack)]
           /\ Last(stack) \in Frame
           /\ Front(stack) \in Seq(Frame)
           /\ Len(Front(stack)) = Len(stack) - 1
           /\ \A i \in 1..(Len(stack) - 1) : Front(stack)[i] = stack[i]
  <1>1. stack \in Seq(Frame)
    BY DEF TypeOK, Frame
  <1>2. QED BY <1>1, Fronted

LEMMA TypeInit == Init => TypeOK
  <1>1. << >> \in Seq([file : JsFile, load : 1..MaxLoads, exports : {"inner", "own"}])
    BY EmptySeq
  <1> SUFFICES ASSUME Init PROVE TypeOK
    OBVIOUS
  <1>2. stack \in Seq([file : JsFile, load : 1..MaxLoads,
                      exports : {"inner", "own"}])
    BY <1>1 DEF Init
  <1>3. /\ cache \in [File -> Values \cup {NoValue}]
        /\ exported \in [JsFile -> Values \cup {NoValue}]
    BY DEF Init
  <1>4. loads \in [File -> 0..MaxLoads]
    BY FileAssumption DEF Init
  <1>5. builtin \in [Bare -> SUBSET {"umd", "builtin"}]
    BY DEF Init
  <1>6. QED BY <1>2, <1>3, <1>4, <1>5 DEF Init, TypeOK

LEMMA TypeNext == TypeOK /\ [Next]_vars => TypeOK'
  <1> SUFFICES ASSUME TypeOK, [Next]_vars PROVE TypeOK'
    OBVIOUS
  <1> USE FileAssumption
  <1>1. ASSUME NEW f \in File, Hit(f) PROVE TypeOK'
    <2>1. result' \in [file : File, got : Values, circular : BOOLEAN]
      BY <1>1 DEF TypeOK, Hit, Return
    <2>2. QED BY <1>1, <2>1 DEF TypeOK, Hit, Defined, Undefined
  <1>2. ASSUME NEW f \in JsFile, Begin(f) PROVE TypeOK'
    <2> DEFINE n == loads[f] + 1
    <2>1. n \in 1..MaxLoads /\ f \in File
      BY <1>2 DEF Begin, TypeOK, File
    <2>2. stack' \in Seq(Frame)
      <3>1. stack \in Seq(Frame)
        BY DEF TypeOK, Frame
      <3>2. [file |-> f, load |-> n, exports |-> "inner"] \in Frame
        BY <2>1 DEF Frame
      <3>3. stack' = Append(stack, [file |-> f, load |-> n, exports |-> "inner"])
        BY <1>2 DEF Begin
      <3>4. QED BY <3>1, <3>2, <3>3, Appended
    <2>3. cache' \in [File -> Values \cup {NoValue}]
      BY <1>2, <2>1 DEF Begin, CachedEarly, TypeOK, Value, Values
    <2>4. loads' \in [File -> 0..MaxLoads]
      BY <1>2, <2>1 DEF Begin, TypeOK
    <2>5. QED BY <1>2, <2>2, <2>3, <2>4 DEF TypeOK, Frame, Begin, Undefined
  <1>3. ASSUME NEW f \in JsFile, CompileError(f) PROVE TypeOK'
    BY <1>3 DEF TypeOK, CompileError, Undefined, File
  <1>4. ASSUME NEW f \in Native, LoadNative(f) PROVE TypeOK'
    <2> DEFINE n == loads[f] + 1
    <2>1. n \in 1..MaxLoads /\ f \in File
      BY <1>4 DEF LoadNative, TypeOK, File
    <2>2. loads' \in [File -> 0..MaxLoads]
      BY <1>4, <2>1 DEF LoadNative, TypeOK
    <2>3. CASE UNCHANGED <<cache, result>>
      BY <1>4, <2>2, <2>3 DEF TypeOK, LoadNative, Undefined
    <2>4. CASE /\ cache' = [cache EXCEPT ![f] = Value("native", f, n)]
               /\ Return(f, Value("native", f, n))
      <3>1. Value("native", f, n) \in Values
        BY <2>1 DEF Value, Values
      <3>2. cache' \in [File -> Values \cup {NoValue}]
        BY <2>4, <3>1 DEF TypeOK
      <3>3. result' \in [file : File, got : Values, circular : BOOLEAN]
        BY <2>1, <2>4, <3>1 DEF Return
      <3>4. QED BY <1>4, <2>2, <3>2, <3>3 DEF TypeOK, LoadNative, Undefined
    <2>5. QED BY <1>4, <2>3, <2>4 DEF LoadNative
  <1>5. ASSUME Assign PROVE TypeOK'
    <2>1. stack' \in Seq(Frame)
      <3>1. stack # << >>
        BY <1>5 DEF Assign
      <3>2. stack \in Seq(Frame) /\ Len(stack) \in 1..Len(stack)
        BY <3>1, Innermost DEF TypeOK, Frame
      <3>3. [stack[Len(stack)] EXCEPT !.exports = "own"] \in Frame
        BY <3>1, Innermost DEF Frame
      <3>4. stack' = [stack EXCEPT ![Len(stack)] =
                         [stack[Len(stack)] EXCEPT !.exports = "own"]]
        BY <1>5, <3>2 DEF Assign
      <3>5. QED BY <3>2, <3>3, <3>4, Replaced
    <2>2. QED BY <1>5, <2>1 DEF TypeOK, Frame, Assign, Undefined
  <1>6. ASSUME Finish PROVE TypeOK'
    <2> DEFINE frame == Last(stack)
    <2>1. frame \in Frame /\ stack' \in Seq(Frame)
      BY <1>6, Innermost DEF Finish
    <2>2. /\ Value("outer", frame.file, frame.load) \in Values
          /\ Value(frame.exports, frame.file, frame.load) \in Values
      BY <2>1 DEF Frame, Value, Values, File
    <2>3. cache' \in [File -> Values \cup {NoValue}]
      BY <1>6, <2>2 DEF Finish, FinalCache, TypeOK
    <2>4. exported' \in [JsFile -> Values \cup {NoValue}]
      BY <1>6, <2>2 DEF Finish, TypeOK
    <2>5. result' \in [file : File, got : Values, circular : BOOLEAN]
      BY <1>6, <2>1, <2>2 DEF Finish, Frame, File
    <2>6. QED
      BY <1>6, <2>1, <2>3, <2>4, <2>5 DEF TypeOK, Frame, Finish, Undefined
  <1>7. ASSUME Throw PROVE TypeOK'
    <2>1. Last(stack) \in Frame /\ stack' \in Seq(Frame)
      BY <1>7, Innermost DEF Throw
    <2>2. cache' \in [File -> Values \cup {NoValue}]
      BY <1>7 DEF Throw, TypeOK
    <2>3. QED BY <1>7, <2>1, <2>2 DEF TypeOK, Frame, Throw, Defined, Undefined
  <1>8. ASSUME NEW b \in Bare, RequireBare(b) PROVE TypeOK'
    <2>1. builtin' \in [Bare -> SUBSET {"umd", "builtin"}]
      BY <1>8 DEF RequireBare, TypeOK
    <2>2. QED BY <1>8, <2>1 DEF TypeOK, RequireBare, Defined, Undefined
  <1>9. CASE UNCHANGED vars
    BY <1>9 DEF TypeOK, vars
  <1>10. QED
    BY <1>1, <1>2, <1>3, <1>4, <1>5, <1>6, <1>7, <1>8, <1>9 DEF Next

\* The loader keeps its state well formed: in particular no file is loaded more
\* often than a load number exists for, and require() returns only values a load
\* produced (CommonJSLoader.cpp:33-198).
THEOREM TypeCorrect == Spec => []TypeOK
  <1>1. QED BY TypeInit, TypeNext, PTL DEF Spec

-----------------------------------------------------------------------------
(* The cache and the evaluations *)

\* The files under evaluation are those of the frames.
LEMMA EvaluatingFrames ==
    TypeOK => /\ DOMAIN stack = 1..Len(stack)
              /\ Len(stack) \in Nat
              /\ \A i \in 1..Len(stack) : stack[i] \in Frame
              /\ Evaluating = {stack[i].file : i \in 1..Len(stack)}
  <1> SUFFICES ASSUME TypeOK PROVE
              /\ DOMAIN stack = 1..Len(stack)
              /\ Len(stack) \in Nat
              /\ \A i \in 1..Len(stack) : stack[i] \in Frame
              /\ Evaluating = {stack[i].file : i \in 1..Len(stack)}
    OBVIOUS
  <1>1. stack \in Seq(Frame)
    BY DEF TypeOK, Frame
  <1>2. QED BY <1>1, Members, LenProperties DEF Evaluating

\* The same of the state after a step.
LEMMA EvaluatingFramesNext ==
    TypeOK' => /\ DOMAIN stack' = 1..Len(stack')
               /\ Len(stack') \in Nat
               /\ \A i \in 1..Len(stack') : stack'[i] \in Frame
               /\ Evaluating' = {stack'[i].file : i \in 1..Len(stack')}
  <1> SUFFICES ASSUME TypeOK' PROVE
               /\ DOMAIN stack' = 1..Len(stack')
               /\ Len(stack') \in Nat
               /\ \A i \in 1..Len(stack') : stack'[i] \in Frame
               /\ Evaluating' = {stack'[i].file : i \in 1..Len(stack')}
    OBVIOUS
  <1>1. stack' \in Seq(Frame)
    BY DEF TypeOK, Frame
  <1>2. QED BY <1>1, Members, LenProperties DEF Evaluating

\* The value of an evaluation in progress, of a completed one, and none differ.
LEMMA ValueKinds ==
    /\ NoValue.kind = "none"
    /\ \A kind, f, n : Value(kind, f, n).kind = kind
    /\ \A f, n : Value("module", f, n) # NoValue
    /\ \A f, n : Value("outer", f, n) # NoValue
  <1>1. /\ NoValue.kind = "none"
        /\ \A kind, f, n : Value(kind, f, n).kind = kind
    BY DEF Value, NoValue
  <1>2. "none" # "module" /\ "none" # "outer"
    OBVIOUS
  <1>3. QED BY <1>1, <1>2

\* Initially nothing is evaluated and nothing is cached.
LEMMA InvInit == Init => IInv
  <1> SUFFICES ASSUME Init PROVE IInv
    OBVIOUS
  <1>1. TypeOK
    BY TypeInit
  <1>2. Len(stack) = 0 /\ Evaluating = {} /\ DOMAIN stack = {}
    BY <1>1, EvaluatingFrames, EmptySeq DEF Init
  <1>3. FramesCurrent
    BY <1>2 DEF FramesCurrent
  <1>4. CacheFollowsEvaluation
    BY <1>2 DEF CacheFollowsEvaluation, Init, File, NoValue
  <1>5. QED BY <1>1, <1>3, <1>4 DEF IInv

\* A load begins: the file has no frame yet, because it is not cached.
LEMMA InvBegin ==
    ASSUME IInv, TypeOK', NEW f \in JsFile, Begin(f)
    PROVE  FramesCurrent' /\ CacheFollowsEvaluation'
  <1> DEFINE n == loads[f] + 1
             frame == [file |-> f, load |-> n, exports |-> "inner"]
  <1>1. /\ TypeOK /\ f \in File /\ JsFile \subseteq File
        /\ n \in 1..MaxLoads /\ frame \in Frame
    BY FileAssumption DEF IInv, Begin, TypeOK, File, Frame
  <1>2. f \notin Evaluating
    BY ValueKinds DEF IInv, CacheFollowsEvaluation, Begin
  <1>3. /\ Len(stack') = Len(stack) + 1
        /\ stack'[Len(stack) + 1] = frame
        /\ \A i \in 1..Len(stack) : stack'[i] = stack[i]
    BY <1>1, Appended DEF Begin, TypeOK, Frame
  <1>4. Evaluating' = Evaluating \cup {f}
    BY <1>1, <1>3, EvaluatingFrames, EvaluatingFramesNext
  <1>5. /\ \A g \in JsFile : g # f => loads'[g] = loads[g] /\ cache'[g] = cache[g]
        /\ loads'[f] = n
        /\ cache'[f] = Value("module", f, n)
        /\ exported' = exported
    BY <1>1 DEF Begin, CachedEarly, TypeOK
  <1>6. \A i \in 1..Len(stack) : stack[i].file # f /\ stack[i].file \in JsFile
    BY <1>1, <1>2, EvaluatingFrames DEF Frame
  <1>7. \A i \in 1..Len(stack') :
           i = Len(stack) + 1 \/ (i \in 1..Len(stack) /\ stack'[i] = stack[i])
    BY <1>1, <1>3, EvaluatingFrames
  <1>8. FramesCurrent'
    <2>1. \A i \in 1..Len(stack) : stack[i].load = loads[stack[i].file]
      BY <1>1, EvaluatingFrames DEF IInv, FramesCurrent
    <2>2. QED
      BY <2>1, <1>3, <1>5, <1>6, <1>7, EvaluatingFramesNext DEF FramesCurrent
  <1>9. CacheFollowsEvaluation'
    <2>1. \A i, j \in DOMAIN stack' : stack'[i].file = stack'[j].file => i = j
      BY <1>1, <1>3, <1>6, <1>7, EvaluatingFrames, EvaluatingFramesNext
         DEF IInv, CacheFollowsEvaluation
    <2>2. ASSUME NEW g \in JsFile
          PROVE  /\ g \in Evaluating' => cache'[g] = Value("module", g, loads'[g])
                 /\ g \notin Evaluating' =>
                        cache'[g] \in {NoValue, Value("outer", g, loads'[g])}
                 /\ cache'[g].kind = "outer" => exported'[g].load = loads'[g]
      BY <1>4, <1>5 DEF IInv, CacheFollowsEvaluation, Value
    <2>3. QED BY <2>1, <2>2 DEF CacheFollowsEvaluation
  <1>10. QED BY <1>8, <1>9

\* What leaving the innermost evaluation, by a return or an exception, does to
\* the frames.
LEMMA Leave ==
    ASSUME IInv, TypeOK', stack # << >>, stack' = Front(stack), loads' = loads
    PROVE  /\ Last(stack) \in Frame
           /\ Last(stack).load = loads[Last(stack).file]
           /\ Last(stack).file \in Evaluating
           /\ Evaluating' = Evaluating \ {Last(stack).file}
           /\ FramesCurrent'
           /\ \A i, j \in DOMAIN stack' : stack'[i].file = stack'[j].file => i = j
  <1>1. TypeOK
    BY DEF IInv
  <1>2. /\ Len(stack) \in Nat \ {0}
        /\ Last(stack) = stack[Len(stack)]
        /\ Last(stack) \in Frame
        /\ Len(stack') = Len(stack) - 1
        /\ \A i \in 1..Len(stack') : i \in 1..Len(stack) /\ stack'[i] = stack[i]
        /\ \A i \in 1..Len(stack) : i \in 1..Len(stack') \/ i = Len(stack)
    BY <1>1, Innermost
  <1>3. \A i, j \in 1..Len(stack) : stack[i].file = stack[j].file => i = j
    BY <1>1, EvaluatingFrames DEF IInv, CacheFollowsEvaluation
  <1>4. \A i \in 1..Len(stack) : stack[i].load = loads[stack[i].file]
    BY <1>1, EvaluatingFrames DEF IInv, FramesCurrent
  <1>5. Evaluating' = Evaluating \ {Last(stack).file}
    <2>1. Len(stack) \notin 1..Len(stack')
      BY <1>2
    <2>2. QED
      BY SMTT(30), <1>1, <1>2, <1>3, <2>1, EvaluatingFrames, EvaluatingFramesNext
  <1>6. FramesCurrent'
    BY <1>1, <1>2, <1>4, EvaluatingFramesNext DEF FramesCurrent
  <1>7. \A i, j \in DOMAIN stack' : stack'[i].file = stack'[j].file => i = j
    BY <1>2, <1>3, EvaluatingFramesNext
  <1>8. /\ Last(stack).load = loads[Last(stack).file]
        /\ Last(stack).file \in Evaluating
    BY <1>1, <1>2, <1>4, EvaluatingFrames
  <1>9. QED
    BY <1>2, <1>5, <1>6, <1>7, <1>8

LEMMA InvFinish ==
    ASSUME IInv, TypeOK', Finish
    PROVE  FramesCurrent' /\ CacheFollowsEvaluation'
  <1> DEFINE frame == Last(stack)
  <1>1. stack # << >> /\ stack' = Front(stack) /\ loads' = loads
    BY DEF Finish
  <1>2. /\ frame \in Frame /\ frame.load = loads[frame.file]
        /\ Evaluating' = Evaluating \ {frame.file}
        /\ FramesCurrent'
        /\ \A i, j \in DOMAIN stack' : stack'[i].file = stack'[j].file => i = j
    BY <1>1, Leave
  <1>3. /\ \A g \in JsFile : g # frame.file =>
               cache'[g] = cache[g] /\ exported'[g] = exported[g]
        /\ cache'[frame.file] = Value("outer", frame.file, frame.load)
        /\ exported'[frame.file] = Value(frame.exports, frame.file, frame.load)
        /\ frame.file \in JsFile
    BY <1>2 DEF Finish, FinalCache, IInv, TypeOK, Frame, File
  <1>4. QED
    BY <1>1, <1>2, <1>3 DEF IInv, CacheFollowsEvaluation, Value

LEMMA InvThrow ==
    ASSUME IInv, TypeOK', Throw
    PROVE  FramesCurrent' /\ CacheFollowsEvaluation'
  <1> DEFINE frame == Last(stack)
  <1>1. stack # << >> /\ stack' = Front(stack) /\ loads' = loads
    BY DEF Throw
  <1>2. /\ frame \in Frame
        /\ Evaluating' = Evaluating \ {frame.file}
        /\ FramesCurrent'
        /\ \A i, j \in DOMAIN stack' : stack'[i].file = stack'[j].file => i = j
    BY <1>1, Leave
  <1>3. /\ \A g \in JsFile : g # frame.file => cache'[g] = cache[g]
        /\ cache'[frame.file] = NoValue
        /\ exported' = exported
        /\ frame.file \in JsFile
    BY <1>2 DEF Throw, IInv, TypeOK, Frame, File
  <1>4. QED
    BY <1>1, <1>2, <1>3 DEF IInv, CacheFollowsEvaluation, Value, NoValue

\* A step that leaves the stack, the loads, the cache and the exports of
\* JavaScript files alone.
LEMMA InvSame ==
    ASSUME IInv, UNCHANGED <<stack, exported>>,
           \A f \in JsFile : cache'[f] = cache[f] /\ loads'[f] = loads[f]
    PROVE  FramesCurrent' /\ CacheFollowsEvaluation'
  <1>1. Evaluating' = Evaluating
    BY DEF Evaluating
  <1>2. \A i \in DOMAIN stack : stack[i].file \in JsFile
    BY EvaluatingFrames DEF IInv, Frame
  <1>3. FramesCurrent'
    BY <1>2 DEF IInv, FramesCurrent
  <1>4. CacheFollowsEvaluation'
    BY <1>1 DEF IInv, CacheFollowsEvaluation
  <1>5. QED BY <1>3, <1>4

LEMMA InvNext == IInv /\ [Next]_vars => IInv'
  <1> SUFFICES ASSUME IInv, [Next]_vars PROVE IInv'
    OBVIOUS
  <1>1. TypeOK'
    BY TypeNext DEF IInv
  <1> SUFFICES FramesCurrent' /\ CacheFollowsEvaluation'
    BY <1>1 DEF IInv
  <1>2. ASSUME NEW f \in File, Hit(f)
        PROVE FramesCurrent' /\ CacheFollowsEvaluation'
    BY <1>2, InvSame DEF Hit
  <1>3. ASSUME NEW f \in JsFile, Begin(f)
        PROVE FramesCurrent' /\ CacheFollowsEvaluation'
    BY <1>1, <1>3, InvBegin
  <1>4. ASSUME NEW f \in JsFile, CompileError(f)
        PROVE FramesCurrent' /\ CacheFollowsEvaluation'
    <2>1. f \notin Evaluating
      BY <1>4, ValueKinds DEF IInv, CacheFollowsEvaluation, CompileError
    <2>2. /\ UNCHANGED <<stack, cache, exported>>
          /\ \A g \in JsFile : g # f => loads'[g] = loads[g]
          /\ cache[f] = NoValue
      BY <1>4 DEF CompileError, IInv, TypeOK, File
    <2>3. Evaluating' = Evaluating
      BY <2>2 DEF Evaluating
    <2>4. \A i \in DOMAIN stack : stack[i].file \in JsFile /\ stack[i].file # f
      BY <2>1, EvaluatingFrames DEF IInv, Frame
    <2>5. FramesCurrent'
      BY <2>2, <2>4 DEF IInv, FramesCurrent
    <2>6. CacheFollowsEvaluation'
      BY <2>1, <2>2, <2>3, ValueKinds DEF IInv, CacheFollowsEvaluation
    <2>7. QED BY <2>5, <2>6
  <1>5. ASSUME NEW f \in Native, LoadNative(f)
        PROVE FramesCurrent' /\ CacheFollowsEvaluation'
    <2>1. \A g \in JsFile : cache'[g] = cache[g] /\ loads'[g] = loads[g]
      BY <1>5, FileAssumption DEF LoadNative, IInv, TypeOK, File
    <2>2. QED BY <1>5, <2>1, InvSame DEF LoadNative
  <1>6. CASE Assign
    <2>1. stack # << >> /\ TypeOK
      BY <1>6 DEF Assign, IInv
    <2>2. /\ DOMAIN stack' = DOMAIN stack
          /\ \A i \in DOMAIN stack : /\ stack'[i].file = stack[i].file
                                     /\ stack'[i].load = stack[i].load
      BY <1>6, <2>1, EvaluatingFrames, Innermost DEF Assign, Frame
    <2>3. Evaluating' = Evaluating
      BY ZenonT(30), <1>1, <2>1, <2>2, EvaluatingFrames, EvaluatingFramesNext
    <2>4. UNCHANGED <<cache, loads, exported>>
      BY <1>6 DEF Assign
    <2>5. FramesCurrent'
      BY <2>2, <2>4 DEF IInv, FramesCurrent
    <2>6. CacheFollowsEvaluation'
      BY <2>2, <2>3, <2>4 DEF IInv, CacheFollowsEvaluation
    <2>7. QED BY <2>5, <2>6
  <1>7. CASE Finish
    BY <1>1, <1>7, InvFinish
  <1>8. CASE Throw
    BY <1>1, <1>8, InvThrow
  <1>9. ASSUME NEW b \in Bare, RequireBare(b)
        PROVE FramesCurrent' /\ CacheFollowsEvaluation'
    BY <1>9, InvSame DEF RequireBare
  <1>10. CASE UNCHANGED vars
    BY <1>10, InvSame DEF vars
  <1>11. QED
    BY <1>2, <1>3, <1>4, <1>5, <1>6, <1>7, <1>8, <1>9, <1>10 DEF Next

\* A completed file is left alone by every step (CommonJSLoader.cpp:121-127):
\* it is not loaded because it is cached, and it is not being evaluated because
\* it would be cached as a module object.
LEMMA CompletedNext ==
    ASSUME IInv, [Next]_vars, NEW f \in JsFile, cache[f].kind = "outer"
    PROVE  cache'[f] = cache[f] /\ loads'[f] = loads[f]
  <1>1. cache[f] # NoValue /\ f \notin Evaluating
    BY ValueKinds DEF IInv, CacheFollowsEvaluation
  <1>2. ASSUME NEW g \in JsFile, Begin(g) \/ CompileError(g)
        PROVE cache'[f] = cache[f] /\ loads'[f] = loads[f]
    BY <1>1, <1>2 DEF Begin, CompileError, CachedEarly, IInv, TypeOK, File
  <1>3. ASSUME NEW g \in Native, LoadNative(g)
        PROVE cache'[f] = cache[f] /\ loads'[f] = loads[f]
    BY <1>3, FileAssumption DEF LoadNative, IInv, TypeOK, File
  <1>4. ASSUME Finish \/ Throw
        PROVE cache'[f] = cache[f] /\ loads'[f] = loads[f]
    <2>1. stack # << >> /\ TypeOK
      BY <1>4 DEF Finish, Throw, IInv
    <2>2. Last(stack).file # f
      BY <1>1, <2>1, Innermost, EvaluatingFrames
    <2>3. QED BY <1>4, <2>2 DEF Finish, FinalCache, Throw, IInv, TypeOK, File
  <1>5. CASE Assign
    BY <1>5 DEF Assign
  <1>6. ASSUME NEW g \in File, Hit(g)
        PROVE cache'[f] = cache[f] /\ loads'[f] = loads[f]
    BY <1>6 DEF Hit
  <1>7. ASSUME NEW b \in Bare, RequireBare(b)
        PROVE cache'[f] = cache[f] /\ loads'[f] = loads[f]
    BY <1>7 DEF RequireBare
  <1>8. CASE UNCHANGED vars
    BY <1>8 DEF vars
  <1>9. QED
    BY <1>2, <1>3, <1>4, <1>5, <1>6, <1>7, <1>8 DEF Next

-----------------------------------------------------------------------------
(* Theorems *)

\* The strengthened invariant holds in every reachable state.
THEOREM Invariance == Spec => []IInv
  <1>1. QED BY InvInit, InvNext, PTL DEF Spec

\* For any number of files, nested in any way and throwing anywhere, a file is
\* never entered while it is under evaluation, and the cache holds the module object
\* of the load in progress, the exports of a completed load, or nothing after a
\* failure (CommonJSLoader.cpp:121-192).
THEOREM CacheIsSound == Spec => []CacheFollowsEvaluation
  <1>1. IInv => CacheFollowsEvaluation
    BY DEF IInv
  <1>2. QED BY <1>1, Invariance, PTL

\* A file that completed is never evaluated again and keeps its value
\* (CommonJSLoader.cpp:121-127).
THEOREM CompletedStays == Spec => CompletedIsFinal
  <1>1. IInv /\ [Next]_vars =>
            [\A f \in JsFile : cache[f].kind = "outer" =>
                 cache'[f] = cache[f] /\ loads'[f] = loads[f]]_vars
    BY CompletedNext
  <1>2. QED BY <1>1, Invariance, PTL DEF Spec, CompletedIsFinal
=============================================================================
