-------------------------- MODULE DdsBridgeProofs --------------------------
(***************************************************************************)
(* Safety of DdsBridge for any number of frames and targets and any room   *)
(* in the pipes.                                                           *)
(***************************************************************************)
EXTENDS DdsBridge, SequenceTheorems, TLAPS

(* What each variable can hold.                                            *)
Closing == {"stop", "terminate", "wait", "join", "done"}
PyRecords == [started : BOOLEAN, close : Closing \cup {"open", "dead"},
              fatal : {"none", "exited", "write", "error"},
              latest : Nat, taken : Nat, sent : 0..MaxTargets]
WriterRecords == [pc : {"none", "get", "write", "ended"}, item : Nat]
ProcRecords == [state : {"none", "running", "exited"}, code : {0, 1, 2},
                signal : {"none", "term", "kill"}]
StateRecords == [camera : Nat, error : BOOLEAN, exitCode : {0, 1},
                 stop : BOOLEAN, emitterStop : BOOLEAN]
EmitterRecords == [pc : {"none", "wait", "write", "ended"}, lines : Seq(Int)]
StdinRecords == [pc : {"none", "poll", "line", "ended"}, line : Nat]
DdsRecords == [camera : Nat, published : Nat, errors : {0, 1}]

Shapes ==
    /\ py \in PyRecords /\ queue \in Int /\ writer \in WriterRecords
    /\ proc \in ProcRecords /\ down \in Seq(Int) /\ up \in Seq(Int)
    /\ state \in StateRecords /\ emitter \in EmitterRecords /\ stdin \in StdinRecords
    /\ dds \in DdsRecords

(* A thread that holds a line holds one that was there, and a thread that  *)
(* waits holds none; an object that was not started has no threads.        *)
Holds ==
    /\ Len(down) <= PipeRoom /\ Len(up) <= PipeRoom
    /\ writer.pc = "write" => writer.item > 0
    /\ writer.pc = "none" <=> ~ py.started \/ ~ Alive
    /\ stdin.pc = "line" => stdin.line > 0
    /\ emitter.pc = "write" <=> emitter.lines # <<>>
    /\ ~ py.started => state = NoState /\ emitter = NoEmitter /\ stdin = NoStdin /\ ~ Running
    /\ main = "start" => stdin.pc = "none"

(* The lines of an earlier part of the way are older than those of a later *)
(* part, and none is newer than the newest there is.                       *)
Before(A, B) == \A a \in A, b \in B : ErrorLine \in {a, b} \/ a < b
Held(n) == IF n > 0 THEN {n} ELSE {}
CameraWay ==
    /\ py.taken <= dds.camera /\ py.latest <= dds.camera /\ state.camera <= dds.camera
    /\ ToSet(up) \cup ToSet(emitter.lines) \subseteq {ErrorLine} \cup 1..dds.camera
    /\ Increasing(up) /\ Increasing(emitter.lines)
    /\ Before({py.taken}, Held(py.latest) \cup ToSet(up) \cup ToSet(emitter.lines) \cup Held(state.camera))
    /\ Before(Held(py.latest), ToSet(up) \cup ToSet(emitter.lines) \cup Held(state.camera))
    /\ Before(ToSet(up), ToSet(emitter.lines) \cup Held(state.camera))
    /\ Before(ToSet(emitter.lines), Held(state.camera))
TargetWay ==
    /\ dds.published <= py.sent /\ stdin.line <= py.sent /\ writer.item <= py.sent
    /\ queue \in {Stop, 0, py.sent}
    /\ ToSet(down) \subseteq 1..py.sent
    /\ Increasing(down)
    /\ Before({dds.published}, Held(stdin.line) \cup ToSet(down) \cup Held(writer.item) \cup Held(queue))
    /\ Before(Held(stdin.line), ToSet(down) \cup Held(writer.item) \cup Held(queue))
    /\ Before(ToSet(down), Held(writer.item) \cup Held(queue))
    /\ Before(Held(writer.item), Held(queue))

(* An error is on its way to stdout until it is written; the emitter ends  *)
(* after everybody else who could still report one.                        *)
ErrorOnItsWay ==
    /\ state.exitCode = 1 =>
         state.error \/ ErrorLine \in ToSet(emitter.lines) \/ dds.errors = 1
    /\ state.emitterStop => main = "joinEmitter" /\ stdin.pc \in {"none", "ended"}
    /\ emitter.pc = "ended" => state.emitterStop /\ ~ state.error

IInv == Shapes /\ Holds /\ CameraWay /\ TargetWay /\ ErrorOnItsWay /\ FatalIsTold

-----------------------------------------------------------------------------
(* Lines                                                                   *)

LEMMA Appending ==
  ASSUME NEW q \in Seq(Int), NEW n \in Int
  PROVE  /\ Append(q, n) \in Seq(Int) /\ Len(Append(q, n)) = Len(q) + 1 /\ Append(q, n) # <<>>
         /\ ToSet(Append(q, n)) = ToSet(q) \cup {n}
         /\ Increasing(q) /\ Before(ToSet(q), {n}) => Increasing(Append(q, n))
<1> DEFINE r == Append(q, n)
<1>1. /\ r \in Seq(Int) /\ Len(r) = Len(q) + 1 /\ Len(q) \in Nat
      /\ DOMAIN q = 1..Len(q) /\ DOMAIN r = 1..(Len(q) + 1)
      /\ \A i \in 1..Len(q) : r[i] = q[i]
      /\ r[Len(q) + 1] = n
  BY AppendProperties, LenProperties
<1>2. r # <<>>
  BY <1>1
<1> HIDE DEF r
<1>3. ToSet(r) = ToSet(q) \cup {n}
  BY <1>1 DEF ToSet
<1>4. ASSUME Increasing(q), Before(ToSet(q), {n}) PROVE Increasing(r)
  <2> SUFFICES ASSUME NEW i \in DOMAIN r, NEW j \in DOMAIN r, i < j, ErrorLine \notin {r[i], r[j]}
               PROVE  r[i] < r[j]
    BY DEF Increasing
  <2>1. i \in 1..Len(q)
    BY <1>1
  <2>2. CASE j \in 1..Len(q)
    BY <1>1, <1>4, <2>1, <2>2 DEF Increasing
  <2>3. CASE j = Len(q) + 1
    <3>1. r[i] \in ToSet(q)
      BY <1>1, <2>1 DEF ToSet
    <3> QED
      BY <1>1, <1>4, <2>3, <3>1 DEF Before
  <2> QED
    BY <1>1, <2>2, <2>3
<1> QED
  BY <1>1, <1>2, <1>3, <1>4 DEF r

LEMMA Taking ==
  ASSUME NEW q \in Seq(Int), q # <<>>
  PROVE  /\ Head(q) \in Int /\ Tail(q) \in Seq(Int) /\ Len(Tail(q)) = Len(q) - 1
         /\ Head(q) \in ToSet(q) /\ ToSet(q) = {Head(q)} \cup ToSet(Tail(q))
         /\ Len(q) = 1 => ToSet(Tail(q)) = {}
         /\ Len(q) # 1 => Tail(q) # <<>>
         /\ Increasing(q) => Increasing(Tail(q)) /\ Before({Head(q)}, ToSet(Tail(q)))
<1> DEFINE h == Head(q)
           t == Tail(q)
<1>1. /\ h \in Int /\ t \in Seq(Int) /\ Len(t) = Len(q) - 1 /\ Len(q) \in Nat /\ Len(q) # 0
      /\ \A i \in 1..Len(t) : t[i] = q[i + 1]
  <2>1. Len(q) \in Nat /\ Len(q) # 0
    BY EmptySeq, LenProperties
  <2> QED
    BY <2>1, HeadTailProperties
<1>2. h = q[1] /\ DOMAIN q = 1..Len(q) /\ DOMAIN t = 1..Len(t)
  BY <1>1, LenProperties
<1> HIDE DEF h, t
<1>3. ToSet(q) = {h} \cup ToSet(t)
  <2>1. ASSUME NEW i \in DOMAIN q PROVE q[i] = h \/ \E j \in DOMAIN t : q[i] = t[j]
    <3>1. CASE i = 1
      BY <1>2, <3>1
    <3>2. CASE i # 1
      <4>1. i - 1 \in 1..Len(t) /\ (i - 1) + 1 = i
        BY <1>1, <1>2, <3>2
      <4> QED
        BY <1>1, <1>2, <4>1
    <3> QED
      BY <3>1, <3>2
  <2>2. \A j \in DOMAIN t : j + 1 \in DOMAIN q /\ t[j] = q[j + 1]
    BY <1>1, <1>2
  <2>3. 1 \in DOMAIN q
    BY <1>1, <1>2
  <2> QED
    BY <1>2, <2>1, <2>2, <2>3 DEF ToSet
<1>4. Len(q) = 1 => ToSet(t) = {}
  BY <1>1, <1>2 DEF ToSet
<1>5. Len(q) # 1 => t # <<>>
  BY <1>1
<1>6. ASSUME Increasing(q) PROVE Increasing(t) /\ Before({h}, ToSet(t))
  <2>1. \A j \in DOMAIN t : j + 1 \in DOMAIN q /\ t[j] = q[j + 1] /\ 1 < j + 1
    BY <1>1, <1>2
  <2>2. 1 \in DOMAIN q /\ \A i, j \in DOMAIN t : i < j => i + 1 < j + 1
    BY <1>1, <1>2
  <2>3. Increasing(t)
    BY <1>6, <2>1, <2>2 DEF Increasing
  <2>4. Before({h}, ToSet(t))
    <3>1. ASSUME NEW j \in DOMAIN t PROVE ErrorLine \in {h, t[j]} \/ h < t[j]
      <4>1. j + 1 \in DOMAIN q /\ t[j] = q[j + 1] /\ 1 < j + 1
        BY <2>1
      <4>2. 1 \in DOMAIN q /\ h = q[1]
        BY <1>2, <2>2
      <4>3. ErrorLine \notin {q[1], q[j + 1]} => q[1] < q[j + 1]
        BY <1>6, <4>1, <4>2 DEF Increasing
      <4> QED
        BY <4>1, <4>2, <4>3
    <3>2. \A b \in ToSet(t) : \E j \in DOMAIN t : b = t[j]
      BY DEF ToSet
    <3> QED
      BY <3>1, <3>2 DEF Before
  <2> QED
    BY <2>3, <2>4
<1> QED
  BY <1>1, <1>3, <1>4, <1>5, <1>6 DEF h, t

LEMMA Empty == ToSet(<<>>) = {} /\ Increasing(<<>>) /\ <<>> \in Seq(Int) /\ Len(<<>>) = 0
  BY DEF ToSet, Increasing

(* The numbers and the lines of a state.                                   *)
LEMMA Fields ==
  ASSUME IInv
  PROVE  /\ {dds.camera, dds.published, py.latest, py.taken, py.sent, writer.item,
             stdin.line, state.camera, PipeRoom, MaxTargets, MaxCamera} \subseteq Nat
         /\ py.sent \in 0..MaxTargets /\ queue \in {Stop, 0, py.sent} /\ queue \in Int
         /\ down \in Seq(Int) /\ up \in Seq(Int) /\ emitter.lines \in Seq(Int)
         /\ {Len(down), Len(up), Len(emitter.lines)} \subseteq Nat
         /\ {py.started, state.error, state.stop, state.emitterStop} \subseteq BOOLEAN
         /\ state.exitCode \in {0, 1}
         /\ ToSet(up) \cup ToSet(emitter.lines) \subseteq {ErrorLine} \cup 1..dds.camera
         /\ writer.pc \in {"none", "get", "write", "ended"}
         /\ stdin.pc \in {"none", "poll", "line", "ended"}
         /\ emitter.pc \in {"none", "wait", "write", "ended"}
<1>1. /\ {dds.camera, dds.published} \subseteq Nat
      /\ {py.latest, py.taken} \subseteq Nat /\ py.sent \in 0..MaxTargets /\ py.started \in BOOLEAN
  BY DEF IInv, Shapes, DdsRecords, PyRecords
<1>2. /\ writer.item \in Nat /\ writer.pc \in {"none", "get", "write", "ended"}
      /\ stdin.line \in Nat /\ stdin.pc \in {"none", "poll", "line", "ended"}
  BY DEF IInv, Shapes, WriterRecords, StdinRecords
<1>3. /\ state.camera \in Nat /\ {state.error, state.stop, state.emitterStop} \subseteq BOOLEAN
      /\ state.exitCode \in {0, 1}
      /\ emitter.lines \in Seq(Int) /\ emitter.pc \in {"none", "wait", "write", "ended"}
  BY DEF IInv, Shapes, StateRecords, EmitterRecords
<1>4. queue \in {Stop, 0, py.sent} /\ queue \in Int /\ down \in Seq(Int) /\ up \in Seq(Int)
  BY DEF IInv, Shapes, TargetWay
<1>5. {Len(down), Len(up), Len(emitter.lines)} \subseteq Nat
  BY <1>3, <1>4, LenProperties
<1>6. ToSet(up) \cup ToSet(emitter.lines) \subseteq {ErrorLine} \cup 1..dds.camera
  BY DEF IInv, CameraWay
<1> QED
  BY <1>1, <1>2, <1>3, <1>4, <1>5, <1>6, BridgeAssumption

LEMMA One ==
  ASSUME NEW n \in Int
  PROVE  <<n>> \in Seq(Int) /\ ToSet(<<n>>) = {n} /\ Increasing(<<n>>)
  BY DEF ToSet, Increasing

LEMMA Chained ==
  ASSUME NEW a \in Seq(Int), NEW b \in Seq(Int), Increasing(a), Increasing(b),
         Before(ToSet(a), ToSet(b))
  PROVE  a \o b \in Seq(Int) /\ ToSet(a \o b) = ToSet(a) \cup ToSet(b) /\ Increasing(a \o b)
<1> DEFINE c == a \o b
<1>1. /\ c \in Seq(Int) /\ DOMAIN c = 1..(Len(a) + Len(b))
      /\ DOMAIN a = 1..Len(a) /\ DOMAIN b = 1..Len(b) /\ Len(a) \in Nat /\ Len(b) \in Nat
      /\ \A i \in 1..(Len(a) + Len(b)) : c[i] = IF i <= Len(a) THEN a[i] ELSE b[i - Len(a)]
  BY ConcatProperties, LenProperties
<1> HIDE DEF c
<1>2. \A i \in DOMAIN a : i \in DOMAIN c /\ c[i] = a[i]
  BY <1>1
<1>3. \A i \in DOMAIN b : i + Len(a) \in DOMAIN c /\ c[i + Len(a)] = b[i]
  <2> SUFFICES ASSUME NEW i \in DOMAIN b
               PROVE  i + Len(a) \in DOMAIN c /\ c[i + Len(a)] = b[i]
    OBVIOUS
  <2>1. /\ i + Len(a) \in 1..(Len(a) + Len(b)) /\ ~ (i + Len(a) <= Len(a))
        /\ i + Len(a) - Len(a) = i
    BY <1>1
  <2> QED
    BY <1>1, <2>1
<1>4. ASSUME NEW i \in DOMAIN c
      PROVE  \/ i \in DOMAIN a
             \/ i > Len(a) /\ i - Len(a) \in DOMAIN b /\ c[i] = b[i - Len(a)]
  <2>1. CASE i <= Len(a)
    BY <1>1, <2>1
  <2>2. CASE ~ (i <= Len(a))
    <3>1. c[i] = b[i - Len(a)]
      BY <1>1, <2>2
    <3>2. i > Len(a) /\ i - Len(a) \in DOMAIN b
      BY <1>1, <2>2
    <3> QED
      BY <3>1, <3>2
  <2> QED
    BY <2>1, <2>2
<1>5. ToSet(c) = ToSet(a) \cup ToSet(b)
  BY <1>2, <1>3, <1>4 DEF ToSet
<1>6. Increasing(c)
  <2> SUFFICES ASSUME NEW i \in DOMAIN c, NEW j \in DOMAIN c, i < j, ErrorLine \notin {c[i], c[j]}
               PROVE  c[i] < c[j]
    BY DEF Increasing
  <2>1. CASE i \in DOMAIN a /\ j \in DOMAIN a
    BY <1>2, <2>1 DEF Increasing
  <2>2. CASE i \in DOMAIN a /\ j > Len(a) /\ j - Len(a) \in DOMAIN b /\ c[j] = b[j - Len(a)]
    <3>1. c[i] \in ToSet(a) /\ c[j] \in ToSet(b)
      BY <1>2, <2>2 DEF ToSet
    <3> QED
      BY <3>1 DEF Before
  <2>3. CASE /\ i > Len(a) /\ i - Len(a) \in DOMAIN b /\ c[i] = b[i - Len(a)]
             /\ j > Len(a) /\ j - Len(a) \in DOMAIN b /\ c[j] = b[j - Len(a)]
    <3>1. i - Len(a) < j - Len(a)
      BY <1>1
    <3> QED
      BY <2>3, <3>1 DEF Increasing
  <2>4. ~ (i > Len(a) /\ j \in DOMAIN a)
    BY <1>1
  <2> QED
    BY <1>4, <2>1, <2>2, <2>3, <2>4
<1> QED
  BY <1>1, <1>5, <1>6 DEF c

(* What the emitter takes: the frame, then the error.                      *)
LEMMA Pendings ==
  ASSUME IInv
  PROVE  /\ Pending \in Seq(Int) /\ Increasing(Pending)
         /\ ToSet(Pending) = Held(state.camera) \cup (IF state.error THEN {ErrorLine} ELSE {})
<1> DEFINE a == IF state.camera # 0 THEN <<state.camera>> ELSE <<>>
           b == IF state.error THEN <<ErrorLine>> ELSE <<>>
<1>1. state.camera \in Nat /\ ErrorLine \in Int
  BY Fields DEF ErrorLine
<1>2. a \in Seq(Int) /\ Increasing(a) /\ ToSet(a) = Held(state.camera)
  <2>1. CASE state.camera = 0
    BY <2>1, Empty DEF Held
  <2>2. CASE state.camera > 0
    <3>1. a = <<state.camera>> /\ state.camera \in Int
      BY <1>1, <2>2
    <3>2. a \in Seq(Int) /\ ToSet(a) = {state.camera} /\ Increasing(a)
      BY <3>1, One
    <3> HIDE DEF a
    <3> QED
      BY <2>2, <3>2 DEF Held
  <2> QED
    BY <1>1, <2>1, <2>2
<1>3. b \in Seq(Int) /\ Increasing(b) /\ ToSet(b) = (IF state.error THEN {ErrorLine} ELSE {})
  BY <1>1, One, Empty
<1>4. Pending = a \o b
  BY DEF Pending
<1> HIDE DEF a, b
<1>5. Before(ToSet(a), ToSet(b))
  BY <1>3 DEF Before
<1> QED
  BY <1>2, <1>3, <1>4, <1>5, Chained

LEMMA ShapesKept ==
  ASSUME IInv, [Next]_vars
  PROVE  Shapes'
<1>t. Shapes
  BY DEF IInv
<1>f. /\ {dds.camera, dds.published, py.latest, py.taken, py.sent, writer.item,
          stdin.line, state.camera, PipeRoom, MaxTargets, MaxCamera} \subseteq Nat
      /\ py.sent \in 0..MaxTargets /\ queue \in {Stop, 0, py.sent} /\ queue \in Int
      /\ down \in Seq(Int) /\ up \in Seq(Int) /\ emitter.lines \in Seq(Int)
      /\ {py.started, state.error, state.stop, state.emitterStop} \subseteq BOOLEAN
      /\ state.exitCode \in {0, 1}
  BY Fields
<1>h. emitter.pc = "write" => emitter.lines # <<>>
  BY DEF IInv, Holds
<1>g. Stop \in Int /\ Stop < 0 /\ ErrorLine \in Int
  BY DEF Stop, ErrorLine
<1>1. CASE Start
  <2>1. py' \in PyRecords
    BY <1>t, <1>f, <1>g, <1>1 DEF Shapes, pyVars, nativeVars, Start, PyRecords, Closing
  <2>2. writer' \in WriterRecords
    BY <1>t, <1>f, <1>g, <1>1 DEF Shapes, pyVars, nativeVars, Start, WriterRecords
  <2>3. proc' \in ProcRecords
    BY <1>t, <1>f, <1>g, <1>1 DEF Shapes, pyVars, nativeVars, Start, ProcRecords
  <2>4. emitter' \in EmitterRecords
    BY <1>t, <1>f, <1>g, <1>1 DEF Shapes, pyVars, nativeVars, Start, EmitterRecords
  <2> QED
    BY <1>t, <1>f, <1>g, <1>1, <2>1, <2>2, <2>3, <2>4 DEF Shapes, Start, pyVars, nativeVars
<1>2. CASE FindsItDead
  <2>1. py' \in PyRecords
    BY <1>t, <1>f, <1>g, <1>2 DEF Shapes, pyVars, nativeVars, FindsItDead, PyRecords, Closing
  <2> QED
    BY <1>t, <1>f, <1>g, <1>2, <2>1 DEF Shapes, FindsItDead, pyVars, nativeVars
<1>3. CASE PollLatestCamera
  <2>1. py' \in PyRecords
    BY <1>t, <1>f, <1>g, <1>3 DEF Shapes, pyVars, nativeVars, PollLatestCamera,
      PyRecords, Closing
  <2> QED
    BY <1>t, <1>f, <1>g, <1>3, <2>1 DEF Shapes, PollLatestCamera, pyVars, nativeVars
<1>4. CASE SendGazeTarget
  <2>1. py' \in PyRecords
    <3>1. py.sent + 1 \in 0..MaxTargets
      BY <1>f, <1>4 DEF SendGazeTarget
    <3> QED
      BY <1>t, <1>f, <1>4, <3>1 DEF Shapes, SendGazeTarget, PyRecords
  <2>2. queue' \in Int
    BY <1>t, <1>f, <1>g, <1>4 DEF Shapes, pyVars, nativeVars, SendGazeTarget, Latest
  <2> QED
    BY <1>t, <1>f, <1>g, <1>4, <2>1, <2>2 DEF Shapes, SendGazeTarget, Latest, pyVars, nativeVars
<1>5. CASE BeginClose
  <2>1. py' \in PyRecords
    BY <1>t, <1>f, <1>g, <1>5 DEF Shapes, pyVars, nativeVars, BeginClose, CloseStep,
      PyRecords, Closing
  <2> QED
    BY <1>t, <1>f, <1>g, <1>5, <2>1 DEF Shapes, BeginClose, CloseStep, pyVars, nativeVars
<1>6. CASE PutWriterStop
  <2>1. py' \in PyRecords
    BY <1>t, <1>f, <1>g, <1>6 DEF Shapes, pyVars, nativeVars, PutWriterStop, CloseStep,
      Latest, PyRecords, Closing
  <2>2. queue' \in Int
    BY <1>t, <1>f, <1>g, <1>6 DEF Shapes, pyVars, nativeVars, PutWriterStop, CloseStep, Latest
  <2> QED
    BY <1>t, <1>f, <1>g, <1>6, <2>1, <2>2 DEF Shapes, PutWriterStop, CloseStep, Latest,
      pyVars, nativeVars
<1>7. CASE Terminate
  <2>1. py' \in PyRecords
    BY <1>t, <1>f, <1>g, <1>7 DEF Shapes, pyVars, nativeVars, Terminate, CloseStep,
      PyRecords, Closing
  <2>2. proc' \in ProcRecords
    BY <1>t, <1>f, <1>g, <1>7 DEF Shapes, pyVars, nativeVars, Terminate, CloseStep, ProcRecords
  <2> QED
    BY <1>t, <1>f, <1>g, <1>7, <2>1, <2>2 DEF Shapes, Terminate, CloseStep, pyVars, nativeVars
<1>8. CASE WaitForChild
  <2>1. py' \in PyRecords
    BY <1>t, <1>f, <1>g, <1>8 DEF Shapes, pyVars, nativeVars, WaitForChild, CloseStep,
      SignalAfterWait, PyRecords, Closing
  <2>2. proc' \in ProcRecords
    BY <1>t, <1>f, <1>g, <1>8 DEF Shapes, pyVars, nativeVars, WaitForChild, CloseStep,
      SignalAfterWait, ProcRecords
  <2> QED
    BY <1>t, <1>f, <1>g, <1>8, <2>1, <2>2 DEF Shapes, WaitForChild, CloseStep,
      SignalAfterWait, pyVars, nativeVars
<1>9. CASE JoinThreads
  <2>1. py' \in PyRecords
    BY <1>t, <1>f, <1>g, <1>9 DEF Shapes, pyVars, nativeVars, JoinThreads, CloseStep,
      PyRecords, Closing
  <2> QED
    BY <1>t, <1>f, <1>g, <1>9, <2>1 DEF Shapes, JoinThreads, CloseStep, pyVars, nativeVars
<1>10. CASE WriterGet
  <2>1. writer' \in WriterRecords
    BY <1>t, <1>f, <1>g, <1>10 DEF Shapes, pyVars, nativeVars, WriterGet, WriterRecords
  <2>2. queue' \in Int
    BY <1>t, <1>f, <1>g, <1>10 DEF Shapes, pyVars, nativeVars, WriterGet
  <2> QED
    BY <1>t, <1>f, <1>g, <1>10, <2>1, <2>2 DEF Shapes, WriterGet, pyVars, nativeVars
<1>11. CASE WriterWrite
  <2>1. py' \in PyRecords
    BY <1>t, <1>f, <1>g, <1>11 DEF Shapes, pyVars, nativeVars, WriterWrite, Marked,
      AfterWrite, PyRecords, Closing
  <2>2. writer' \in WriterRecords
    BY <1>t, <1>f, <1>g, <1>11 DEF Shapes, pyVars, nativeVars, WriterWrite, Marked,
      AfterWrite, WriterRecords
  <2>3. down' \in Seq(Int)
    <3>1. down' = Append(down, writer.item) \/ down' = down
      BY <1>11 DEF WriterWrite
    <3>2. writer.item \in Int
      BY <1>f
    <3> QED
      BY <1>f, <3>1, <3>2, Appending
  <2> QED
    BY <1>t, <1>f, <1>g, <1>11, <2>1, <2>2, <2>3 DEF Shapes, WriterWrite, Marked,
      AfterWrite, pyVars, nativeVars
<1>12. CASE ReadLine
  <2>1. py' \in PyRecords
    <3>1. Head(up) \in ToSet(up)
      <4>1. up # <<>>
        BY <1>12 DEF ReadLine
      <4> QED
        BY <1>f, <4>1, Taking
    <3>2. Head(up) \in Nat \/ Head(up) = ErrorLine
      BY <1>f, <3>1, Fields
    <3>3. py' = [py EXCEPT !.latest = Head(up)] \/ py' = [py EXCEPT !.fatal = Marked("error")] \/ py' = py
      BY <1>12 DEF ReadLine
    <3>4. Marked("error") \in {"none", "exited", "write", "error"}
      BY <1>t DEF Shapes, PyRecords, Marked
    <3>5. py' = [py EXCEPT !.latest = Head(up)] => Head(up) \in Nat
      <4>1. CASE Head(up) = ErrorLine
        BY <1>12, <1>t, <3>4, <4>1 DEF ReadLine, Shapes, PyRecords
      <4> QED
        BY <3>2, <4>1
    <3> QED
      BY <1>t, <3>3, <3>4, <3>5 DEF Shapes, PyRecords
  <2>2. up' \in Seq(Int)
    BY <1>t, <1>f, <1>g, <1>12 DEF Shapes, pyVars, nativeVars, ReadLine, Marked
  <2> QED
    BY <1>t, <1>f, <1>g, <1>12, <2>1, <2>2 DEF Shapes, ReadLine, Marked, pyVars, nativeVars
<1>13. CASE ReadEof
  BY <1>t, <1>f, <1>g, <1>13 DEF Shapes, ReadEof, pyVars, nativeVars
<1>14. CASE MarkEof
  <2>1. py' \in PyRecords
    BY <1>t, <1>f, <1>g, <1>14 DEF Shapes, pyVars, nativeVars, MarkEof, Marked,
      PyRecords, Closing
  <2> QED
    BY <1>t, <1>f, <1>g, <1>14, <2>1 DEF Shapes, MarkEof, Marked, pyVars, nativeVars
<1>15. CASE EmitterTake
  <2>1. state' \in StateRecords
    <3>1. CASE state' = state
      BY <1>t, <3>1 DEF Shapes
    <3>2. CASE state' = [state EXCEPT !.camera = 0, !.error = FALSE]
      BY <1>t, <3>2 DEF Shapes, StateRecords
    <3> QED
      BY <1>15, <3>1, <3>2 DEF EmitterTake, CameraAfterTake
  <2>2. emitter' \in EmitterRecords
    <3>1. CASE emitter' = [emitter EXCEPT !.pc = "ended"]
      BY <1>t, <3>1 DEF Shapes, EmitterRecords
    <3>2. CASE emitter' = [pc |-> "write", lines |-> Pending]
      <4>1. Pending \in Seq(Int)
        BY Pendings
      <4> QED
        BY <3>2, <4>1 DEF EmitterRecords
    <3> QED
      BY <1>15, <3>1, <3>2 DEF EmitterTake
  <2> QED
    BY <1>t, <1>f, <1>g, <1>15, <2>1, <2>2 DEF Shapes, EmitterTake, CameraAfterTake,
      pyVars, nativeVars
<1>16. CASE EmitterWrite
  <2>1. emitter' \in EmitterRecords
    <3>1. CASE emitter' = [pc |-> "wait", lines |-> <<>>]
      BY <3>1, Empty DEF EmitterRecords
    <3>2. CASE emitter' = [emitter EXCEPT !.lines = Tail(emitter.lines)]
      <4> DEFINE tail == Tail(emitter.lines)
      <4>1. tail \in Seq(Int)
        BY <1>f, <1>h, <1>16, Taking DEF EmitterWrite
      <4>2. emitter' = [emitter EXCEPT !.lines = tail]
        BY <3>2
      <4> HIDE DEF tail
      <4> QED
        BY <1>t, <4>1, <4>2 DEF Shapes, EmitterRecords
    <3> QED
      BY <1>16, <3>1, <3>2 DEF EmitterWrite
  <2>2. dds' \in DdsRecords
    BY <1>t, <1>f, <1>g, <1>16 DEF Shapes, pyVars, nativeVars, EmitterWrite, DdsRecords
  <2>3. up' \in Seq(Int)
    <3>1. Head(emitter.lines) \in Int
      BY <1>f, <1>h, <1>16, Taking DEF EmitterWrite
    <3> QED
      BY <1>f, <1>16, <3>1, Appending DEF EmitterWrite
  <2> QED
    BY <1>t, <1>f, <1>g, <1>16, <2>1, <2>2, <2>3 DEF Shapes, EmitterWrite, pyVars, nativeVars
<1>17. CASE StdinRead
  <2>1. state' \in StateRecords
    BY <1>t, <1>f, <1>g, <1>17 DEF Shapes, pyVars, nativeVars, StdinRead, StateRecords
  <2>2. stdin' \in StdinRecords
    <3>1. down # <<>> => Head(down) \in Nat
      <4>1. ToSet(down) \subseteq 1..py.sent
        BY DEF IInv, TargetWay
      <4>2. down # <<>> => Head(down) \in ToSet(down)
        BY <1>f, Taking
      <4> QED
        BY <1>f, <4>1, <4>2
    <3>2. (stdin' = [pc |-> "line", line |-> Head(down)] /\ down # <<>>) \/ stdin' = [pc |-> "ended", line |-> 0]
      BY <1>17 DEF StdinRead
    <3> QED
      BY <3>1, <3>2 DEF StdinRecords
  <2>3. down' \in Seq(Int)
    <3>1. (down' = Tail(down) /\ down # <<>>) \/ down' = down
      BY <1>17 DEF StdinRead
    <3> QED
      BY <1>f, <3>1, Taking
  <2> QED
    BY <1>t, <1>f, <1>g, <1>17, <2>1, <2>2, <2>3 DEF Shapes, StdinRead, pyVars, nativeVars
<1>18. CASE StdinStops
  <2>1. stdin' \in StdinRecords
    BY <1>t, <1>f, <1>g, <1>18 DEF Shapes, pyVars, nativeVars, StdinStops, StdinRecords
  <2> QED
    BY <1>t, <1>f, <1>g, <1>18, <2>1 DEF Shapes, StdinStops, pyVars, nativeVars
<1>19. CASE CloseBackend
  BY <1>t, <1>f, <1>g, <1>19 DEF Shapes, CloseBackend, pyVars, nativeVars
<1>20. CASE JoinStdin
  <2>1. state' \in StateRecords
    BY <1>t, <1>f, <1>g, <1>20 DEF Shapes, pyVars, nativeVars, JoinStdin, StateRecords
  <2> QED
    BY <1>t, <1>f, <1>g, <1>20, <2>1 DEF Shapes, JoinStdin, pyVars, nativeVars
<1>21. CASE JoinEmitter
  <2>1. proc' \in ProcRecords
    BY <1>t, <1>f, <1>21 DEF Shapes, JoinEmitter, Exits, ProcRecords
  <2>2. state' \in StateRecords
    BY <1>t, <1>f, <1>g, <1>21 DEF Shapes, pyVars, nativeVars, JoinEmitter, Exits,
      NoState, StateRecords
  <2>3. emitter' \in EmitterRecords
    BY <1>t, <1>f, <1>g, <1>21 DEF Shapes, pyVars, nativeVars, JoinEmitter, Exits,
      NoEmitter, EmitterRecords
  <2>4. stdin' \in StdinRecords
    BY <1>t, <1>f, <1>g, <1>21 DEF Shapes, pyVars, nativeVars, JoinEmitter, Exits,
      NoStdin, StdinRecords
  <2>5. down' \in Seq(Int)
    BY <1>t, <1>f, <1>g, <1>21 DEF Shapes, pyVars, nativeVars, JoinEmitter, Exits
  <2> QED
    BY <1>t, <1>f, <1>g, <1>21, <2>1, <2>2, <2>3, <2>4, <2>5 DEF Shapes, JoinEmitter,
      Exits, pyVars, nativeVars
<1>22. CASE CameraFrame
  <2>1. state' \in StateRecords
    <3>1. dds.camera + 1 \in Nat
      BY <1>f
    <3>2. state' = state \/ state' = [state EXCEPT !.camera = dds.camera + 1]
      BY <1>22 DEF CameraFrame
    <3> QED
      BY <1>t, <3>1, <3>2 DEF Shapes, StateRecords
  <2>2. dds' \in DdsRecords
    <3>1. dds.camera + 1 \in Nat
      BY <1>f
    <3>2. dds' = [dds EXCEPT !.camera = dds.camera + 1]
      BY <1>22 DEF CameraFrame
    <3> QED
      BY <1>t, <3>1, <3>2 DEF Shapes, DdsRecords
  <2> QED
    BY <1>t, <1>f, <1>g, <1>22, <2>1, <2>2 DEF Shapes, CameraFrame, pyVars, nativeVars
<1>23. CASE MappingFails
  <2>1. state' \in StateRecords
    BY <1>t, <1>f, <1>g, <1>23 DEF Shapes, pyVars, nativeVars, MappingFails, Failing,
      StateRecords
  <2> QED
    BY <1>t, <1>f, <1>g, <1>23, <2>1 DEF Shapes, MappingFails, Failing, pyVars, nativeVars
<1>24. CASE Dies
  <2>1. proc' \in ProcRecords
    BY <1>t, <1>f, <1>g, <1>24 DEF Shapes, pyVars, nativeVars, Dies, Exits, ProcRecords
  <2>2. state' \in StateRecords
    BY <1>t, <1>f, <1>g, <1>24 DEF Shapes, pyVars, nativeVars, Dies, Exits, NoState,
      StateRecords
  <2>3. emitter' \in EmitterRecords
    BY <1>t, <1>f, <1>g, <1>24 DEF Shapes, pyVars, nativeVars, Dies, Exits, NoEmitter,
      EmitterRecords
  <2>4. stdin' \in StdinRecords
    BY <1>t, <1>f, <1>g, <1>24 DEF Shapes, pyVars, nativeVars, Dies, Exits, NoStdin,
      StdinRecords
  <2>5. down' \in Seq(Int)
    BY <1>t, <1>f, <1>g, <1>24 DEF Shapes, pyVars, nativeVars, Dies, Exits
  <2> QED
    BY <1>t, <1>f, <1>g, <1>24, <2>1, <2>2, <2>3, <2>4, <2>5 DEF Shapes, Dies, Exits,
      pyVars, nativeVars
<1>25. CASE Crashes
  <2>1. proc' \in ProcRecords
    BY <1>t, <1>f, <1>g, <1>25 DEF Shapes, pyVars, nativeVars, Crashes, Exits, ProcRecords
  <2>2. state' \in StateRecords
    BY <1>t, <1>f, <1>g, <1>25 DEF Shapes, pyVars, nativeVars, Crashes, Exits, NoState,
      StateRecords
  <2>3. emitter' \in EmitterRecords
    BY <1>t, <1>f, <1>g, <1>25 DEF Shapes, pyVars, nativeVars, Crashes, Exits, NoEmitter,
      EmitterRecords
  <2>4. stdin' \in StdinRecords
    BY <1>t, <1>f, <1>g, <1>25 DEF Shapes, pyVars, nativeVars, Crashes, Exits, NoStdin,
      StdinRecords
  <2>5. down' \in Seq(Int)
    BY <1>t, <1>f, <1>g, <1>25 DEF Shapes, pyVars, nativeVars, Crashes, Exits
  <2> QED
    BY <1>t, <1>f, <1>g, <1>25, <2>1, <2>2, <2>3, <2>4, <2>5 DEF Shapes, Crashes, Exits,
      pyVars, nativeVars
<1>26. CASE CliDies
  <2>1. py' \in PyRecords
    BY <1>t, <1>f, <1>g, <1>26 DEF Shapes, pyVars, nativeVars, CliDies, NoWriter,
      PyRecords, Closing
  <2>2. writer' \in WriterRecords
    BY <1>t, <1>f, <1>g, <1>26 DEF Shapes, pyVars, nativeVars, CliDies, NoWriter, WriterRecords
  <2>3. queue' \in Int
    BY <1>t, <1>f, <1>g, <1>26 DEF Shapes, pyVars, nativeVars, CliDies, NoWriter
  <2>4. up' \in Seq(Int)
    BY <1>t, <1>f, <1>g, <1>26 DEF Shapes, pyVars, nativeVars, CliDies, NoWriter
  <2> QED
    BY <1>t, <1>f, <1>g, <1>26, <2>1, <2>2, <2>3, <2>4 DEF Shapes, CliDies, NoWriter,
      pyVars, nativeVars
<1>27. ASSUME NEW ok \in BOOLEAN, PublishGaze(ok) PROVE Shapes'
  <2>1. state' \in StateRecords
    BY <1>t, <1>f, <1>g, <1>27 DEF Shapes, pyVars, nativeVars, PublishGaze, Failing,
      StateRecords
  <2>2. stdin' \in StdinRecords
    BY <1>t, <1>f, <1>g, <1>27 DEF Shapes, pyVars, nativeVars, PublishGaze, Failing,
      StdinRecords
  <2>3. dds' \in DdsRecords
    BY <1>t, <1>f, <1>g, <1>27 DEF Shapes, pyVars, nativeVars, PublishGaze, Failing, DdsRecords
  <2> QED
    BY <1>t, <1>f, <1>g, <1>27, <2>1, <2>2, <2>3 DEF Shapes, PublishGaze, Failing,
      pyVars, nativeVars
<1>28. ASSUME NEW ok \in BOOLEAN, StartBackend(ok) PROVE Shapes'
  <2>1. state' \in StateRecords
    BY <1>t, <1>f, <1>g, <1>28 DEF Shapes, pyVars, nativeVars, StartBackend, Failing,
      StateRecords
  <2>2. stdin' \in StdinRecords
    BY <1>t, <1>f, <1>g, <1>28 DEF Shapes, pyVars, nativeVars, StartBackend, Failing,
      StdinRecords
  <2> QED
    BY <1>t, <1>f, <1>g, <1>28, <2>1, <2>2 DEF Shapes, StartBackend, Failing, pyVars, nativeVars
<1>29. CASE UNCHANGED vars
  BY <1>t, <1>f, <1>g, <1>29 DEF Shapes, vars, pyVars, nativeVars
<1> QED
  BY <1>t, <1>f, <1>g, <1>1, <1>2, <1>3, <1>4, <1>5, <1>6, <1>7, <1>8, <1>9, <1>10,
    <1>11, <1>12, <1>13, <1>14, <1>15, <1>16, <1>17, <1>18, <1>19, <1>20, <1>21, <1>22,
    <1>23, <1>24, <1>25, <1>26, <1>27, <1>28, <1>29
     DEF Next, Users, CloseSteps, Writer, Reader, Emitter, Stdin, Main, Dds

-----------------------------------------------------------------------------
(* The way of the camera frames                                            *)

CameraStill == UNCHANGED <<py.taken, py.latest, up, emitter.lines, state.camera, dds.camera>>

LEMMA PollKeepsOrder ==
  ASSUME IInv, PollLatestCamera
  PROVE  CameraWay'
<1>1. /\ py'.taken = py.latest /\ py'.latest = 0
      /\ UNCHANGED <<up, emitter.lines, state.camera, dds.camera>>
  BY DEF IInv, Shapes, PyRecords, PollLatestCamera, nativeVars
<1>2. py.latest > 0 /\ dds.camera \in Nat
  BY Fields DEF PollLatestCamera
<1> QED
  BY <1>1, <1>2 DEF IInv, CameraWay, Before, Held

LEMMA ReadKeepsOrder ==
  ASSUME IInv, ReadLine
  PROVE  CameraWay'
<1> DEFINE h == Head(up)
<1>1. /\ up' = Tail(up) /\ py'.taken = py.taken
      /\ py'.latest = py.latest \/ (h # ErrorLine /\ py'.latest = h)
      /\ UNCHANGED <<emitter.lines, state.camera, dds.camera>>
  BY DEF IInv, Shapes, PyRecords, ReadLine, nativeVars
<1>2. up \in Seq(Int) /\ up # <<>>
  BY Fields DEF ReadLine
<1>3. /\ h \in ToSet(up) /\ ToSet(up') \subseteq ToSet(up) /\ Increasing(up')
      /\ Before({h}, ToSet(up'))
  BY <1>1, <1>2, Taking DEF IInv, CameraWay
<1>4. CameraWay /\ dds.camera \in Nat /\ py.latest \in Nat /\ py.taken \in Nat
  BY Fields DEF IInv
<1> HIDE DEF h
<1>5. CASE py'.latest = py.latest
  BY <1>1, <1>3, <1>4, <1>5 DEF CameraWay, Before, Held
<1>6. CASE h # ErrorLine /\ py'.latest = h
  <2>1. h \in 1..dds.camera /\ Held(py'.latest) = {h} /\ h <= dds.camera
    BY <1>3, <1>4, <1>6 DEF CameraWay, Held
  <2>2. /\ Before({py.taken}, {h})
        /\ Before({h}, ToSet(emitter.lines) \cup Held(state.camera))
    BY <1>3, <1>4 DEF CameraWay, Before
  <2>3. /\ Before({py.taken}, {h} \cup ToSet(up') \cup ToSet(emitter.lines) \cup Held(state.camera))
        /\ Before({h}, ToSet(up') \cup ToSet(emitter.lines) \cup Held(state.camera))
        /\ Before(ToSet(up'), ToSet(emitter.lines) \cup Held(state.camera))
    BY <1>3, <1>4, <2>2 DEF CameraWay, Before
  <2> QED
    BY <1>1, <1>3, <1>4, <1>6, <2>1, <2>3 DEF CameraWay
<1> QED
  BY <1>1, <1>5, <1>6

LEMMA FrameKeepsOrder ==
  ASSUME IInv, CameraFrame
  PROVE  CameraWay'
<1>1. /\ dds'.camera = dds.camera + 1 /\ UNCHANGED <<py, up, emitter>>
      /\ state'.camera = state.camera \/ state'.camera = dds.camera + 1
  BY DEF IInv, Shapes, DdsRecords, StateRecords, CameraFrame, pyVars
<1>2. /\ CameraWay /\ dds.camera \in Nat /\ py.latest \in Nat /\ py.taken \in Nat
      /\ state.camera \in Nat
  BY Fields DEF IInv
<1>3. ToSet(up) \cup ToSet(emitter.lines) \subseteq {ErrorLine} \cup 1..(dds.camera + 1)
  BY <1>2 DEF CameraWay
<1>4. CASE state'.camera = state.camera
  BY <1>1, <1>2, <1>3, <1>4 DEF CameraWay
<1>5. CASE state'.camera = dds.camera + 1
  <2> DEFINE n == dds.camera + 1
  <2>1. Held(state'.camera) = {n}
    BY <1>2, <1>5 DEF Held
  <2>2. \A a \in {py.taken} \cup Held(py.latest) \cup ToSet(up) \cup ToSet(emitter.lines) :
          a = ErrorLine \/ a < n
    BY <1>2 DEF CameraWay, Held
  <2>3. py.taken <= n /\ py.latest <= n /\ n <= n
    BY <1>2 DEF CameraWay
  <2> HIDE DEF n
  <2>4. /\ Before({py.taken}, {n}) /\ Before(Held(py.latest), {n})
        /\ Before(ToSet(up), {n}) /\ Before(ToSet(emitter.lines), {n})
    BY <2>2 DEF Before
  <2>5. /\ dds'.camera = n /\ state'.camera = n /\ UNCHANGED <<py, up, emitter>>
        /\ ToSet(up) \cup ToSet(emitter.lines) \subseteq {ErrorLine} \cup 1..n
    BY <1>1, <1>3, <1>5 DEF n
  <2> QED
    BY <1>2, <2>1, <2>3, <2>4, <2>5 DEF CameraWay, Before
<1> QED
  BY <1>1, <1>4, <1>5

LEMMA TakeKeepsOrder ==
  ASSUME IInv, EmitterTake
  PROVE  CameraWay'
<1>1. /\ UNCHANGED <<py, up, dds>>
      /\ \/ emitter'.lines = emitter.lines /\ state'.camera = state.camera
         \/ emitter'.lines = Pending /\ state'.camera = 0
  <2>1. CASE EmitterEnds(Pending)
    BY <2>1 DEF IInv, Shapes, EmitterRecords, EmitterTake, pyVars
  <2>2. CASE ~ EmitterEnds(Pending)
    <3>1. emitter'.lines = Pending /\ UNCHANGED <<py, up, dds>>
      BY <2>2 DEF EmitterTake, pyVars
    <3>2. state' = [state EXCEPT !.camera = 0, !.error = FALSE]
      BY <2>2 DEF EmitterTake, CameraAfterTake
    <3>3. state'.camera = 0
      BY <3>2 DEF IInv, Shapes, StateRecords
    <3> QED
      BY <3>1, <3>3
  <2> QED
    BY <2>1, <2>2
<1>2. emitter.lines = <<>> /\ ToSet(emitter.lines) = {}
  BY Empty DEF IInv, Holds, EmitterTake
<1>3. /\ Increasing(Pending)
      /\ ToSet(Pending) = Held(state.camera) \cup (IF state.error THEN {ErrorLine} ELSE {})
  BY Pendings
<1>4. CameraWay /\ dds.camera \in Nat /\ state.camera \in Nat /\ Held(0) = {}
  BY Fields DEF IInv, Held
<1>5. CASE emitter'.lines = emitter.lines /\ state'.camera = state.camera
  BY <1>1, <1>4, <1>5 DEF CameraWay
<1>6. CASE emitter'.lines = Pending /\ state'.camera = 0
  <2>1. ToSet(Pending) \subseteq {ErrorLine} \cup 1..dds.camera
    BY <1>3, <1>4 DEF CameraWay, Held
  <2>2. ASSUME NEW A, Before(A, Held(state.camera)) PROVE Before(A, ToSet(Pending))
    BY <1>3, <2>2 DEF Before
  <2>3. /\ Before({py.taken}, Held(state.camera)) /\ Before(Held(py.latest), Held(state.camera))
        /\ Before(ToSet(up), Held(state.camera))
        /\ Before({py.taken}, Held(py.latest) \cup ToSet(up)) /\ Before(Held(py.latest), ToSet(up))
    BY <1>4 DEF CameraWay, Before
  <2>4. /\ Before({py.taken}, ToSet(Pending)) /\ Before(Held(py.latest), ToSet(Pending))
        /\ Before(ToSet(up), ToSet(Pending))
    BY <2>2, <2>3
  <2>5. 0 <= dds.camera
    BY <1>4
  <2> QED
    BY <1>1, <1>3, <1>4, <1>6, <2>1, <2>3, <2>4, <2>5 DEF CameraWay, Before
<1> QED
  BY <1>1, <1>5, <1>6

LEMMA WriteKeepsOrder ==
  ASSUME IInv, EmitterWrite
  PROVE  CameraWay'
<1> DEFINE h == Head(emitter.lines)
<1>1. emitter.lines \in Seq(Int) /\ up \in Seq(Int) /\ emitter.lines # <<>> /\ CameraWay
  BY Fields DEF IInv, Holds, EmitterWrite
<1>2. /\ h \in Int /\ ToSet(emitter.lines) = {h} \cup ToSet(Tail(emitter.lines))
      /\ Increasing(Tail(emitter.lines)) /\ Before({h}, ToSet(Tail(emitter.lines)))
      /\ Len(emitter.lines) = 1 => ToSet(Tail(emitter.lines)) = {}
  BY <1>1, Taking DEF CameraWay
<1>3. up' = Append(up, h) /\ UNCHANGED <<py, state>> /\ dds'.camera = dds.camera
  BY DEF IInv, Shapes, DdsRecords, EmitterWrite, pyVars
<1>4. /\ ToSet(emitter'.lines) = ToSet(Tail(emitter.lines)) /\ Increasing(emitter'.lines)
  <2>1. CASE Len(emitter.lines) = 1
    BY <1>2, <2>1, Empty DEF EmitterWrite
  <2>2. CASE Len(emitter.lines) # 1
    BY <1>2, <2>2 DEF EmitterWrite, IInv, Shapes, EmitterRecords
  <2> QED
    BY <2>1, <2>2
<1> HIDE DEF h
<1>5. ToSet(up') = ToSet(up) \cup {h} /\ Increasing(up')
  <2>1. Before(ToSet(up), {h})
    BY <1>1, <1>2 DEF CameraWay, Before
  <2> QED
    BY <1>1, <1>2, <1>3, <2>1, Appending DEF CameraWay
<1> QED
  BY <1>1, <1>2, <1>3, <1>4, <1>5 DEF CameraWay, Before

LEMMA EndKeepsOrder ==
  ASSUME IInv, state' = NoState, emitter' = NoEmitter, UNCHANGED <<py, up, dds>>
  PROVE  CameraWay'
<1>1. state'.camera = 0 /\ emitter'.lines = <<>> /\ ToSet(<<>>) = {} /\ Increasing(<<>>)
  BY Empty DEF NoState, NoEmitter
<1>2. dds.camera \in Nat /\ Held(0) = {}
  BY Fields DEF Held
<1> QED
  BY <1>1, <1>2 DEF IInv, CameraWay, Before

LEMMA DeathKeepsOrder ==
  ASSUME IInv, CliDies
  PROVE  CameraWay'
<1>1. /\ py'.latest = 0 /\ py'.taken = py.taken /\ up' = <<>>
      /\ UNCHANGED <<state, emitter, dds>> /\ ToSet(<<>>) = {} /\ Increasing(<<>>)
  BY Empty DEF IInv, Shapes, PyRecords, CliDies, nativeVars
<1>2. dds.camera \in Nat /\ Held(0) = {}
  BY Fields DEF Held
<1> QED
  BY <1>1, <1>2 DEF IInv, CameraWay, Before

LEMMA StillKeepsOrder ==
  ASSUME IInv, CameraStill
  PROVE  CameraWay'
  BY DEF IInv, CameraStill, CameraWay

LEMMA CameraKept ==
  ASSUME IInv, [Next]_vars
  PROVE  CameraWay'
<1>1. CASE Start
  BY <1>1, StillKeepsOrder
     DEF CameraStill, IInv, Shapes, pyVars, nativeVars, Start, PyRecords, WriterRecords, ProcRecords, EmitterRecords
<1>2. CASE FindsItDead
  BY <1>2, StillKeepsOrder
     DEF CameraStill, IInv, Shapes, pyVars, nativeVars, FindsItDead, PyRecords
<1>3. CASE PollLatestCamera
  BY <1>3, PollKeepsOrder
<1>4. CASE SendGazeTarget
  BY <1>4, StillKeepsOrder
     DEF CameraStill, IInv, Shapes, pyVars, nativeVars, SendGazeTarget, Latest, PyRecords
<1>5. CASE BeginClose
  BY <1>5, StillKeepsOrder
     DEF CameraStill, IInv, Shapes, pyVars, nativeVars, BeginClose, CloseStep, PyRecords
<1>6. CASE PutWriterStop
  BY <1>6, StillKeepsOrder
     DEF CameraStill, IInv, Shapes, pyVars, nativeVars, PutWriterStop, CloseStep, Latest, PyRecords
<1>7. CASE Terminate
  BY <1>7, StillKeepsOrder
     DEF CameraStill, IInv, Shapes, pyVars, nativeVars, Terminate, CloseStep, PyRecords, ProcRecords
<1>8. CASE WaitForChild
  BY <1>8, StillKeepsOrder
     DEF CameraStill, IInv, Shapes, pyVars, nativeVars, WaitForChild, CloseStep, SignalAfterWait, PyRecords, ProcRecords
<1>9. CASE JoinThreads
  BY <1>9, StillKeepsOrder
     DEF CameraStill, IInv, Shapes, pyVars, nativeVars, JoinThreads, CloseStep, PyRecords
<1>10. CASE WriterGet
  BY <1>10, StillKeepsOrder
     DEF CameraStill, IInv, Shapes, pyVars, nativeVars, WriterGet, WriterRecords
<1>11. CASE WriterWrite
  BY <1>11, StillKeepsOrder
     DEF CameraStill, IInv, Shapes, pyVars, nativeVars, WriterWrite, Marked, AfterWrite, PyRecords, WriterRecords
<1>12. CASE ReadLine
  BY <1>12, ReadKeepsOrder
<1>13. CASE ReadEof
  BY <1>13, StillKeepsOrder
     DEF CameraStill, IInv, Shapes, pyVars, nativeVars, ReadEof, AfterEof
<1>14. CASE MarkEof
  BY <1>14, StillKeepsOrder
     DEF CameraStill, IInv, Shapes, pyVars, nativeVars, MarkEof, Marked, PyRecords
<1>15. CASE EmitterTake
  BY <1>15, TakeKeepsOrder
<1>16. CASE EmitterWrite
  BY <1>16, WriteKeepsOrder
<1>17. CASE StdinRead
  BY <1>17, StillKeepsOrder
     DEF CameraStill, IInv, Shapes, pyVars, nativeVars, StdinRead, StateRecords, StdinRecords
<1>18. CASE StdinStops
  BY <1>18, StillKeepsOrder
     DEF CameraStill, IInv, Shapes, pyVars, nativeVars, StdinStops, StdinRecords
<1>19. CASE CloseBackend
  BY <1>19, StillKeepsOrder
     DEF CameraStill, IInv, Shapes, pyVars, nativeVars, CloseBackend
<1>20. CASE JoinStdin
  BY <1>20, StillKeepsOrder
     DEF CameraStill, IInv, Shapes, pyVars, nativeVars, JoinStdin, StateRecords
<1>21. CASE JoinEmitter
  BY <1>21, EndKeepsOrder DEF JoinEmitter, Exits, pyVars
<1>22. CASE CameraFrame
  BY <1>22, FrameKeepsOrder
<1>23. CASE MappingFails
  BY <1>23, StillKeepsOrder
     DEF CameraStill, IInv, Shapes, pyVars, nativeVars, MappingFails, Failing, StateRecords
<1>24. CASE Dies
  BY <1>24, EndKeepsOrder DEF Dies, Exits, pyVars
<1>25. CASE Crashes
  BY <1>25, EndKeepsOrder DEF Crashes, Exits, pyVars
<1>26. CASE CliDies
  BY <1>26, DeathKeepsOrder
<1>27. ASSUME NEW ok \in BOOLEAN, PublishGaze(ok) PROVE CameraWay'
  BY <1>27, StillKeepsOrder
     DEF CameraStill, IInv, Shapes, pyVars, nativeVars, PublishGaze, Failing, StateRecords, StdinRecords, DdsRecords
<1>28. ASSUME NEW ok \in BOOLEAN, StartBackend(ok) PROVE CameraWay'
  BY <1>28, StillKeepsOrder
     DEF CameraStill, IInv, Shapes, pyVars, nativeVars, StartBackend, Failing, StateRecords, StdinRecords
<1>29. CASE UNCHANGED vars
  BY <1>29, StillKeepsOrder DEF CameraStill, vars, pyVars, nativeVars
<1> QED
  BY <1>1, <1>2, <1>3, <1>4, <1>5, <1>6, <1>7, <1>8, <1>9, <1>10, <1>11, <1>12, <1>13,
    <1>14, <1>15, <1>16, <1>17, <1>18, <1>19, <1>20, <1>21, <1>22, <1>23, <1>24, <1>25,
    <1>26, <1>27, <1>28, <1>29
     DEF Next, Users, CloseSteps, Writer, Reader, Emitter, Stdin, Main, Dds

-----------------------------------------------------------------------------
(* The way of the gaze targets                                             *)

TargetStill == UNCHANGED <<py.sent, dds.published, stdin.line, down, writer.item, queue>>

LEMMA TargetFacts ==
  ASSUME IInv
  PROVE  /\ TargetWay /\ py.sent \in Nat /\ down \in Seq(Int)
         /\ writer.item \in Nat /\ stdin.line \in Nat /\ dds.published \in Nat
         /\ Held(0) = {} /\ Held(Stop) = {} /\ ToSet(<<>>) = {} /\ Increasing(<<>>)
         /\ 0 <= py.sent
  BY Fields, Empty DEF IInv, Held, Stop

LEMMA SendKeepsOrder ==
  ASSUME IInv, SendGazeTarget
  PROVE  TargetWay'
<1> DEFINE n == py.sent + 1
<1>1. py'.sent = n /\ queue' = n /\ UNCHANGED <<dds, stdin, down, writer>>
  BY DEF IInv, Shapes, PyRecords, SendGazeTarget, Latest, nativeVars
<1>2. /\ TargetWay /\ py.sent \in Nat /\ writer.item \in Nat /\ stdin.line \in Nat
      /\ dds.published \in Nat
  BY TargetFacts
<1>3. Held(n) = {n}
  BY <1>2 DEF Held
<1>4. \A a \in {dds.published} \cup Held(stdin.line) \cup ToSet(down) \cup Held(writer.item) : a < n
  BY <1>2 DEF TargetWay, Held
<1>5. ToSet(down) \subseteq 1..n /\ dds.published <= n /\ stdin.line <= n /\ writer.item <= n
  BY <1>2 DEF TargetWay
<1> HIDE DEF n
<1>6. /\ Before({dds.published}, {n}) /\ Before(Held(stdin.line), {n})
      /\ Before(ToSet(down), {n}) /\ Before(Held(writer.item), {n})
  BY <1>4 DEF Before
<1> QED
  BY <1>1, <1>2, <1>3, <1>5, <1>6 DEF TargetWay, Before

LEMMA StopKeepsOrder ==
  ASSUME IInv, PutWriterStop
  PROVE  TargetWay'
<1>1. py'.sent = py.sent /\ queue' = Stop /\ UNCHANGED <<dds, stdin, down, writer>>
  BY DEF IInv, Shapes, PyRecords, PutWriterStop, CloseStep, Latest, nativeVars
<1> QED
  BY <1>1, TargetFacts DEF TargetWay, Before

LEMMA GetKeepsOrder ==
  ASSUME IInv, WriterGet
  PROVE  TargetWay'
<1>1. /\ queue' = 0 /\ UNCHANGED <<py, dds, stdin, down>>
      /\ writer'.item = 0 \/ (writer'.item = queue /\ queue # Stop)
  BY DEF WriterGet, nativeVars
<1>2. /\ TargetWay /\ py.sent \in Nat /\ Held(0) = {} /\ 0 <= py.sent
  BY TargetFacts
<1>3. CASE writer'.item = 0
  BY <1>1, <1>2, <1>3 DEF TargetWay, Before
<1>4. CASE writer'.item = queue /\ queue # Stop
  <2>1. queue <= py.sent
    BY <1>2, <1>4 DEF TargetWay
  <2> QED
    BY <1>1, <1>2, <1>4, <2>1 DEF TargetWay, Before
<1> QED
  BY <1>1, <1>3, <1>4

LEMMA PipeKeepsOrder ==
  ASSUME IInv, WriterWrite
  PROVE  TargetWay'
<1>0. /\ TargetWay /\ py.sent \in Nat /\ Held(0) = {} /\ 0 <= py.sent
      /\ down \in Seq(Int) /\ writer.item \in Nat
  BY TargetFacts
<1>1. py'.sent = py.sent /\ writer'.item = 0 /\ UNCHANGED <<queue, dds, stdin>>
  BY DEF IInv, Shapes, PyRecords, WriterWrite, nativeVars
<1>2. CASE down' = down
  BY <1>0, <1>1, <1>2 DEF TargetWay, Before
<1>3. CASE down' = Append(down, writer.item)
  <2>1. writer.item > 0 /\ Held(writer.item) = {writer.item} /\ writer.item \in 1..py.sent
    BY <1>0 DEF IInv, Holds, WriterWrite, Held, TargetWay
  <2>2. ToSet(down') = ToSet(down) \cup {writer.item} /\ Increasing(down')
    <3>1. Before(ToSet(down), {writer.item}) /\ Increasing(down) /\ writer.item \in Int
      BY <1>0, <2>1 DEF TargetWay, Before
    <3> QED
      BY <1>0, <1>3, <3>1, Appending
  <2> QED
    BY <1>0, <1>1, <2>1, <2>2 DEF TargetWay, Before
<1> QED
  BY <1>2, <1>3 DEF WriterWrite

LEMMA LineKeepsOrder ==
  ASSUME IInv, StdinRead
  PROVE  TargetWay'
<1> DEFINE h == Head(down)
<1>0. /\ TargetWay /\ py.sent \in Nat /\ Held(0) = {} /\ 0 <= py.sent /\ down \in Seq(Int)
  BY TargetFacts
<1>1. /\ UNCHANGED <<py, queue, writer, dds>>
      /\ \/ down # <<>> /\ stdin'.line = h /\ down' = Tail(down)
         \/ stdin'.line = 0 /\ down' = down
  BY DEF StdinRead, pyVars
<1>2. CASE stdin'.line = 0 /\ down' = down
  BY <1>0, <1>1, <1>2 DEF TargetWay, Before
<1>3. CASE down # <<>> /\ stdin'.line = h /\ down' = Tail(down)
  <2>1. /\ h \in ToSet(down) /\ ToSet(down') \subseteq ToSet(down) /\ Increasing(down')
        /\ Before({h}, ToSet(down'))
    BY <1>0, <1>3, Taking DEF TargetWay
  <2> HIDE DEF h
  <2>2. h \in 1..py.sent /\ h <= py.sent /\ Held(stdin'.line) = {h}
    BY <1>0, <1>3, <2>1 DEF TargetWay, Held
  <2>3. /\ Before({dds.published}, {h} \cup ToSet(down') \cup Held(writer.item) \cup Held(queue))
        /\ Before({h}, ToSet(down') \cup Held(writer.item) \cup Held(queue))
        /\ Before(ToSet(down'), Held(writer.item) \cup Held(queue))
    BY <1>0, <2>1 DEF TargetWay, Before
  <2> QED
    BY <1>0, <1>1, <1>3, <2>1, <2>2, <2>3 DEF TargetWay
<1> QED
  BY <1>1, <1>2, <1>3

LEMMA PublishingKeepsOrder ==
  ASSUME IInv, NEW ok \in BOOLEAN, PublishGaze(ok)
  PROVE  TargetWay'
<1>0. TargetWay /\ Held(0) = {} /\ 0 <= py.sent /\ stdin.line \in Nat
  BY TargetFacts
<1>1. /\ stdin'.line = 0 /\ UNCHANGED <<py, queue, writer, down>>
      /\ dds'.published \in {dds.published, stdin.line}
  BY DEF IInv, Shapes, DdsRecords, PublishGaze, pyVars
<1>2. Held(stdin.line) = {stdin.line}
  BY <1>0 DEF IInv, Holds, PublishGaze, Held
<1> QED
  BY <1>0, <1>1, <1>2 DEF TargetWay, Before

LEMMA EndingKeepsOrder ==
  ASSUME IInv, stdin' = NoStdin, down' = <<>>, UNCHANGED <<py, queue, writer, dds>>
  PROVE  TargetWay'
<1>1. stdin'.line = 0
  BY DEF NoStdin
<1> QED
  BY <1>1, TargetFacts DEF TargetWay, Before

LEMMA DyingKeepsOrder ==
  ASSUME IInv, CliDies
  PROVE  TargetWay'
<1>1. /\ py'.sent = py.sent /\ queue' = 0 /\ writer'.item = 0 /\ UNCHANGED <<dds, stdin, down>>
  BY DEF IInv, Shapes, PyRecords, CliDies, NoWriter, nativeVars
<1> QED
  BY <1>1, TargetFacts DEF TargetWay, Before

LEMMA StillKeepsTargets ==
  ASSUME IInv, TargetStill
  PROVE  TargetWay'
  BY DEF IInv, TargetStill, TargetWay

LEMMA TargetsKept ==
  ASSUME IInv, [Next]_vars
  PROVE  TargetWay'
<1>1. CASE Start
  BY <1>1, StillKeepsTargets
     DEF TargetStill, IInv, Shapes, pyVars, nativeVars, Start, PyRecords, WriterRecords, ProcRecords, EmitterRecords
<1>2. CASE FindsItDead
  BY <1>2, StillKeepsTargets
     DEF TargetStill, IInv, Shapes, pyVars, nativeVars, FindsItDead, PyRecords
<1>3. CASE PollLatestCamera
  BY <1>3, StillKeepsTargets
     DEF TargetStill, IInv, Shapes, pyVars, nativeVars, PollLatestCamera, PyRecords
<1>4. CASE SendGazeTarget
  BY <1>4, SendKeepsOrder
<1>5. CASE BeginClose
  BY <1>5, StillKeepsTargets
     DEF TargetStill, IInv, Shapes, pyVars, nativeVars, BeginClose, CloseStep, PyRecords
<1>6. CASE PutWriterStop
  BY <1>6, StopKeepsOrder
<1>7. CASE Terminate
  BY <1>7, StillKeepsTargets
     DEF TargetStill, IInv, Shapes, pyVars, nativeVars, Terminate, CloseStep, PyRecords, ProcRecords
<1>8. CASE WaitForChild
  BY <1>8, StillKeepsTargets
     DEF TargetStill, IInv, Shapes, pyVars, nativeVars, WaitForChild, CloseStep, SignalAfterWait, PyRecords, ProcRecords
<1>9. CASE JoinThreads
  BY <1>9, StillKeepsTargets
     DEF TargetStill, IInv, Shapes, pyVars, nativeVars, JoinThreads, CloseStep, PyRecords
<1>10. CASE WriterGet
  BY <1>10, GetKeepsOrder
<1>11. CASE WriterWrite
  BY <1>11, PipeKeepsOrder
<1>12. CASE ReadLine
  BY <1>12, StillKeepsTargets
     DEF TargetStill, IInv, Shapes, pyVars, nativeVars, ReadLine, Marked, PyRecords
<1>13. CASE ReadEof
  BY <1>13, StillKeepsTargets
     DEF TargetStill, IInv, Shapes, pyVars, nativeVars, ReadEof, AfterEof
<1>14. CASE MarkEof
  BY <1>14, StillKeepsTargets
     DEF TargetStill, IInv, Shapes, pyVars, nativeVars, MarkEof, Marked, PyRecords
<1>15. CASE EmitterTake
  BY <1>15, StillKeepsTargets
     DEF TargetStill, IInv, Shapes, pyVars, nativeVars, EmitterTake, CameraAfterTake, StateRecords, EmitterRecords
<1>16. CASE EmitterWrite
  BY <1>16, StillKeepsTargets
     DEF TargetStill, IInv, Shapes, pyVars, nativeVars, EmitterWrite, EmitterRecords, DdsRecords
<1>17. CASE StdinRead
  BY <1>17, LineKeepsOrder
<1>18. CASE StdinStops
  BY <1>18, StillKeepsTargets
     DEF TargetStill, IInv, Shapes, pyVars, nativeVars, StdinStops, StdinRecords
<1>19. CASE CloseBackend
  BY <1>19, StillKeepsTargets
     DEF TargetStill, IInv, Shapes, pyVars, nativeVars, CloseBackend
<1>20. CASE JoinStdin
  BY <1>20, StillKeepsTargets
     DEF TargetStill, IInv, Shapes, pyVars, nativeVars, JoinStdin, StateRecords
<1>21. CASE JoinEmitter
  BY <1>21, EndingKeepsOrder DEF JoinEmitter, Exits, pyVars
<1>22. CASE CameraFrame
  BY <1>22, StillKeepsTargets
     DEF TargetStill, IInv, Shapes, pyVars, nativeVars, CameraFrame, StateRecords, DdsRecords
<1>23. CASE MappingFails
  BY <1>23, StillKeepsTargets
     DEF TargetStill, IInv, Shapes, pyVars, nativeVars, MappingFails, Failing, StateRecords
<1>24. CASE Dies
  BY <1>24, EndingKeepsOrder DEF Dies, Exits, pyVars
<1>25. CASE Crashes
  BY <1>25, EndingKeepsOrder DEF Crashes, Exits, pyVars
<1>26. CASE CliDies
  BY <1>26, DyingKeepsOrder
<1>27. ASSUME NEW ok \in BOOLEAN, PublishGaze(ok) PROVE TargetWay'
  BY <1>27, PublishingKeepsOrder
<1>28. ASSUME NEW ok \in BOOLEAN, StartBackend(ok) PROVE TargetWay'
  BY <1>28, StillKeepsTargets
     DEF TargetStill, IInv, Shapes, pyVars, nativeVars, StartBackend, Failing, StateRecords, StdinRecords
<1>29. CASE UNCHANGED vars
  BY <1>29, StillKeepsTargets DEF TargetStill, vars, pyVars, nativeVars
<1> QED
  BY <1>1, <1>2, <1>3, <1>4, <1>5, <1>6, <1>7, <1>8, <1>9, <1>10, <1>11, <1>12, <1>13,
    <1>14, <1>15, <1>16, <1>17, <1>18, <1>19, <1>20, <1>21, <1>22, <1>23, <1>24, <1>25,
    <1>26, <1>27, <1>28, <1>29
     DEF Next, Users, CloseSteps, Writer, Reader, Emitter, Stdin, Main, Dds

-----------------------------------------------------------------------------
(* The threads and the errors                                              *)

LEMMA HoldsKept ==
  ASSUME IInv, [Next]_vars
  PROVE  Holds'
<1>t. /\ Shapes /\ Holds
      /\ {dds.camera, dds.published, py.latest, py.taken, py.sent, writer.item,
          stdin.line, state.camera, PipeRoom} \subseteq Nat
      /\ down \in Seq(Int) /\ up \in Seq(Int) /\ emitter.lines \in Seq(Int)
      /\ Len(down) \in Nat /\ Len(up) \in Nat /\ Len(emitter.lines) \in Nat
      /\ Len(<<>>) = 0 /\ queue \in {Stop, 0, py.sent} /\ Stop < 0
  BY Fields, Empty DEF IInv, Stop
<1>1. CASE Start
  BY <1>t, <1>1 DEF Holds, Alive, Closed, Running, Shapes, NoState, NoEmitter, NoStdin,
                  Start, PyRecords, WriterRecords, ProcRecords
<1>2. CASE FindsItDead
  BY <1>t, <1>2 DEF Holds, Alive, Running, Shapes, pyVars, nativeVars, FindsItDead, PyRecords
<1>3. CASE PollLatestCamera
  BY <1>t, <1>3 DEF Holds, Alive, Running, Shapes, pyVars, nativeVars, PollLatestCamera,
    PyRecords
<1>4. CASE SendGazeTarget
  BY <1>t, <1>4 DEF Holds, Alive, Running, Shapes, pyVars, nativeVars, SendGazeTarget,
    Latest, PyRecords
<1>5. CASE BeginClose
  BY <1>t, <1>5 DEF Holds, Alive, Running, Shapes, pyVars, nativeVars, BeginClose,
    CloseStep, PyRecords
<1>6. CASE PutWriterStop
  BY <1>t, <1>6 DEF Holds, Alive, Running, Shapes, pyVars, nativeVars, PutWriterStop,
    CloseStep, Latest, PyRecords
<1>7. CASE Terminate
  BY <1>t, <1>7 DEF Holds, Alive, Running, Shapes, pyVars, nativeVars, Terminate,
    CloseStep, PyRecords, ProcRecords
<1>8. CASE WaitForChild
  BY <1>t, <1>8 DEF Holds, Alive, Running, Shapes, pyVars, nativeVars, WaitForChild,
    CloseStep, SignalAfterWait, PyRecords, ProcRecords
<1>9. CASE JoinThreads
  BY <1>t, <1>9 DEF Holds, Alive, Running, Shapes, pyVars, nativeVars, JoinThreads,
    CloseStep, PyRecords
<1>10. CASE WriterGet
  <2>1. UNCHANGED <<py, reader, proc, down, up, state, emitter, stdin, main>>
    BY <1>10 DEF WriterGet, nativeVars
  <2>2. py.started /\ Alive
    BY <1>t, <1>10 DEF WriterGet, Holds
  <2>3. \/ writer'.pc = "ended"
        \/ writer'.pc = "write" /\ writer'.item = queue /\ queue \notin {0, Stop}
    BY <1>10 DEF WriterGet
  <2>4. queue \notin {0, Stop} => queue > 0
    BY <1>t
  <2> QED
    BY <1>t, <2>1, <2>2, <2>3, <2>4 DEF Holds, Alive, Running
<1>11. CASE WriterWrite
  <2>1. UNCHANGED <<reader, proc, up, state, emitter, stdin, main>> /\ py.started /\ Alive
    BY <1>t, <1>11 DEF WriterWrite, nativeVars, Holds
  <2>2. py'.started = py.started /\ py'.close = py.close
    BY <1>t, <1>11 DEF WriterWrite, Shapes, PyRecords
  <2>3. writer'.pc \in {"ended", "get"}
    BY <1>11 DEF WriterWrite, AfterWrite
  <2>4. Len(down') <= PipeRoom
    <3>1. CASE down' = down
      BY <1>t, <3>1 DEF Holds
    <3>2. CASE Len(down) < PipeRoom /\ down' = Append(down, writer.item)
      <4>1. writer.item \in Int
        BY <1>t
      <4>2. Len(down') = Len(down) + 1
        BY <1>t, <3>2, <4>1, Appending
      <4> QED
        BY <1>t, <3>2, <4>2
    <3> QED
      BY <1>11, <3>1, <3>2 DEF WriterWrite
  <2> QED
    BY <1>t, <2>1, <2>2, <2>3, <2>4 DEF Holds, Alive, Running
<1>12. CASE ReadLine
  <2>1. UNCHANGED <<writer, proc, down, state, emitter, stdin, main>> /\ up # <<>> /\ up' = Tail(up)
    BY <1>12 DEF ReadLine, nativeVars
  <2>2. py'.started = py.started /\ py'.close = py.close
    BY <1>t, <1>12 DEF ReadLine, Shapes, PyRecords
  <2>3. Len(up') = Len(up) - 1
    BY <1>t, <2>1, Taking
  <2> QED
    BY <1>t, <2>1, <2>2, <2>3 DEF Holds, Alive, Running
<1>13. CASE ReadEof
  BY <1>t, <1>13 DEF Holds, Alive, Running, Shapes, pyVars, nativeVars, ReadEof, AfterEof
<1>14. CASE MarkEof
  BY <1>t, <1>14 DEF Holds, Alive, Running, Shapes, pyVars, nativeVars, MarkEof, Marked,
    PyRecords
<1>15. CASE EmitterTake
  <2>1. UNCHANGED <<py, writer, proc, down, up, stdin, main>> /\ py.started
    BY <1>t, <1>15 DEF EmitterTake, pyVars, Holds
  <2>2. \/ emitter'.pc = "ended" /\ emitter'.lines = emitter.lines
        \/ emitter'.pc = "write" /\ emitter'.lines = Pending /\ Pending # <<>>
    <3>1. CASE EmitterEnds(Pending)
      BY <1>t, <1>15, <3>1 DEF EmitterTake, Shapes, EmitterRecords
    <3>2. CASE ~ EmitterEnds(Pending)
      BY <1>t, <1>15, <3>2 DEF EmitterTake, EmitterEnds
    <3> QED
      BY <3>1, <3>2
  <2> QED
    BY <1>t, <1>15, <2>1, <2>2 DEF Holds, Alive, Running, EmitterTake
<1>16. CASE EmitterWrite
  <2>1. UNCHANGED <<py, writer, proc, down, state, stdin, main>> /\ py.started /\ emitter.lines # <<>>
    BY <1>t, <1>16 DEF EmitterWrite, pyVars, Holds
  <2>2. \/ emitter'.pc = "wait" /\ emitter'.lines = <<>>
        \/ emitter'.pc = "write" /\ emitter'.lines # <<>>
    <3>1. CASE Len(emitter.lines) = 1
      BY <1>16, <3>1 DEF EmitterWrite
    <3>2. CASE Len(emitter.lines) # 1
      <4>1. Tail(emitter.lines) # <<>>
        BY <1>t, <2>1, <3>2, Taking
      <4> QED
        BY <1>t, <1>16, <3>2, <4>1 DEF EmitterWrite, Shapes, EmitterRecords
    <3> QED
      BY <3>1, <3>2
  <2>3. Len(up') <= PipeRoom
    <3>1. Head(emitter.lines) \in Int
      BY <1>t, <2>1, Taking
    <3>2. up' = Append(up, Head(emitter.lines)) /\ Len(up) < PipeRoom
      BY <1>16 DEF EmitterWrite
    <3>3. Len(up') = Len(up) + 1
      BY <1>t, <3>1, <3>2, Appending
    <3> QED
      BY <1>t, <3>2, <3>3
  <2> QED
    BY <1>t, <2>1, <2>2, <2>3 DEF Holds, Alive, Running
<1>17. CASE StdinRead
  <2>1. UNCHANGED <<py, writer, proc, up, emitter, main>> /\ py.started
    BY <1>t, <1>17 DEF StdinRead, pyVars, Holds
  <2>2. main # "start"
    BY <1>t, <1>17 DEF StdinRead, Holds
  <2>3. CASE down # <<>>
    <3>1. Len(down') = Len(down) - 1 /\ Head(down) \in ToSet(down)
      BY <1>t, <1>17, <2>3, Taking DEF StdinRead
    <3>2. Head(down) > 0
      BY <1>t, <3>1 DEF IInv, TargetWay
    <3>3. stdin'.pc = "line" /\ stdin'.line = Head(down)
      BY <1>17, <2>3 DEF StdinRead
    <3> QED
      BY <1>t, <2>1, <2>2, <3>1, <3>2, <3>3 DEF Holds, Alive, Running
  <2>4. CASE down = <<>>
    <3>1. stdin'.pc = "ended" /\ down' = down
      BY <1>17, <2>4 DEF StdinRead
    <3> QED
      BY <1>t, <2>1, <2>2, <3>1 DEF Holds, Alive, Running
  <2> QED
    BY <2>3, <2>4
<1>18. CASE StdinStops
  BY <1>t, <1>18 DEF Holds, Alive, Running, Shapes, pyVars, nativeVars, StdinStops, StdinRecords
<1>19. CASE CloseBackend
  BY <1>t, <1>19 DEF Holds, Alive, Running, Shapes, pyVars, nativeVars, CloseBackend
<1>20. CASE JoinStdin
  BY <1>t, <1>20 DEF Holds, Alive, Running, Shapes, pyVars, nativeVars, JoinStdin, StateRecords
<1>21. CASE JoinEmitter
  BY <1>t, <1>21 DEF Holds, Alive, Running, Shapes, pyVars, nativeVars, JoinEmitter,
    Exits, NoState, NoEmitter, NoStdin, ProcRecords, StateRecords, EmitterRecords,
    StdinRecords
<1>22. CASE CameraFrame
  BY <1>t, <1>22 DEF Holds, Alive, Running, Shapes, pyVars, nativeVars, CameraFrame,
    StateRecords, DdsRecords
<1>23. CASE MappingFails
  BY <1>t, <1>23 DEF Holds, Alive, Running, Shapes, pyVars, nativeVars, MappingFails,
    Failing, StateRecords
<1>24. CASE Dies
  BY <1>t, <1>24 DEF Holds, Alive, Running, Shapes, pyVars, nativeVars, Dies, Exits,
    NoState, NoEmitter, NoStdin, ProcRecords, StateRecords, EmitterRecords, StdinRecords
<1>25. CASE Crashes
  BY <1>t, <1>25 DEF Holds, Alive, Running, Shapes, pyVars, nativeVars, Crashes, Exits,
    NoState, NoEmitter, NoStdin, ProcRecords, StateRecords, EmitterRecords, StdinRecords
<1>26. CASE CliDies
  BY <1>t, <1>26 DEF Holds, Alive, Running, Shapes, pyVars, nativeVars, CliDies,
    NoWriter, PyRecords, WriterRecords
<1>27. ASSUME NEW ok \in BOOLEAN, PublishGaze(ok) PROVE Holds'
  BY <1>t, <1>27 DEF Holds, Alive, Running, Shapes, pyVars, nativeVars, PublishGaze,
    Failing, StateRecords, StdinRecords, DdsRecords
<1>28. ASSUME NEW ok \in BOOLEAN, StartBackend(ok) PROVE Holds'
  BY <1>t, <1>28 DEF Holds, Alive, Running, Shapes, pyVars, nativeVars, StartBackend,
    Failing, StateRecords, StdinRecords
<1>29. CASE UNCHANGED vars
  BY <1>t, <1>29 DEF Holds, Alive, Running, vars, pyVars, nativeVars
<1> QED
  BY <1>1, <1>2, <1>3, <1>4, <1>5, <1>6, <1>7, <1>8, <1>9, <1>10, <1>11, <1>12, <1>13,
    <1>14, <1>15, <1>16, <1>17, <1>18, <1>19, <1>20, <1>21, <1>22, <1>23, <1>24, <1>25,
    <1>26, <1>27, <1>28, <1>29
     DEF Next, Users, CloseSteps, Writer, Reader, Emitter, Stdin, Main, Dds

LEMMA ErrorKept ==
  ASSUME IInv, [Next]_vars
  PROVE  ErrorOnItsWay'
<1>t. Shapes /\ Holds /\ ErrorOnItsWay
  BY DEF IInv
<1>1. CASE Start
  <2>1. state = NoState /\ emitter' = [NoEmitter EXCEPT !.pc = "wait"] /\ state' = state
    BY <1>t, <1>1 DEF Start, Holds
  <2> QED
    BY <2>1 DEF NoState, NoEmitter, ErrorOnItsWay
<1>2. CASE FindsItDead
  BY <1>t, <1>2 DEF ErrorOnItsWay, Shapes, pyVars, nativeVars, FindsItDead, PyRecords
<1>3. CASE PollLatestCamera
  BY <1>t, <1>3 DEF ErrorOnItsWay, Shapes, pyVars, nativeVars, PollLatestCamera, PyRecords
<1>4. CASE SendGazeTarget
  BY <1>t, <1>4 DEF ErrorOnItsWay, Shapes, pyVars, nativeVars, SendGazeTarget, Latest, PyRecords
<1>5. CASE BeginClose
  BY <1>t, <1>5 DEF ErrorOnItsWay, Shapes, pyVars, nativeVars, BeginClose, CloseStep, PyRecords
<1>6. CASE PutWriterStop
  BY <1>t, <1>6 DEF ErrorOnItsWay, Shapes, pyVars, nativeVars, PutWriterStop, CloseStep,
    Latest, PyRecords
<1>7. CASE Terminate
  BY <1>t, <1>7 DEF ErrorOnItsWay, Shapes, pyVars, nativeVars, Terminate, CloseStep,
    PyRecords, ProcRecords
<1>8. CASE WaitForChild
  BY <1>t, <1>8 DEF ErrorOnItsWay, Shapes, pyVars, nativeVars, WaitForChild, CloseStep,
    SignalAfterWait, PyRecords, ProcRecords
<1>9. CASE JoinThreads
  BY <1>t, <1>9 DEF ErrorOnItsWay, Shapes, pyVars, nativeVars, JoinThreads, CloseStep, PyRecords
<1>10. CASE WriterGet
  BY <1>t, <1>10 DEF ErrorOnItsWay, Shapes, pyVars, nativeVars, WriterGet, WriterRecords
<1>11. CASE WriterWrite
  BY <1>t, <1>11 DEF ErrorOnItsWay, Shapes, pyVars, nativeVars, WriterWrite, Marked,
    AfterWrite, PyRecords, WriterRecords
<1>12. CASE ReadLine
  BY <1>t, <1>12 DEF ErrorOnItsWay, Shapes, pyVars, nativeVars, ReadLine, Marked, PyRecords
<1>13. CASE ReadEof
  BY <1>t, <1>13 DEF ErrorOnItsWay, Shapes, pyVars, nativeVars, ReadEof, AfterEof
<1>14. CASE MarkEof
  BY <1>t, <1>14 DEF ErrorOnItsWay, Shapes, pyVars, nativeVars, MarkEof, Marked, PyRecords
<1>15. CASE EmitterTake
  <2>1. UNCHANGED <<stdin, main, dds>> /\ emitter.lines = <<>> /\ ToSet(<<>>) = {}
    BY <1>t, <1>15, Empty DEF EmitterTake, Holds
  <2>2. ErrorLine \in ToSet(Pending) <=> state.error
    <3>1. ErrorLine \notin Held(state.camera)
      BY Fields DEF Held, ErrorLine
    <3> QED
      BY <3>1, Pendings
  <2>3. CASE EmitterEnds(Pending)
    <3>1. state' = state /\ emitter'.pc = "ended" /\ emitter'.lines = emitter.lines
      BY <1>t, <1>15, <2>3 DEF EmitterTake, Shapes, EmitterRecords
    <3>2. state.emitterStop /\ ~ state.error
      BY <2>1, <2>2, <2>3 DEF EmitterEnds
    <3> QED
      BY <1>t, <2>1, <3>1, <3>2 DEF ErrorOnItsWay
  <2>4. CASE ~ EmitterEnds(Pending)
    <3>1. emitter'.pc = "write" /\ emitter'.lines = Pending
      BY <1>15, <2>4 DEF EmitterTake
    <3>2. state' = [state EXCEPT !.camera = 0, !.error = FALSE]
      BY <1>15, <2>4 DEF EmitterTake, CameraAfterTake
    <3>3. /\ state'.exitCode = state.exitCode /\ state'.error = FALSE
          /\ state'.emitterStop = state.emitterStop
      BY <1>t, <3>2 DEF Shapes, StateRecords
    <3> QED
      BY <1>t, <2>1, <2>2, <3>1, <3>3 DEF ErrorOnItsWay
  <2> QED
    BY <2>3, <2>4
<1>16. CASE EmitterWrite
  <2>1. UNCHANGED <<stdin, main, state>> /\ emitter.lines # <<>> /\ ToSet(<<>>) = {}
    BY <1>t, <1>16, Empty DEF EmitterWrite, Holds
  <2>2. /\ ToSet(emitter.lines) = {Head(emitter.lines)} \cup ToSet(Tail(emitter.lines))
        /\ Len(emitter.lines) = 1 => ToSet(Tail(emitter.lines)) = {}
    BY <2>1, Fields, Taking
  <2>3. dds'.errors = IF Head(emitter.lines) = ErrorLine THEN 1 ELSE dds.errors
    BY <1>t, <1>16 DEF EmitterWrite, Shapes, DdsRecords
  <2>4. emitter'.pc # "ended" /\ ToSet(emitter'.lines) = ToSet(Tail(emitter.lines))
    <3>1. CASE Len(emitter.lines) = 1
      BY <1>16, <2>1, <2>2, <3>1 DEF EmitterWrite
    <3>2. CASE Len(emitter.lines) # 1
      BY <1>t, <1>16, <3>2 DEF EmitterWrite, Shapes, EmitterRecords
    <3> QED
      BY <3>1, <3>2
  <2> QED
    BY <1>t, <2>1, <2>2, <2>3, <2>4 DEF ErrorOnItsWay
<1>17. CASE StdinRead
  BY <1>t, <1>17 DEF ErrorOnItsWay, Shapes, pyVars, nativeVars, StdinRead, StateRecords,
    StdinRecords
<1>18. CASE StdinStops
  BY <1>t, <1>18 DEF ErrorOnItsWay, Shapes, pyVars, nativeVars, StdinStops, StdinRecords
<1>19. CASE CloseBackend
  BY <1>t, <1>19 DEF ErrorOnItsWay, Shapes, pyVars, nativeVars, CloseBackend
<1>20. CASE JoinStdin
  BY <1>t, <1>20 DEF ErrorOnItsWay, Shapes, pyVars, nativeVars, JoinStdin, StateRecords
<1>21. CASE JoinEmitter
  BY <1>t, <1>21 DEF ErrorOnItsWay, Shapes, pyVars, nativeVars, JoinEmitter, Exits,
    NoState, NoEmitter, NoStdin, ProcRecords, StateRecords, EmitterRecords, StdinRecords
<1>22. CASE CameraFrame
  BY <1>t, <1>22 DEF ErrorOnItsWay, Shapes, pyVars, nativeVars, CameraFrame,
    StateRecords, DdsRecords
<1>23. CASE MappingFails
  <2>1. UNCHANGED <<emitter, stdin, main, dds>> /\ ~ state.emitterStop
    BY <1>t, <1>23 DEF MappingFails, CallbacksSet, ErrorOnItsWay, pyVars
  <2>2. state'.error = TRUE /\ state'.emitterStop = state.emitterStop
    BY <1>t, <1>23 DEF MappingFails, Failing, Shapes, StateRecords
  <2> QED
    BY <1>t, <2>1, <2>2 DEF ErrorOnItsWay
<1>24. CASE Dies
  BY <1>t, <1>24 DEF ErrorOnItsWay, Shapes, pyVars, nativeVars, Dies, Exits, NoState,
    NoEmitter, NoStdin, ProcRecords, StateRecords, EmitterRecords, StdinRecords
<1>25. CASE Crashes
  BY <1>t, <1>25 DEF ErrorOnItsWay, Shapes, pyVars, nativeVars, Crashes, Exits, NoState,
    NoEmitter, NoStdin, ProcRecords, StateRecords, EmitterRecords, StdinRecords
<1>26. CASE CliDies
  BY <1>t, <1>26 DEF ErrorOnItsWay, Shapes, pyVars, nativeVars, CliDies, NoWriter,
    PyRecords, WriterRecords
<1>27. ASSUME NEW ok \in BOOLEAN, PublishGaze(ok) PROVE ErrorOnItsWay'
  BY <1>t, <1>27 DEF ErrorOnItsWay, Shapes, pyVars, nativeVars, PublishGaze, Failing,
    StateRecords, StdinRecords, DdsRecords
<1>28. ASSUME NEW ok \in BOOLEAN, StartBackend(ok) PROVE ErrorOnItsWay'
  <2>1. UNCHANGED <<emitter, dds>> /\ ~ state.emitterStop /\ stdin.pc = "none"
    BY <1>t, <1>28 DEF StartBackend, Holds, ErrorOnItsWay
  <2>2. CASE state' = state /\ main' = "wait"
    BY <1>t, <2>1, <2>2 DEF ErrorOnItsWay
  <2>3. CASE main' = "joinEmitter" /\ stdin' = stdin /\ state' = [Failing(state) EXCEPT !.emitterStop = TRUE]
    <3>1. Failing(state) \in StateRecords /\ Failing(state).error = TRUE
      BY <1>t DEF Failing, Shapes, StateRecords
    <3>2. state'.error = TRUE /\ state'.emitterStop = TRUE
      BY <2>3, <3>1 DEF StateRecords
    <3> QED
      BY <1>t, <2>1, <2>3, <3>2 DEF ErrorOnItsWay
  <2> QED
    BY <1>28, <2>2, <2>3 DEF StartBackend
<1>29. CASE UNCHANGED vars
  BY <1>t, <1>29 DEF ErrorOnItsWay, vars, pyVars, nativeVars
<1> QED
  BY <1>1, <1>2, <1>3, <1>4, <1>5, <1>6, <1>7, <1>8, <1>9, <1>10, <1>11, <1>12, <1>13,
    <1>14, <1>15, <1>16, <1>17, <1>18, <1>19, <1>20, <1>21, <1>22, <1>23, <1>24, <1>25,
    <1>26, <1>27, <1>28, <1>29
     DEF Next, Users, CloseSteps, Writer, Reader, Emitter, Stdin, Main, Dds

LEMMA FatalKept ==
  ASSUME IInv, [Next]_vars
  PROVE  FatalIsTold'
<1>t. Shapes /\ Holds /\ ErrorOnItsWay /\ FatalIsTold
  BY DEF IInv
<1>1. CASE Start
  BY <1>t, <1>1 DEF FatalIsTold, Exited, Shapes, pyVars, nativeVars, Start, PyRecords,
    WriterRecords, ProcRecords, EmitterRecords
<1>2. CASE FindsItDead
  BY <1>t, <1>2 DEF FatalIsTold, Exited, Shapes, pyVars, nativeVars, FindsItDead, PyRecords
<1>3. CASE PollLatestCamera
  BY <1>t, <1>3 DEF FatalIsTold, Exited, Shapes, pyVars, nativeVars, PollLatestCamera, PyRecords
<1>4. CASE SendGazeTarget
  BY <1>t, <1>4 DEF FatalIsTold, Exited, Shapes, pyVars, nativeVars, SendGazeTarget,
    Latest, PyRecords
<1>5. CASE BeginClose
  BY <1>t, <1>5 DEF FatalIsTold, Exited, Shapes, pyVars, nativeVars, BeginClose,
    CloseStep, PyRecords
<1>6. CASE PutWriterStop
  BY <1>t, <1>6 DEF FatalIsTold, Exited, Shapes, pyVars, nativeVars, PutWriterStop,
    CloseStep, Latest, PyRecords
<1>7. CASE Terminate
  BY <1>t, <1>7 DEF FatalIsTold, Exited, Shapes, pyVars, nativeVars, Terminate,
    CloseStep, PyRecords, ProcRecords
<1>8. CASE WaitForChild
  BY <1>t, <1>8 DEF FatalIsTold, Exited, Shapes, pyVars, nativeVars, WaitForChild,
    CloseStep, SignalAfterWait, PyRecords, ProcRecords
<1>9. CASE JoinThreads
  BY <1>t, <1>9 DEF FatalIsTold, Exited, Shapes, pyVars, nativeVars, JoinThreads,
    CloseStep, PyRecords
<1>10. CASE WriterGet
  BY <1>t, <1>10 DEF FatalIsTold, Exited, Shapes, pyVars, nativeVars, WriterGet, WriterRecords
<1>11. CASE WriterWrite
  BY <1>t, <1>11 DEF FatalIsTold, Exited, Shapes, pyVars, nativeVars, WriterWrite,
    Marked, AfterWrite, PyRecords, WriterRecords
<1>12. CASE ReadLine
  BY <1>t, <1>12 DEF FatalIsTold, Exited, Shapes, pyVars, nativeVars, ReadLine, Marked,
    PyRecords
<1>13. CASE ReadEof
  BY <1>t, <1>13 DEF FatalIsTold, Exited, Shapes, pyVars, nativeVars, ReadEof, AfterEof
<1>14. CASE MarkEof
  BY <1>t, <1>14 DEF FatalIsTold, Exited, Shapes, pyVars, nativeVars, MarkEof, Marked, PyRecords
<1>15. CASE EmitterTake
  BY <1>t, <1>15 DEF FatalIsTold, Exited, Shapes, pyVars, nativeVars, EmitterTake,
    CameraAfterTake, StateRecords, EmitterRecords
<1>16. CASE EmitterWrite
  BY <1>t, <1>16 DEF FatalIsTold, Exited, Shapes, pyVars, nativeVars, EmitterWrite,
    EmitterRecords, DdsRecords
<1>17. CASE StdinRead
  BY <1>t, <1>17 DEF FatalIsTold, Exited, Shapes, pyVars, nativeVars, StdinRead,
    StateRecords, StdinRecords
<1>18. CASE StdinStops
  BY <1>t, <1>18 DEF FatalIsTold, Exited, Shapes, pyVars, nativeVars, StdinStops, StdinRecords
<1>19. CASE CloseBackend
  BY <1>t, <1>19 DEF FatalIsTold, Exited, Shapes, pyVars, nativeVars, CloseBackend
<1>20. CASE JoinStdin
  BY <1>t, <1>20 DEF FatalIsTold, Exited, Shapes, pyVars, nativeVars, JoinStdin, StateRecords
<1>21. CASE JoinEmitter
  <2>1. emitter.lines = <<>> /\ ToSet(<<>>) = {} /\ dds' = dds
    BY <1>t, <1>21, Empty DEF JoinEmitter, Holds
  <2>2. state.exitCode = 1 => dds.errors = 1
    BY <1>t, <1>21, <2>1 DEF JoinEmitter, ErrorOnItsWay
  <2>3. proc'.code = state.exitCode
    BY <1>t, <1>21 DEF JoinEmitter, Exits, Shapes, ProcRecords
  <2> QED
    BY <2>1, <2>2, <2>3 DEF FatalIsTold
<1>22. CASE CameraFrame
  BY <1>t, <1>22 DEF FatalIsTold, Exited, Shapes, pyVars, nativeVars, CameraFrame,
    StateRecords, DdsRecords
<1>23. CASE MappingFails
  BY <1>t, <1>23 DEF FatalIsTold, Exited, Shapes, pyVars, nativeVars, MappingFails,
    Failing, StateRecords
<1>24. CASE Dies
  BY <1>t, <1>24 DEF FatalIsTold, Exited, Shapes, pyVars, nativeVars, Dies, Exits,
    NoState, NoEmitter, NoStdin, ProcRecords, StateRecords, EmitterRecords, StdinRecords
<1>25. CASE Crashes
  BY <1>t, <1>25 DEF FatalIsTold, Exited, Shapes, pyVars, nativeVars, Crashes, Exits,
    NoState, NoEmitter, NoStdin, ProcRecords, StateRecords, EmitterRecords, StdinRecords
<1>26. CASE CliDies
  BY <1>t, <1>26 DEF FatalIsTold, Exited, Shapes, pyVars, nativeVars, CliDies, NoWriter,
    PyRecords, WriterRecords
<1>27. ASSUME NEW ok \in BOOLEAN, PublishGaze(ok) PROVE FatalIsTold'
  BY <1>t, <1>27 DEF FatalIsTold, Exited, Shapes, pyVars, nativeVars, PublishGaze,
    Failing, StateRecords, StdinRecords, DdsRecords
<1>28. ASSUME NEW ok \in BOOLEAN, StartBackend(ok) PROVE FatalIsTold'
  BY <1>t, <1>28 DEF FatalIsTold, Exited, Shapes, pyVars, nativeVars, StartBackend,
    Failing, StateRecords, StdinRecords
<1>29. CASE UNCHANGED vars
  BY <1>t, <1>29 DEF FatalIsTold, Exited, vars, pyVars, nativeVars
<1> QED
  BY <1>1, <1>2, <1>3, <1>4, <1>5, <1>6, <1>7, <1>8, <1>9, <1>10, <1>11, <1>12, <1>13,
    <1>14, <1>15, <1>16, <1>17, <1>18, <1>19, <1>20, <1>21, <1>22, <1>23, <1>24, <1>25,
    <1>26, <1>27, <1>28, <1>29
     DEF Next, Users, CloseSteps, Writer, Reader, Emitter, Stdin, Main, Dds

-----------------------------------------------------------------------------
(* What follows                                                            *)

LEMMA InitIInv == Init => IInv
<1> SUFFICES ASSUME Init PROVE IInv
  OBVIOUS
<1>0. Held(0) = {} /\ ToSet(<<>>) = {} /\ Increasing(<<>>) /\ <<>> \in Seq(Int) /\ Len(<<>>) = 0
  BY Empty DEF Held
<1>1. Shapes
  BY <1>0, BridgeAssumption
     DEF Init, Shapes, NoWriter, NoState, NoEmitter, NoStdin, Closing, PyRecords, WriterRecords,
         ProcRecords, StateRecords, EmitterRecords, StdinRecords, DdsRecords
<1>2. Holds
  BY <1>0, BridgeAssumption DEF Init, Holds, NoWriter, NoEmitter, NoStdin, Running
<1>3. CameraWay
  BY <1>0 DEF Init, CameraWay, NoState, NoEmitter, Before
<1>4. TargetWay
  BY <1>0 DEF Init, TargetWay, NoWriter, NoStdin, Before
<1>5. ErrorOnItsWay /\ FatalIsTold
  BY DEF Init, ErrorOnItsWay, FatalIsTold, NoState, NoEmitter, NoStdin, Exited
<1> QED
  BY <1>1, <1>2, <1>3, <1>4, <1>5 DEF IInv

(* The bridge keeps its invariant, with any number of frames and targets   *)
(* and any room in the pipes.                                              *)
THEOREM BridgeInvariance == Spec => []IInv
<1>1. IInv /\ [Next]_vars => IInv'
  <2> SUFFICES ASSUME IInv, [Next]_vars PROVE IInv'
    OBVIOUS
  <2> QED
    BY ShapesKept, HoldsKept, CameraKept, TargetsKept, ErrorKept, FatalKept DEF IInv
<1> QED
  BY InitIInv, <1>1, PTL DEF Spec

LEMMA Somes ==
  ASSUME NEW n \in Int
  PROVE  Some(n) \in Seq(Int) /\ ToSet(Some(n)) = Held(n) /\ Increasing(Some(n))
  BY One, Empty DEF Some, Held

LEMMA InOrderHolds ==
  ASSUME IInv
  PROVE  InOrder
<1>1. Increasing(<<py.taken>> \o Some(py.latest) \o up \o emitter.lines \o Some(state.camera))
  <2>1. /\ CameraWay /\ py.taken \in Int /\ py.latest \in Int /\ state.camera \in Int
        /\ up \in Seq(Int) /\ emitter.lines \in Seq(Int)
    BY Fields DEF IInv
  <2> DEFINE a == <<py.taken>>
             b == Some(py.latest)
             c == Some(state.camera)
  <2>2. /\ a \in Seq(Int) /\ ToSet(a) = {py.taken} /\ Increasing(a)
        /\ b \in Seq(Int) /\ ToSet(b) = Held(py.latest) /\ Increasing(b)
        /\ c \in Seq(Int) /\ ToSet(c) = Held(state.camera) /\ Increasing(c)
    BY <2>1, One, Somes
  <2> HIDE DEF a, b, c
  <2>3. a \o b \in Seq(Int) /\ ToSet(a \o b) = ToSet(a) \cup ToSet(b) /\ Increasing(a \o b)
    <3>1. Before(ToSet(a), ToSet(b))
      BY <2>1, <2>2 DEF CameraWay, Before
    <3> QED
      BY <2>2, <3>1, Chained
  <2>4. /\ a \o b \o up \in Seq(Int) /\ Increasing(a \o b \o up)
        /\ ToSet(a \o b \o up) = ToSet(a) \cup ToSet(b) \cup ToSet(up)
    <3>1. Before(ToSet(a \o b), ToSet(up)) /\ Increasing(up)
      BY <2>1, <2>2, <2>3 DEF CameraWay, Before
    <3> QED
      BY <2>1, <2>3, <3>1, Chained
  <2>5. /\ a \o b \o up \o emitter.lines \in Seq(Int) /\ Increasing(a \o b \o up \o emitter.lines)
        /\ ToSet(a \o b \o up \o emitter.lines)
             = ToSet(a) \cup ToSet(b) \cup ToSet(up) \cup ToSet(emitter.lines)
    <3>1. Before(ToSet(a \o b \o up), ToSet(emitter.lines)) /\ Increasing(emitter.lines)
      BY <2>1, <2>2, <2>4 DEF CameraWay, Before
    <3> QED
      BY <2>1, <2>4, <3>1, Chained
  <2>6. Before(ToSet(a \o b \o up \o emitter.lines), ToSet(c))
    BY <2>1, <2>2, <2>5 DEF CameraWay, Before
  <2>7. Increasing(a \o b \o up \o emitter.lines \o c)
    BY <2>2, <2>5, <2>6, Chained
  <2> QED
    BY <2>7 DEF a, b, c
<1>2. Increasing(<<dds.published>> \o Some(stdin.line) \o down \o Some(writer.item) \o Some(queue))
  <2>1. /\ TargetWay /\ dds.published \in Int /\ stdin.line \in Int /\ writer.item \in Int
        /\ queue \in Int /\ down \in Seq(Int)
    BY Fields DEF IInv
  <2> DEFINE a == <<dds.published>>
             b == Some(stdin.line)
             c == Some(writer.item)
             d == Some(queue)
  <2>2. /\ a \in Seq(Int) /\ ToSet(a) = {dds.published} /\ Increasing(a)
        /\ b \in Seq(Int) /\ ToSet(b) = Held(stdin.line) /\ Increasing(b)
        /\ c \in Seq(Int) /\ ToSet(c) = Held(writer.item) /\ Increasing(c)
        /\ d \in Seq(Int) /\ ToSet(d) = Held(queue) /\ Increasing(d)
    BY <2>1, One, Somes
  <2> HIDE DEF a, b, c, d
  <2>3. a \o b \in Seq(Int) /\ ToSet(a \o b) = ToSet(a) \cup ToSet(b) /\ Increasing(a \o b)
    <3>1. Before(ToSet(a), ToSet(b))
      BY <2>1, <2>2 DEF TargetWay, Before
    <3> QED
      BY <2>2, <3>1, Chained
  <2>4. /\ a \o b \o down \in Seq(Int) /\ Increasing(a \o b \o down)
        /\ ToSet(a \o b \o down) = ToSet(a) \cup ToSet(b) \cup ToSet(down)
    <3>1. Before(ToSet(a \o b), ToSet(down)) /\ Increasing(down)
      BY <2>1, <2>2, <2>3 DEF TargetWay, Before
    <3> QED
      BY <2>1, <2>3, <3>1, Chained
  <2>5. /\ a \o b \o down \o c \in Seq(Int) /\ Increasing(a \o b \o down \o c)
        /\ ToSet(a \o b \o down \o c) = ToSet(a) \cup ToSet(b) \cup ToSet(down) \cup ToSet(c)
    <3>1. Before(ToSet(a \o b \o down), ToSet(c))
      BY <2>1, <2>2, <2>4 DEF TargetWay, Before
    <3> QED
      BY <2>2, <2>4, <3>1, Chained
  <2>6. Before(ToSet(a \o b \o down \o c), ToSet(d))
    BY <2>1, <2>2, <2>5 DEF TargetWay, Before
  <2>7. Increasing(a \o b \o down \o c \o d)
    BY <2>2, <2>5, <2>6, Chained
  <2> QED
    BY <2>7 DEF a, b, c, d
<1> QED
  BY <1>1, <1>2 DEF InOrder

(* Neither side ever meets a camera frame or a gaze target older than what *)
(* it had, through the slots of the two processes, their threads and the   *)
(* pipes between them, and through failures, close() and death.            *)
THEOREM NothingOlderComes == Spec => []OnlyNewer
<1>1. IInv => OnlyNewer
  <2> SUFFICES ASSUME IInv PROVE TypeOK
    BY InOrderHolds DEF OnlyNewer
  <2>1. Holds /\ CameraWay /\ TargetWay /\ py.sent \in 0..MaxTargets
        /\ dds.camera \in Nat /\ py.taken \in Nat /\ py.latest \in Nat
    BY Fields DEF IInv
  <2>2. py.fatal \in {"none", "exited", "write", "error"}
    BY DEF IInv, Shapes, PyRecords
  <2> QED
    BY <2>1, <2>2 DEF TypeOK, Holds, CameraWay, TargetWay
<1> QED
  BY BridgeInvariance, <1>1, PTL

(* A native program that ends with code 1 has written its error line       *)
(* (EnqueueFatal, EmitterLoop): the line is never lost between the threads *)
(* that stop, however late the failure is found.                           *)
THEOREM ErrorIsWritten == Spec => []FatalIsTold
<1>1. IInv => FatalIsTold
  BY DEF IInv
<1> QED
  BY BridgeInvariance, <1>1, PTL

(* The first fatal reason stands, and nothing after close() is a failure   *)
(* (_mark_fatal).                                                          *)
THEOREM FirstReasonStands == Spec => ReasonStands
<1> DEFINE Stands == py.fatal # "none" \/ Closed => py'.fatal = py.fatal
<1>1. IInv /\ [Next]_vars => [Stands]_vars
  <2> SUFFICES ASSUME IInv, Next PROVE Stands
    OBVIOUS
  <2>t. py \in PyRecords
    BY DEF IInv, Shapes
  <2>1. CASE Start
    BY <2>t, <2>1 DEF Start, PyRecords, Closed, pyVars, nativeVars
  <2>2. CASE FindsItDead
    BY <2>t, <2>2 DEF FindsItDead, Healthy, PyRecords, Closed, pyVars, nativeVars
  <2>3. CASE PollLatestCamera
    BY <2>t, <2>3 DEF PollLatestCamera, PyRecords, Closed, pyVars, nativeVars
  <2>4. CASE SendGazeTarget
    BY <2>t, <2>4 DEF SendGazeTarget, Latest, PyRecords, Closed, pyVars, nativeVars
  <2>5. CASE BeginClose
    BY <2>t, <2>5 DEF BeginClose, CloseStep, PyRecords, Closed, pyVars, nativeVars
  <2>6. CASE PutWriterStop
    BY <2>t, <2>6 DEF PutWriterStop, CloseStep, Latest, PyRecords, Closed, pyVars, nativeVars
  <2>7. CASE Terminate
    BY <2>t, <2>7 DEF Terminate, CloseStep, PyRecords, Closed, pyVars, nativeVars
  <2>8. CASE WaitForChild
    BY <2>t, <2>8 DEF WaitForChild, CloseStep, SignalAfterWait, PyRecords, Closed,
      pyVars, nativeVars
  <2>9. CASE JoinThreads
    BY <2>t, <2>9 DEF JoinThreads, CloseStep, PyRecords, Closed, pyVars, nativeVars
  <2>10. CASE WriterGet
    BY <2>t, <2>10 DEF WriterGet, Closed, pyVars, nativeVars
  <2>11. CASE WriterWrite
    BY <2>t, <2>11 DEF WriterWrite, Marked, AfterWrite, PyRecords, Closed, pyVars, nativeVars
  <2>12. CASE ReadLine
    BY <2>t, <2>12 DEF ReadLine, Marked, PyRecords, Closed, pyVars, nativeVars
  <2>13. CASE ReadEof
    BY <2>t, <2>13 DEF ReadEof, AfterEof, Closed, pyVars, nativeVars
  <2>14. CASE MarkEof
    BY <2>t, <2>14 DEF MarkEof, Marked, PyRecords, Closed, pyVars, nativeVars
  <2>15. CASE EmitterTake
    BY <2>t, <2>15 DEF EmitterTake, CameraAfterTake, Closed, pyVars, nativeVars
  <2>16. CASE EmitterWrite
    BY <2>t, <2>16 DEF EmitterWrite, Closed, pyVars, nativeVars
  <2>17. CASE StdinRead
    BY <2>t, <2>17 DEF StdinRead, Closed, pyVars, nativeVars
  <2>18. CASE StdinStops
    BY <2>t, <2>18 DEF StdinStops, Closed, pyVars, nativeVars
  <2>19. CASE CloseBackend
    BY <2>t, <2>19 DEF CloseBackend, Closed, pyVars, nativeVars
  <2>20. CASE JoinStdin
    BY <2>t, <2>20 DEF JoinStdin, Closed, pyVars, nativeVars
  <2>21. CASE JoinEmitter
    BY <2>t, <2>21 DEF JoinEmitter, Exits, Closed, pyVars, nativeVars
  <2>22. CASE CameraFrame
    BY <2>t, <2>22 DEF CameraFrame, Closed, pyVars, nativeVars
  <2>23. CASE MappingFails
    BY <2>t, <2>23 DEF MappingFails, Failing, Closed, pyVars, nativeVars
  <2>24. CASE Dies
    BY <2>t, <2>24 DEF Dies, Exits, Closed, pyVars, nativeVars
  <2>25. CASE Crashes
    BY <2>t, <2>25 DEF Crashes, Exits, Closed, pyVars, nativeVars
  <2>26. CASE CliDies
    BY <2>t, <2>26 DEF CliDies, NoWriter, PyRecords, Closed, pyVars, nativeVars
  <2>27. ASSUME NEW ok \in BOOLEAN, PublishGaze(ok) PROVE Stands
    BY <2>t, <2>27 DEF PublishGaze, Failing, Closed, pyVars, nativeVars
  <2>28. ASSUME NEW ok \in BOOLEAN, StartBackend(ok) PROVE Stands
    BY <2>t, <2>28 DEF StartBackend, Failing, Closed, pyVars, nativeVars
  <2> QED
    BY <2>1, <2>2, <2>3, <2>4, <2>5, <2>6, <2>7, <2>8, <2>9, <2>10, <2>11, <2>12, <2>13,
      <2>14, <2>15, <2>16, <2>17, <2>18, <2>19, <2>20, <2>21, <2>22, <2>23, <2>24, <2>25,
      <2>26, <2>27, <2>28
       DEF Next, Users, CloseSteps, Writer, Reader, Emitter, Stdin, Main, Dds
<1> QED
  BY BridgeInvariance, <1>1, PTL DEF Spec, ReasonStands

=============================================================================
