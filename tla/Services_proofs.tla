--------------------------- MODULE Services_proofs ---------------------------
(***************************************************************************)
(* Theorems about the modules that keep threads of their own, for every    *)
(* value of the bounds.  Each component has an inductive invariant of its  *)
(* own; a step of another component leaves its variables alone.            *)
(***************************************************************************)
EXTENDS MCServices, TLAPS, SequenceTheorems, WellFoundedInduction

\* A sequence has a value of its set at each position from 1 to its length.
LEMMA Elements == ASSUME NEW S, NEW s \in Seq(S)
                  PROVE  /\ Len(s) \in Nat /\ DOMAIN s = 1..Len(s)
                         /\ \A i \in DOMAIN s : s[i] \in S
BY LenProperties

-----------------------------------------------------------------------------
(* dgram                                                                   *)

\* A datagram is on its way, in the hands of the receive thread, queued or
\* emitted: in one place, once.
DgramOnce ==
    /\ \A i, j \in DOMAIN messages : messages[i] = messages[j] => i = j
    /\ \A i, j \in DOMAIN udpQueue : udpQueue[i] = udpQueue[j] => i = j
    /\ \A i \in DOMAIN messages, j \in DOMAIN udpQueue : messages[i] # udpQueue[j]
    /\ \A i \in DOMAIN messages : messages[i] \in 1..datagrams \ flying
    /\ \A i \in DOMAIN udpQueue : udpQueue[i] \in 1..datagrams \ flying
    /\ udp.thread = "emit" =>
        /\ taken.last \in 1..datagrams \ flying
        /\ \A i \in DOMAIN messages : messages[i] # taken.last
        /\ \A i \in DOMAIN udpQueue : udpQueue[i] # taken.last

\* What close() has changed; the thread that took a datagram after it does not
\* come back to recvfrom(), and a socket without a binding has no thread.
DgramClosing ==
    /\ ~udp.closed => taken.late = 0
    /\ udp.thread \notin {"emit", "test", "ended", "none"} => taken.late = 0
    /\ taken.late <= 1
    /\ udp.closed => ~udp.fd /\ ~udp.bound
    /\ ~udp.closed /\ ~udp.bound => udp.thread = "none"
    /\ udp.life = "none" => ~udp.closed /\ ~udp.bound
    /\ udpFate # "terminated"

DgramInv == U!TypeOK /\ DgramOnce /\ DgramClosing

LEMMA DgramStart == ASSUME U!Start, udpFate \in {"alive", "gone"}
                    PROVE  DgramInv
<1>1. Len(messages) = 0 /\ Len(udpQueue) = 0
  BY LenProperties DEF U!Start
<1>2. U!TypeOK
  BY BoundAssumption DEF U!Start, U!TypeOK
<1>3. DgramOnce
  BY DEF U!Start, DgramOnce
<1>4. DgramClosing
  BY DEF U!Start, DgramClosing
<1> QED  BY <1>2, <1>3, <1>4 DEF DgramInv

LEMMA DgramStutter == ASSUME DgramInv, UNCHANGED udpVars
                      PROVE  DgramInv'
BY DEF DgramInv, U!TypeOK, DgramOnce, DgramClosing, udpVars

LEMMA DgramTypes == ASSUME DgramInv, U!Next
                    PROVE  U!TypeOK'
<1>0. U!TypeOK /\ DgramOnce /\ DgramClosing
  BY DEF DgramInv
<1>1. ASSUME NEW d \in flying
      PROVE  d \in 1..MaxDatagrams
  BY <1>0, <1>1, BoundAssumption DEF U!TypeOK
<1>2. CASE U!createSocket
  BY <1>0, <1>2 DEF U!TypeOK, U!createSocket, U!Defined, U!Undefined, U!network
<1>3. CASE U!socketBind
  BY <1>0, <1>3 DEF U!TypeOK, U!socketBind, U!Defined, U!Undefined, U!network
<1>4. CASE U!socketSend
  BY <1>0, <1>4 DEF U!TypeOK, U!socketSend, U!Defined, U!Undefined, U!network
<1>5. CASE U!sendtoReturns
  BY <1>0, <1>5 DEF U!TypeOK, U!sendtoReturns, U!Defined, U!Undefined, U!network
<1>6. CASE U!socketClose
  BY ZenonT(30), <1>0, <1>6 DEF U!TypeOK, U!socketClose, U!close, U!Defined, U!Undefined, U!network
<1>7. CASE U!SocketFinalizer
  BY ZenonT(30), <1>0, <1>7 DEF U!TypeOK, U!SocketFinalizer, U!close, U!Defined, U!Undefined, U!network
<1>8. CASE U!joinReceiveThread
  BY <1>0, <1>8 DEF U!TypeOK, U!joinReceiveThread, U!Defined, U!Undefined, U!network
<1>9. CASE U!receiveLoopTest
  BY <1>0, <1>9 DEF U!TypeOK, U!receiveLoopTest, U!Defined, U!Undefined, U!network
<1>10. CASE U!emitMessage
  <2>1. taken.last \in 1..MaxDatagrams
    BY <1>0, <1>10, BoundAssumption DEF U!TypeOK, DgramOnce, U!emitMessage
  <2>2. udpQueue' \in Seq(1..MaxDatagrams)
    BY <1>0, <1>10, <2>1, AppendProperties DEF U!TypeOK, U!emitMessage
  <2> QED
    BY <1>0, <1>10, <2>2 DEF U!TypeOK, U!emitMessage, U!Undefined, U!network
<1>11. CASE \E d \in 1..MaxDatagrams : U!recvfrom(d)
  <2>1. PICK d \in 1..MaxDatagrams : U!recvfrom(d)
    BY <1>11
  <2>2. taken' \in [last : 0..MaxDatagrams, late : Nat]
    BY SMTT(30), <1>0, <2>1, BoundAssumption DEF U!TypeOK, U!recvfrom
  <2> QED
    BY <1>0, <2>1, <2>2 DEF U!TypeOK, U!recvfrom, U!Defined, U!Undefined
<1>12. CASE U!recvfromFails
  BY <1>0, <1>12 DEF U!TypeOK, U!recvfromFails, U!Defined, U!Undefined, U!network
<1>13. CASE U!NetworkSends
  <2>1. datagrams' \in 0..MaxDatagrams /\ flying' \subseteq 1..datagrams'
    BY <1>0, <1>13, BoundAssumption DEF U!TypeOK, U!NetworkSends
  <2> QED
    BY <1>0, <1>13, <2>1 DEF U!TypeOK, U!NetworkSends, U!Defined, U!Undefined
<1>14. CASE \E d \in 1..MaxDatagrams : U!NetworkLoses(d)
  BY <1>0, <1>14 DEF U!TypeOK, U!NetworkLoses, U!Defined, U!Undefined
<1>15. CASE U!Deliver
  <2>1. Head(udpQueue) \in 1..MaxDatagrams /\ Tail(udpQueue) \in Seq(1..MaxDatagrams)
    BY <1>0, <1>15, HeadTailProperties DEF U!TypeOK, U!Deliver
  <2>2. messages' \in Seq(1..MaxDatagrams) /\ udpQueue' \in Seq(1..MaxDatagrams)
    BY <1>0, <1>15, <2>1, AppendProperties DEF U!TypeOK, U!Deliver
  <2> QED
    BY <1>0, <1>15, <2>2 DEF U!TypeOK, U!Deliver, U!Undefined, U!network
<1>16. CASE U!MainLoop
  BY <1>0, <1>16 DEF U!TypeOK, U!MainLoop, U!Defined, U!Undefined, U!network
<1>17. CASE U!Gone
  BY <1>0, <1>17 DEF U!TypeOK, U!Gone, U!network
<1> QED
  BY <1>2, <1>3, <1>4, <1>5, <1>6, <1>7, <1>8, <1>9, <1>10, <1>11, <1>12,
     <1>13, <1>14, <1>15, <1>16, <1>17 DEF U!Next, U!ReceiveStep

LEMMA DgramOnceKept == ASSUME DgramInv, U!Next
                       PROVE  DgramOnce'
<1>0. U!TypeOK /\ DgramOnce /\ DgramClosing
  BY DEF DgramInv
<1>t. datagrams \in Nat /\ messages \in Seq(1..MaxDatagrams)
      /\ udpQueue \in Seq(1..MaxDatagrams)
  BY <1>0, BoundAssumption DEF U!TypeOK
<1>1. ASSUME UNCHANGED <<flying, datagrams, taken, udpQueue, messages>>,
             udp'.thread = "emit" => udp.thread = "emit"
      PROVE  DgramOnce'
  BY <1>0, <1>1 DEF DgramOnce
<1>2. CASE U!createSocket
  BY <1>0, <1>1, <1>2 DEF U!TypeOK, U!createSocket, U!network
<1>3. CASE U!socketBind
  BY <1>0, <1>1, <1>3 DEF U!TypeOK, U!socketBind, U!network
<1>4. CASE U!socketSend
  BY <1>1, <1>4 DEF U!socketSend, U!network
<1>5. CASE U!sendtoReturns
  BY <1>1, <1>5 DEF U!sendtoReturns, U!network
<1>6. CASE U!socketClose
  BY <1>0, <1>1, <1>6 DEF U!TypeOK, U!socketClose, U!close, U!network
<1>7. CASE U!SocketFinalizer
  BY <1>0, <1>1, <1>7 DEF U!TypeOK, U!SocketFinalizer, U!close, U!network
<1>8. CASE U!joinReceiveThread
  BY <1>0, <1>1, <1>8 DEF U!TypeOK, U!joinReceiveThread, U!network
<1>9. CASE U!receiveLoopTest
  BY <1>0, <1>1, <1>9 DEF U!TypeOK, U!receiveLoopTest, U!network
<1>10. CASE U!emitMessage
  <2>1. taken.last \in 1..MaxDatagrams
    BY <1>0, <1>10, BoundAssumption DEF U!TypeOK, DgramOnce, U!emitMessage
  <2>2. /\ DOMAIN udpQueue = 1..Len(udpQueue) /\ Len(udpQueue) \in Nat
        /\ DOMAIN udpQueue' = 1..Len(udpQueue) + 1
        /\ \A i \in DOMAIN udpQueue : udpQueue'[i] = udpQueue[i]
        /\ udpQueue'[Len(udpQueue) + 1] = taken.last
    BY <1>t, <1>10, <2>1, AppendProperties, LenProperties DEF U!emitMessage
  <2>3. /\ UNCHANGED <<flying, datagrams, taken, messages>>
        /\ udp'.thread # "emit" /\ udp.thread = "emit"
    BY <1>0, <1>10 DEF U!TypeOK, U!emitMessage, U!network
  <2>4. \A i \in DOMAIN udpQueue' : i \in DOMAIN udpQueue \/ i = Len(udpQueue) + 1
    BY <2>2
  <2> QED
    BY <1>0, <2>2, <2>3, <2>4 DEF DgramOnce
<1>11. CASE \E d \in 1..MaxDatagrams : U!recvfrom(d)
  <2>1. PICK d \in 1..MaxDatagrams : U!recvfrom(d)
    BY <1>11
  <2>2. /\ d \in flying /\ flying' = flying \ {d} /\ taken'.last = d
        /\ UNCHANGED <<datagrams, udpQueue, messages>>
    BY <2>1 DEF U!recvfrom
  <2>3. d \in 1..datagrams
    BY <1>0, <2>2 DEF U!TypeOK
  <2> QED
    BY <1>0, <2>2, <2>3 DEF DgramOnce
<1>12. CASE U!recvfromFails
  BY <1>0, <1>1, <1>12 DEF U!TypeOK, U!recvfromFails, U!network
<1>13. CASE U!NetworkSends
  <2>1. /\ datagrams' = datagrams + 1 /\ flying' = flying \cup {datagrams + 1}
        /\ UNCHANGED <<udp, taken, udpQueue, messages>>
    BY <1>13 DEF U!NetworkSends
  <2>2. \A k \in 1..datagrams \ flying : k \in 1..datagrams' \ flying'
    BY <1>t, <2>1
  <2> QED
    BY <1>0, <2>1, <2>2 DEF DgramOnce
<1>14. CASE \E d \in 1..MaxDatagrams : U!NetworkLoses(d)
  <2>1. PICK d \in 1..MaxDatagrams : U!NetworkLoses(d)
    BY <1>14
  <2> QED
    BY <1>0, <2>1 DEF DgramOnce, U!NetworkLoses
<1>15. CASE U!Deliver
  <2>1. udpQueue # << >> /\ Head(udpQueue) = udpQueue[1] /\ Len(udpQueue) \in Nat
        /\ Len(udpQueue) # 0 /\ DOMAIN udpQueue = 1..Len(udpQueue)
    BY <1>t, <1>15, HeadTailProperties, LenProperties DEF U!Deliver
  <2>2. udpQueue[1] \in 1..MaxDatagrams
    BY <1>t, <2>1, HeadTailProperties
  <2>3. /\ DOMAIN messages = 1..Len(messages) /\ Len(messages) \in Nat
        /\ DOMAIN messages' = 1..Len(messages) + 1
        /\ \A i \in DOMAIN messages : messages'[i] = messages[i]
        /\ messages'[Len(messages) + 1] = udpQueue[1]
    BY <1>t, <1>15, <2>1, <2>2, AppendProperties, LenProperties DEF U!Deliver
  <2>4. /\ DOMAIN udpQueue' = 1..Len(udpQueue) - 1
        /\ \A i \in 1..Len(udpQueue) - 1 : udpQueue'[i] = udpQueue[i + 1]
    BY <1>t, <1>15, <2>1, HeadTailProperties, LenProperties DEF U!Deliver
  <2>5. UNCHANGED <<udp, flying, datagrams, taken>>
    BY <1>15 DEF U!Deliver, U!network
  <2>6. \A i \in DOMAIN messages' : i \in DOMAIN messages \/ i = Len(messages) + 1
    BY <2>3
  <2>7. \A i \in DOMAIN udpQueue' :
            i + 1 \in DOMAIN udpQueue /\ i + 1 # 1 /\ udpQueue'[i] = udpQueue[i + 1]
    BY <2>1, <2>4
  <2>8. 1 \in DOMAIN udpQueue
    BY <2>1
  <2>9. \A i, j \in DOMAIN messages' : messages'[i] = messages'[j] => i = j
    BY <1>0, <2>3, <2>6, <2>8 DEF DgramOnce
  <2>10. \A i, j \in DOMAIN udpQueue' : udpQueue'[i] = udpQueue'[j] => i = j
    <3> TAKE i, j \in DOMAIN udpQueue'
    <3>1. i \in Nat /\ j \in Nat
      BY <2>1, <2>4
    <3>2. udpQueue[i + 1] = udpQueue[j + 1] => i + 1 = j + 1
      BY <1>0, <2>7 DEF DgramOnce
    <3> QED  BY <2>7, <3>1, <3>2
  <2>11. \A i \in DOMAIN messages', j \in DOMAIN udpQueue' : messages'[i] # udpQueue'[j]
    BY <1>0, <2>3, <2>6, <2>7, <2>8 DEF DgramOnce
  <2>12. \A i \in DOMAIN messages' : messages'[i] \in 1..datagrams' \ flying'
    BY <1>0, <2>3, <2>5, <2>6, <2>8 DEF DgramOnce
  <2>13. \A i \in DOMAIN udpQueue' : udpQueue'[i] \in 1..datagrams' \ flying'
    BY <1>0, <2>5, <2>7 DEF DgramOnce
  <2>14. udp'.thread = "emit" =>
            /\ taken'.last \in 1..datagrams' \ flying'
            /\ \A i \in DOMAIN messages' : messages'[i] # taken'.last
            /\ \A i \in DOMAIN udpQueue' : udpQueue'[i] # taken'.last
    BY <1>0, <2>3, <2>5, <2>6, <2>7, <2>8 DEF DgramOnce
  <2> QED
    BY <2>9, <2>10, <2>11, <2>12, <2>13, <2>14 DEF DgramOnce
<1>16. CASE U!MainLoop
  BY <1>1, <1>16 DEF U!MainLoop, U!network
<1>17. CASE U!Gone
  BY <1>1, <1>17 DEF U!Gone, U!network
<1> QED
  BY <1>2, <1>3, <1>4, <1>5, <1>6, <1>7, <1>8, <1>9, <1>10, <1>11, <1>12,
     <1>13, <1>14, <1>15, <1>16, <1>17 DEF U!Next, U!ReceiveStep

LEMMA DgramClosingKept == ASSUME DgramInv, U!Next
                          PROVE  DgramClosing'
<1>0. U!TypeOK /\ DgramClosing
  BY DEF DgramInv
<1>1. ASSUME UNCHANGED <<udp, taken>>, udpFate' # "terminated"
      PROVE  DgramClosing'
  BY <1>0, <1>1 DEF DgramClosing
<1>2. CASE U!createSocket
  BY <1>0, <1>2 DEF U!TypeOK, DgramClosing, U!createSocket, U!Defined, U!Undefined
<1>3. CASE U!socketBind
  BY <1>0, <1>3 DEF U!TypeOK, DgramClosing, U!socketBind, U!Defined, U!Undefined
<1>4. CASE U!socketSend
  BY <1>1, <1>4 DEF U!socketSend, U!Defined, U!Undefined
<1>5. CASE U!sendtoReturns
  BY <1>1, <1>5 DEF U!sendtoReturns, U!Defined, U!Undefined
<1>6. CASE U!socketClose
  BY <1>0, <1>6 DEF U!TypeOK, DgramClosing, U!socketClose, U!close, U!Defined, U!Undefined
<1>7. CASE U!SocketFinalizer
  BY <1>0, <1>7 DEF U!TypeOK, DgramClosing, U!SocketFinalizer, U!close, U!Defined, U!Undefined
<1>8. CASE U!joinReceiveThread
  BY <1>0, <1>8 DEF U!TypeOK, DgramClosing, U!joinReceiveThread, U!Defined, U!Undefined
<1>9. CASE U!receiveLoopTest
  BY <1>0, <1>9 DEF U!TypeOK, DgramClosing, U!receiveLoopTest, U!Receiving,
                    U!Defined, U!Undefined
<1>10. CASE U!emitMessage
  BY <1>0, <1>10 DEF U!TypeOK, DgramClosing, U!emitMessage, U!Undefined
<1>11. CASE \E d \in 1..MaxDatagrams : U!recvfrom(d)
  BY <1>0, <1>11 DEF U!TypeOK, DgramClosing, U!recvfrom, U!Defined, U!Undefined
<1>12. CASE U!recvfromFails
  BY <1>0, <1>12 DEF U!TypeOK, DgramClosing, U!recvfromFails, U!Receiving,
                     U!Defined, U!Undefined
<1>13. CASE U!NetworkSends
  BY <1>1, <1>13 DEF U!NetworkSends, U!Defined, U!Undefined
<1>14. CASE \E d \in 1..MaxDatagrams : U!NetworkLoses(d)
  BY <1>1, <1>14 DEF U!NetworkLoses, U!Defined, U!Undefined
<1>15. CASE U!Deliver
  BY <1>1, <1>15 DEF U!Deliver, U!Undefined
<1>16. CASE U!MainLoop
  BY <1>1, <1>16 DEF U!MainLoop, U!Defined, U!Undefined
<1>17. CASE U!Gone
  BY <1>1, <1>17 DEF U!Gone
<1> QED
  BY <1>2, <1>3, <1>4, <1>5, <1>6, <1>7, <1>8, <1>9, <1>10, <1>11, <1>12,
     <1>13, <1>14, <1>15, <1>16, <1>17 DEF U!Next, U!ReceiveStep

LEMMA DgramStep == ASSUME DgramInv, [Next]_vars
                   PROVE  DgramInv'
<1>1. CASE U!Next
  BY <1>1, DgramTypes, DgramOnceKept, DgramClosingKept DEF DgramInv
<1>2. CASE UNCHANGED udpVars
  BY <1>2, DgramStutter
<1> QED
  BY <1>1, <1>2 DEF Next, vars

LEMMA DgramInvariant == Spec => []DgramInv
<1>1. Init => DgramInv
  BY DgramStart DEF Init, In
<1>2. DgramInv /\ [Next]_vars => DgramInv'
  BY DgramStep
<1> QED
  BY <1>1, <1>2, PTL DEF Spec

LEMMA DgramInvSafe == ASSUME DgramInv PROVE U!Safety
<1>0. U!TypeOK /\ DgramOnce /\ DgramClosing
  BY DEF DgramInv
<1>1. messages \in Seq(1..MaxDatagrams) /\ udpQueue \in Seq(1..MaxDatagrams)
  BY <1>0 DEF U!TypeOK
<1> DEFINE S == messages \o udpQueue
           m == Len(messages)
<1>2. /\ m \in Nat /\ DOMAIN messages = 1..m
      /\ Len(udpQueue) \in Nat /\ DOMAIN udpQueue = 1..Len(udpQueue)
      /\ DOMAIN S = 1..m + Len(udpQueue)
      /\ \A i \in DOMAIN S : S[i] = IF i <= m THEN messages[i] ELSE udpQueue[i - m]
  BY <1>1, ConcatProperties, LenProperties
<1> HIDE DEF S, m
<1>3. \A i \in DOMAIN S : i \in Nat /\ (i \in DOMAIN messages \/ i - m \in DOMAIN udpQueue)
  BY <1>2
<1>4. \A i, j \in DOMAIN S : S[i] = S[j] => i = j
  <2> SUFFICES ASSUME NEW i \in DOMAIN S, NEW j \in DOMAIN S, S[i] = S[j]
               PROVE  i = j
    OBVIOUS
  <2>1. CASE i <= m /\ j <= m
    BY <1>0, <1>2, <1>3, <2>1 DEF DgramOnce
  <2>2. CASE i <= m /\ ~(j <= m)
    BY <1>0, <1>2, <1>3, <2>2 DEF DgramOnce
  <2>3. CASE ~(i <= m) /\ j <= m
    BY <1>0, <1>2, <1>3, <2>3 DEF DgramOnce
  <2>4. CASE ~(i <= m) /\ ~(j <= m)
    <3>1. i - m \in DOMAIN udpQueue /\ j - m \in DOMAIN udpQueue
          /\ udpQueue[i - m] = udpQueue[j - m]
      BY <1>2, <2>4
    <3>2. i - m = j - m
      BY <1>0, <3>1 DEF DgramOnce
    <3> QED  BY <1>2, <1>3, <3>2
  <2> QED  BY <2>1, <2>2, <2>3, <2>4
<1>5. \A i \in DOMAIN S : S[i] \notin flying
  <2> TAKE i \in DOMAIN S
  <2>1. CASE i <= m
    BY <1>0, <1>2, <1>3, <2>1 DEF DgramOnce
  <2>2. CASE ~(i <= m)
    <3>1. i - m \in DOMAIN udpQueue /\ S[i] = udpQueue[i - m]
      BY <1>2, <2>2
    <3> QED  BY <1>0, <3>1 DEF DgramOnce
  <2> QED  BY <2>1, <2>2
<1>6. S = U!Seen
  BY DEF S, U!Seen
<1> QED
  BY <1>0, <1>4, <1>5, <1>6 DEF DgramClosing, U!Safety

\* dgram: however the receive thread, the network and the script interleave, no
\* datagram is emitted twice or emitted and still on its way, the thread takes
\* at most one after close(), and no sequence of calls assigns to a thread that
\* runs (socketBind, DgramSocketData::close, receiveLoop).
THEOREM DatagramsEmittedOnce == Spec => []DgramSafety
<1>1. DgramInv => DgramSafety
  BY DgramInvSafe DEF DgramSafety
<1> QED
  BY <1>1, DgramInvariant, PTL

-----------------------------------------------------------------------------
(* The debugger                                                            *)

\* A thread that was started and not joined has its flag set, or stopCDPServer()
\* is waiting for it; no more clients wait than have come.
DebuggerThread ==
    /\ cdp # "none" => serverRunning \/ dbgMain = "stop"
    /\ dbgFate = "terminated" => serverRunning
    /\ debuggers.waiting <= debuggers.come

\* The list holds the breakpoints that were set and not removed, oldest first.
DebuggerList ==
    /\ removed \subseteq 1..nextId - 1
    /\ \A k \in 1..nextId - 1 :
            k \in removed \/ \E i \in DOMAIN breakpoints : breakpoints[i].id = k
    /\ \A i \in DOMAIN breakpoints : breakpoints[i].id \notin removed
    /\ \A i, j \in DOMAIN breakpoints :
            i < j => breakpoints[i].id < breakpoints[j].id

DebuggerInv == B!TypeOK /\ DebuggerThread /\ DebuggerList

LEMMA DebuggerStart == ASSUME B!Start, dbgFate \in {"alive", "gone"}
                       PROVE  DebuggerInv
<1>1. Len(breakpoints) = 0 /\ DOMAIN breakpoints = 1..0
  BY LenProperties DEF B!Start
<1>2. breakpoints \in Seq([id : 1..nextId - 1, line : Line])
  BY DEF B!Start
<1>a. /\ serverRunning \in BOOLEAN /\ speaking \in BOOLEAN
      /\ cdp = "none" /\ dbgMain = "js"
      /\ nextId = 1 /\ removed = {}
  BY DEF B!Start
<1>b. debuggers \in [come : 0..MaxDebuggers, waiting : 0..MaxDebuggers]
  BY BoundAssumption DEF B!Start
<1>c. nextId \in 1..MaxBreakpoints + 1 /\ removed \subseteq 1..MaxBreakpoints
  BY <1>a, BoundAssumption
<1>3. B!TypeOK
  BY <1>2, <1>a, <1>b, <1>c DEF B!TypeOK
<1>4. DebuggerThread
  BY DEF B!Start, DebuggerThread
<1>5. DebuggerList
  BY <1>1 DEF B!Start, DebuggerList
<1> QED  BY <1>3, <1>4, <1>5 DEF DebuggerInv

LEMMA DebuggerStutter == ASSUME DebuggerInv, UNCHANGED dbgVars
                         PROVE  DebuggerInv'
BY DEF DebuggerInv, B!TypeOK, DebuggerThread, DebuggerList, dbgVars

LEMMA DebuggerThreadKept == ASSUME DebuggerInv, B!Next
                            PROVE  DebuggerThread'
<1>0. B!TypeOK /\ DebuggerThread
  BY DEF DebuggerInv
<1>t. /\ debuggers.come \in Nat /\ debuggers.waiting \in Nat
      /\ debuggers \in [come : 0..MaxDebuggers, waiting : 0..MaxDebuggers]
  BY <1>0, BoundAssumption DEF B!TypeOK
<1>1. CASE B!startCDPServer
  BY <1>0, <1>1 DEF DebuggerThread, B!startCDPServer
<1>2. CASE B!stopCDPServer
  BY <1>0, <1>2 DEF DebuggerThread, B!stopCDPServer, B!Script, B!Alive, B!serverVars
<1>3. CASE B!joinServerThread
  BY <1>0, <1>3 DEF DebuggerThread, B!joinServerThread
<1>4. CASE \E l \in Line : B!setBreakpoint(l)
  BY <1>0, <1>4 DEF DebuggerThread, B!setBreakpoint, B!serverVars
<1>5. CASE \E id \in 1..MaxBreakpoints : B!removeBreakpoint(id)
  BY <1>0, <1>5 DEF DebuggerThread, B!removeBreakpoint, B!serverVars
<1>6. CASE B!cdpServerStarts
  BY <1>0, <1>6 DEF DebuggerThread, B!cdpServerStarts
<1>7. CASE B!cdpServerLoop
  <2>1. debuggers'.waiting <= debuggers'.come
    BY <1>0, <1>t, <1>7 DEF DebuggerThread, B!cdpServerLoop
  <2> QED
    BY <1>0, <1>7, <2>1 DEF DebuggerThread, B!cdpServerLoop
<1>8. CASE B!cdpServerAnswers
  BY <1>0, <1>8 DEF DebuggerThread, B!cdpServerAnswers
<1>9. CASE B!ClientConnects
  <2>1. debuggers'.waiting <= debuggers'.come
    BY <1>0, <1>t, <1>9 DEF DebuggerThread, B!ClientConnects
  <2> QED
    BY <1>0, <1>9, <2>1 DEF DebuggerThread, B!ClientConnects
<1>10. CASE B!ClientSpeaks
  BY <1>0, <1>10 DEF DebuggerThread, B!ClientSpeaks
<1>11. CASE B!Exit
  BY <1>0, <1>11 DEF DebuggerThread, B!Exit, B!serverVars, B!Script
<1>12. CASE B!acceptFails
  BY <1>0, <1>12 DEF DebuggerThread, B!acceptFails
<1> QED
  BY <1>1, <1>2, <1>3, <1>4, <1>5, <1>6, <1>7, <1>8, <1>9, <1>10, <1>11, <1>12
     DEF B!Next

\* What removeBreakpoint() leaves in the list.
LEMMA Removing ==
  ASSUME DebuggerInv, NEW id \in 1..MaxBreakpoints, B!removeBreakpoint(id)
  PROVE  /\ breakpoints' \in Seq([id : 1..nextId - 1, line : Line])
         /\ \A i \in DOMAIN breakpoints' : \E j \in DOMAIN breakpoints :
                breakpoints'[i] = breakpoints[j] /\ breakpoints[j].id # id
         /\ \A j \in DOMAIN breakpoints : breakpoints[j].id # id =>
                \E i \in DOMAIN breakpoints' : breakpoints'[i] = breakpoints[j]
         /\ \A i, j \in DOMAIN breakpoints' :
                i < j => breakpoints'[i].id < breakpoints'[j].id
<1> DEFINE Bp == [id : 1..nextId - 1, line : Line]
<1>0. breakpoints \in Seq(Bp) /\ DebuggerList
  BY DEF DebuggerInv, B!TypeOK
<1>1. Len(breakpoints) \in Nat /\ DOMAIN breakpoints = 1..Len(breakpoints)
      /\ \A i \in DOMAIN breakpoints : breakpoints[i] \in Bp
  BY <1>0, LenProperties
<1> HIDE DEF Bp
<1>n. PICK n \in 0..Len(breakpoints) :
        \E kept \in [1..n -> DOMAIN breakpoints] :
            /\ \A j, k \in 1..n : j < k => kept[j] < kept[k]
            /\ {kept[k] : k \in 1..n} =
                   {i \in DOMAIN breakpoints : breakpoints[i].id # id}
            /\ breakpoints' = [k \in 1..n |-> breakpoints[kept[k]]]
  BY DEF B!removeBreakpoint
<1>2. PICK kept \in [1..n -> DOMAIN breakpoints] :
        /\ \A j, k \in 1..n : j < k => kept[j] < kept[k]
        /\ {kept[k] : k \in 1..n} =
               {i \in DOMAIN breakpoints : breakpoints[i].id # id}
        /\ breakpoints' = [k \in 1..n |-> breakpoints[kept[k]]]
  BY <1>n
<1>3. /\ n \in Nat /\ DOMAIN breakpoints' = 1..n
      /\ \A k \in 1..n : kept[k] \in DOMAIN breakpoints
                         /\ breakpoints'[k] = breakpoints[kept[k]]
  BY <1>1, <1>2
<1>4. breakpoints' \in Seq(Bp)
  BY <1>1, <1>2, <1>3
<1>5. \A k \in 1..n : breakpoints[kept[k]].id # id
  BY <1>2
<1>6. \A j \in DOMAIN breakpoints : breakpoints[j].id # id => \E k \in 1..n : kept[k] = j
  BY <1>2
<1>7. \A i, j \in DOMAIN breakpoints' :
                i < j => breakpoints'[i].id < breakpoints'[j].id
  BY <1>0, <1>2, <1>3 DEF DebuggerList
<1>8. \A i \in DOMAIN breakpoints' : \E j \in DOMAIN breakpoints :
                breakpoints'[i] = breakpoints[j] /\ breakpoints[j].id # id
  BY <1>3, <1>5
<1>9. \A j \in DOMAIN breakpoints : breakpoints[j].id # id =>
                \E i \in DOMAIN breakpoints' : breakpoints'[i] = breakpoints[j]
  BY SMTT(30), <1>3, <1>6
<1> QED
  BY <1>4, <1>7, <1>8, <1>9 DEF Bp

LEMMA DebuggerTypes == ASSUME DebuggerInv, B!Next
                       PROVE  B!TypeOK'
<1>0. B!TypeOK /\ DebuggerThread
  BY DEF DebuggerInv
<1>t. /\ debuggers.come \in Nat /\ debuggers.waiting \in Nat
      /\ debuggers \in [come : 0..MaxDebuggers, waiting : 0..MaxDebuggers]
      /\ debuggers.waiting <= debuggers.come
  BY <1>0, BoundAssumption DEF B!TypeOK, DebuggerThread
<1>1. CASE B!startCDPServer
  BY <1>0, <1>1 DEF B!TypeOK, B!startCDPServer, B!listVars
<1>2. CASE B!stopCDPServer
  BY <1>0, <1>2 DEF B!TypeOK, B!stopCDPServer, B!serverVars, B!listVars
<1>3. CASE B!joinServerThread
  BY <1>0, <1>3 DEF B!TypeOK, B!joinServerThread, B!listVars
<1>4. CASE \E l \in Line : B!setBreakpoint(l)
  <2>1. PICK l \in Line : B!setBreakpoint(l)
    BY <1>4
  <2>2. nextId \in Nat /\ nextId' = nextId + 1 /\ nextId' \in 1..MaxBreakpoints + 1
        /\ nextId \in 1..nextId' - 1
    BY <1>0, <2>1, BoundAssumption DEF B!TypeOK, B!setBreakpoint
  <2> DEFINE Bp == [id : 1..nextId - 1, line : Line]
             Bq == [id : 1..nextId' - 1, line : Line]
             b == [id |-> nextId, line |-> l]
  <2>3. Bp \subseteq Bq
    BY <2>2
  <2>4. b \in Bq
    BY <2>2
  <2>5. breakpoints \in Seq(Bp)
    BY <1>0 DEF B!TypeOK
  <2>6. breakpoints' = Append(breakpoints, b)
    BY <2>1 DEF B!setBreakpoint, B!NewId
  <2> HIDE DEF Bp, Bq, b
  <2>7. breakpoints \in Seq(Bq)
    BY <2>3, <2>5
  <2>8. breakpoints' \in Seq(Bq)
    BY <2>4, <2>6, <2>7, AppendProperties
  <2> QED
    BY <1>0, <2>1, <2>2, <2>8 DEF B!TypeOK, B!setBreakpoint, B!serverVars, Bq
<1>5. CASE \E id \in 1..MaxBreakpoints : B!removeBreakpoint(id)
  <2>1. PICK id \in 1..MaxBreakpoints : B!removeBreakpoint(id)
    BY <1>5
  <2>2. breakpoints' \in Seq([id : 1..nextId - 1, line : Line])
    BY <2>1, Removing
  <2> QED
    BY <1>0, <2>1, <2>2 DEF B!TypeOK, B!removeBreakpoint, B!serverVars
<1>6. CASE B!cdpServerStarts
  BY <1>0, <1>6 DEF B!TypeOK, B!cdpServerStarts, B!listVars
<1>7. CASE B!cdpServerLoop
  <2>1. debuggers' \in [come : 0..MaxDebuggers, waiting : 0..MaxDebuggers]
    BY <1>t, <1>7, BoundAssumption DEF B!cdpServerLoop
  <2> QED
    BY <1>0, <1>7, <2>1 DEF B!TypeOK, B!cdpServerLoop, B!listVars
<1>8. CASE B!cdpServerAnswers
  BY <1>0, <1>8 DEF B!TypeOK, B!cdpServerAnswers, B!listVars
<1>9. CASE B!ClientConnects
  <2>1. debuggers' \in [come : 0..MaxDebuggers, waiting : 0..MaxDebuggers]
    BY <1>t, <1>9, BoundAssumption DEF B!ClientConnects
  <2> QED
    BY <1>0, <1>9, <2>1 DEF B!TypeOK, B!ClientConnects, B!listVars
<1>10. CASE B!ClientSpeaks
  BY <1>0, <1>10 DEF B!TypeOK, B!ClientSpeaks, B!listVars
<1>11. CASE B!Exit
  BY <1>0, <1>11 DEF B!TypeOK, B!Exit, B!serverVars, B!listVars
<1>12. CASE B!acceptFails
  BY <1>0, <1>12 DEF B!TypeOK, B!acceptFails, B!listVars
<1> QED
  BY <1>1, <1>2, <1>3, <1>4, <1>5, <1>6, <1>7, <1>8, <1>9, <1>10, <1>11, <1>12
     DEF B!Next

LEMMA DebuggerListKept == ASSUME DebuggerInv, B!Next
                          PROVE  DebuggerList'
<1>0. B!TypeOK /\ DebuggerList
  BY DEF DebuggerInv
<1>n. nextId \in Nat /\ nextId \in 1..MaxBreakpoints + 1
  BY <1>0, BoundAssumption DEF B!TypeOK
<1>1. CASE UNCHANGED <<breakpoints, nextId, removed>>
  BY <1>0, <1>1 DEF DebuggerList
<1>2. CASE \E l \in Line : B!setBreakpoint(l)
  <2>1. PICK l \in Line : B!setBreakpoint(l)
    BY <1>2
  <2> DEFINE b == [id |-> nextId, line |-> l]
             Bp == [id : 1..nextId - 1, line : Line]
  <2>2. breakpoints' = Append(breakpoints, b) /\ nextId' = nextId + 1
        /\ removed' = removed /\ b.id = nextId
    BY <2>1 DEF B!setBreakpoint, B!NewId
  <2>3. breakpoints \in Seq(Bp)
    BY <1>0 DEF B!TypeOK
  <2>4. Len(breakpoints) \in Nat /\ DOMAIN breakpoints = 1..Len(breakpoints)
        /\ \A i \in DOMAIN breakpoints : breakpoints[i] \in Bp
    BY <2>3, LenProperties
  <2>5. \A i \in DOMAIN breakpoints : breakpoints[i].id \in Nat
                                     /\ breakpoints[i].id < nextId
    BY <1>n, <2>4
  <2> HIDE DEF b, Bp
  <2>6. breakpoints \in Seq(Bp \cup {b}) /\ b \in Bp \cup {b}
    BY <2>3
  <2>7. /\ DOMAIN breakpoints' = 1..Len(breakpoints) + 1
        /\ \A i \in DOMAIN breakpoints : breakpoints'[i] = breakpoints[i]
        /\ breakpoints'[Len(breakpoints) + 1] = b
    BY <2>2, <2>4, <2>6, AppendProperties, LenProperties
  <2>8. \A i \in DOMAIN breakpoints' :
            i \in DOMAIN breakpoints \/ i = Len(breakpoints) + 1
    BY <2>4, <2>7
  <2>9. nextId \notin removed
    <3>1. removed \subseteq 1..nextId - 1
      BY <1>0 DEF DebuggerList
    <3> QED  BY <1>n, <3>1
  <2>10. \A k \in 1..nextId' - 1 :
            k \in removed' \/ \E i \in DOMAIN breakpoints' : breakpoints'[i].id = k
    <3> TAKE k \in 1..nextId' - 1
    <3>1. CASE k = nextId
      BY <2>2, <2>4, <2>7, <3>1
    <3>2. CASE k # nextId
      <4>1. k \in 1..nextId - 1
        BY <1>n, <2>2, <3>2
      <4>2. CASE \E i \in DOMAIN breakpoints : breakpoints[i].id = k
        BY <2>4, <2>7, <4>2
      <4> QED  BY <1>0, <2>2, <4>1, <4>2 DEF DebuggerList
    <3> QED  BY <3>1, <3>2
  <2>11. \A i \in DOMAIN breakpoints' : breakpoints'[i].id \notin removed'
    BY <1>0, <2>2, <2>7, <2>8, <2>9 DEF DebuggerList
  <2>12. \A i, j \in DOMAIN breakpoints' :
            i < j => breakpoints'[i].id < breakpoints'[j].id
    <3> SUFFICES ASSUME NEW i \in DOMAIN breakpoints', NEW j \in DOMAIN breakpoints',
                        i < j
                 PROVE  breakpoints'[i].id < breakpoints'[j].id
      OBVIOUS
    <3>1. i \in DOMAIN breakpoints
      BY <2>4, <2>7
    <3> QED
      BY <1>0, <2>2, <2>5, <2>7, <2>8, <3>1 DEF DebuggerList
  <2>13. removed' \subseteq 1..nextId' - 1
    BY <1>0, <1>n, <2>2 DEF DebuggerList
  <2> QED
    BY <2>10, <2>11, <2>12, <2>13 DEF DebuggerList
<1>3. CASE \E id \in 1..MaxBreakpoints : B!removeBreakpoint(id)
  <2>1. PICK id \in 1..MaxBreakpoints : B!removeBreakpoint(id)
    BY <1>3
  <2>2. nextId' = nextId /\ removed' = removed \cup {id}
    BY <2>1 DEF B!removeBreakpoint
  <2>3. /\ \A i \in DOMAIN breakpoints' : \E j \in DOMAIN breakpoints :
                breakpoints'[i] = breakpoints[j] /\ breakpoints[j].id # id
        /\ \A j \in DOMAIN breakpoints : breakpoints[j].id # id =>
                \E i \in DOMAIN breakpoints' : breakpoints'[i] = breakpoints[j]
        /\ \A i, j \in DOMAIN breakpoints' :
                i < j => breakpoints'[i].id < breakpoints'[j].id
    BY <2>1, Removing
  <2>4. \A k \in 1..nextId' - 1 :
            k \in removed' \/ \E i \in DOMAIN breakpoints' : breakpoints'[i].id = k
    BY <1>0, <2>2, <2>3 DEF DebuggerList
  <2>5. \A i \in DOMAIN breakpoints' : breakpoints'[i].id \notin removed'
    BY <1>0, <2>2, <2>3 DEF DebuggerList
  <2>6. id \in 1..nextId - 1
    <3>1. PICK i \in DOMAIN breakpoints : breakpoints[i].id = id
      BY <2>1 DEF B!removeBreakpoint
    <3>2. breakpoints[i] \in [id : 1..nextId - 1, line : Line]
      BY <1>0, <3>1, Elements DEF B!TypeOK
    <3> QED  BY <3>1, <3>2
  <2>7. removed' \subseteq 1..nextId' - 1
    BY <1>0, <2>2, <2>6 DEF DebuggerList
  <2> QED
    BY <2>3, <2>4, <2>5, <2>7 DEF DebuggerList
<1> QED
  BY <1>1, <1>2, <1>3 DEF B!Next, B!startCDPServer, B!stopCDPServer,
     B!joinServerThread, B!cdpServerStarts, B!cdpServerLoop, B!cdpServerAnswers,
     B!acceptFails, B!ClientConnects, B!ClientSpeaks, B!Exit, B!listVars

LEMMA DebuggerInvariant == Spec => []DebuggerInv
<1>1. Init => DebuggerInv
  BY DebuggerStart DEF Init, In
<1>2. DebuggerInv /\ [Next]_vars => DebuggerInv'
  <2> SUFFICES ASSUME DebuggerInv, [Next]_vars
               PROVE  DebuggerInv'
    OBVIOUS
  <2>1. CASE B!Next
    BY <2>1, DebuggerTypes, DebuggerThreadKept, DebuggerListKept DEF DebuggerInv
  <2>2. CASE UNCHANGED dbgVars
    BY <2>2, DebuggerStutter
  <2> QED
    BY <2>1, <2>2 DEF Next, vars
<1> QED
  BY <1>1, <1>2, PTL DEF Spec

\* debugger: the process calls std::terminate() only if it ends while the flag
\* of the CDP server is set, and the list is exactly the breakpoints set and not
\* removed, in the order of their numbers (startCDPServer, stopCDPServer,
\* setBreakpoint, removeBreakpoint).
THEOREM BreakpointsInForce == Spec => []DebuggerSafety
<1>1. ASSUME DebuggerInv PROVE DebuggerSafety
  <2>0. B!TypeOK /\ DebuggerThread /\ DebuggerList
    BY <1>1 DEF DebuggerInv
  <2>b. \A i \in DOMAIN breakpoints : breakpoints[i] \in [id : 1..nextId - 1, line : Line]
    BY <2>0, Elements DEF B!TypeOK
  <2>1. \A i \in DOMAIN breakpoints : breakpoints[i].id \in 1..nextId - 1
    BY <2>b
  <2>2. {breakpoints[i].id : i \in DOMAIN breakpoints} = 1..nextId - 1 \ removed
    BY <2>0, <2>1 DEF DebuggerList
  <2> QED
    BY <2>0, <2>2 DEF DebuggerSafety, B!Safety, DebuggerThread, DebuggerList
<1>2. DebuggerInv => DebuggerSafety
  BY <1>1
<1> QED
  BY <1>2, DebuggerInvariant, PTL

-----------------------------------------------------------------------------
(* net                                                                     *)

\* A script has a server or a client socket.  A thread that close() or
\* destroy() did not join belongs to an object that was used again, and so
\* does one that is still there when a new one is about to be started; the
\* accept thread that took a connection after close() does not come back to
\* accept().
NetThreads ==
    /\ server.life = "none" \/ socket.life = "none"
    /\ server.thread # "none" \/ netMain \in {"listen", "joinServer"} => server.life # "none"
    /\ socket.thread # "none" \/ netMain \in {"connect", "joinSocket"} => socket.life # "none"
    /\ server.thread # "none" => server.listening \/ server.closed
    /\ netMain = "listen" => ~server.listening /\ (server.closed => reused)
    /\ server.closed /\ server.thread # "none" => reused \/ netMain = "joinServer"
    /\ netMain = "connect" => reused \/ (socket.thread = "none" /\ ~socket.destroyed)
    /\ socket.destroyed /\ socket.thread # "none" => reused \/ netMain = "joinSocket"
    /\ ~server.closed => server.late = 0
    /\ server.thread \in {"call", "accept", "failed"} => server.late = 0
    /\ server.late <= 1
    /\ netMain = "connect" => wire.connects < MaxConnects
    /\ netFate = "terminated" => reused

\* A connect event comes first or after an end event, and nowhere else.
Ordered(w) == \A i \in DOMAIN w : (w[i] = "connect") = (i = 1 \/ w[i - 1] = "end")

\* Every connection that was announced has ended.
Ended(w) == w = << >> \/ w[Len(w)] = "end"

\* The queue holds events of the object the script has; those of the socket are
\* in order, and the last one tells whether its read thread will post more.
NetEvents ==
    /\ \A i \in DOMAIN netQueue : netQueue[i] = "connection" => server.life # "none"
    /\ socket.life = "none" =>
        heard = << >> /\ \A i \in DOMAIN netQueue : netQueue[i] = "connection"
    /\ netFate = "alive" /\ socket.life # "none" =>
        /\ Ordered(heard \o netQueue)
        /\ (socket.thread \in {"none", "ended"}) = Ended(heard \o netQueue)

NetInv == N!TypeOK /\ NetThreads /\ NetEvents

LEMMA NetStart == ASSUME N!Start, netFate \in {"alive", "gone"}
                  PROVE  NetInv
<1>1. heard = << >> /\ netQueue = << >> /\ Len(netQueue) = 0
  BY LenProperties DEF N!Start
<1>2. N!TypeOK
  <2>1. server \in N!NetServerData /\ socket \in N!NetSocketData
    BY DEF N!Start, N!NetServerData, N!NetSocketData, N!Life
  <2>2. peers \in N!Peers /\ wire \in N!Wire
    BY BoundAssumption DEF N!Start, N!Peers, N!Wire
  <2>3. /\ netQueue \in Seq(N!SocketEvent \cup {"connection"})
        /\ heard \in Seq(N!SocketEvent)
    BY <1>1
  <2>4. netMain = "js" /\ leaving \in BOOLEAN /\ reused \in BOOLEAN
    BY DEF N!Start
  <2> QED
    BY <2>1, <2>2, <2>3, <2>4 DEF N!TypeOK
<1>3. NetThreads
  BY DEF N!Start, NetThreads
<1>4. socket.life = "none"
  BY DEF N!Start
<1>5. NetEvents
  BY <1>1, <1>4 DEF NetEvents
<1> QED  BY <1>2, <1>3, <1>5 DEF NetInv

LEMMA NetStutter == ASSUME NetInv, UNCHANGED netVars
                    PROVE  NetInv'
BY DEF NetInv, N!TypeOK, NetThreads, NetEvents, netVars

\* The record of the peers and the wire with other numbers in it.
LEMMA NetCounters ==
  ASSUME N!TypeOK
  PROVE  /\ \A n \in Nat : [peers EXCEPT !.waiting = n] \in N!Peers
         /\ \A n \in Nat : [peers EXCEPT !.reading = n] \in N!Peers
         /\ \A m \in 0..MaxPeers, n \in Nat :
                [peers EXCEPT !.opened = m, !.waiting = n] \in N!Peers
         /\ \A n \in Nat : [wire EXCEPT !.chunks = n] \in N!Wire
         /\ \A n \in Nat, m \in 0..MaxChunks :
                [wire EXCEPT !.chunks = n, !.sent = m] \in N!Wire
         /\ [wire EXCEPT !.fin = TRUE] \in N!Wire
         /\ \A m \in 0..MaxConnects :
                [wire EXCEPT !.chunks = 0, !.fin = FALSE, !.connects = m] \in N!Wire
<1>0. peers \in N!Peers /\ wire \in N!Wire
  BY DEF N!TypeOK
<1>1. /\ \A n \in Nat : [peers EXCEPT !.waiting = n] \in N!Peers
      /\ \A n \in Nat : [peers EXCEPT !.reading = n] \in N!Peers
  BY <1>0 DEF N!Peers
<1>2. \A m \in 0..MaxPeers, n \in Nat :
        [peers EXCEPT !.opened = m, !.waiting = n] \in N!Peers
  BY <1>0 DEF N!Peers
<1>3. \A n \in Nat : [wire EXCEPT !.chunks = n] \in N!Wire
  BY <1>0 DEF N!Wire
<1>4. \A n \in Nat, m \in 0..MaxChunks :
        [wire EXCEPT !.chunks = n, !.sent = m] \in N!Wire
  BY <1>0 DEF N!Wire
<1>5. [wire EXCEPT !.fin = TRUE] \in N!Wire
  BY <1>0 DEF N!Wire
<1>6. \A m \in 0..MaxConnects :
        [wire EXCEPT !.chunks = 0, !.fin = FALSE, !.connects = m] \in N!Wire
  BY <1>0 DEF N!Wire
<1> QED  BY <1>1, <1>2, <1>3, <1>4, <1>5, <1>6

LEMMA NetNumbers ==
  ASSUME N!TypeOK
  PROVE  /\ peers.opened \in Nat /\ peers.waiting \in Nat /\ peers.reading \in Nat
         /\ wire.chunks \in Nat /\ wire.sent \in Nat /\ wire.connects \in Nat
BY BoundAssumption DEF N!TypeOK, N!Peers, N!Wire

LEMMA NetThreadsKept == ASSUME NetInv, N!Next
                        PROVE  NetThreads'
<1>0. N!TypeOK /\ NetThreads
  BY DEF NetInv
<1>1. CASE N!createServer
  BY <1>0, <1>1 DEF N!TypeOK, N!NetServerData, N!NetSocketData, N!Wire,
     NetThreads, N!createServer, N!Script, N!OneObject, N!threadVars,
     N!Defined, N!Undefined
<1>2. CASE N!serverListen
  BY <1>0, <1>2 DEF N!TypeOK, N!NetServerData, N!NetSocketData, N!Wire,
     NetThreads, N!serverListen, N!Script, N!threadVars, N!Defined,
     N!Undefined
<1>3. CASE N!serverSocketFails
  BY <1>0, <1>3 DEF N!TypeOK, N!NetServerData, N!NetSocketData, N!Wire,
     NetThreads, N!serverSocketFails, N!threadVars, N!Defined, N!Undefined
<1>4. CASE N!startAcceptThread
  BY <1>0, <1>4 DEF N!TypeOK, N!NetServerData, N!NetSocketData, N!Wire,
     NetThreads, N!startAcceptThread, N!Terminated, N!threadVars, N!Defined,
     N!Undefined
<1>5. CASE N!serverClose
  BY <1>0, <1>5 DEF N!TypeOK, N!NetServerData, N!NetSocketData, N!Wire,
     NetThreads, N!serverClose, N!closeServer, N!Terminated, N!threadVars,
     N!Defined, N!Undefined
<1>6. CASE N!ServerFinalizer
  BY ZenonT(30), <1>0, <1>6 DEF N!TypeOK, N!NetServerData, N!NetSocketData, N!Wire,
     NetThreads, N!ServerFinalizer, N!closeServer, N!Terminated, N!threadVars,
     N!Defined, N!Undefined
<1>7. CASE N!joinAcceptThread
  BY <1>0, <1>7 DEF N!TypeOK, N!NetServerData, N!NetSocketData, N!Wire,
     NetThreads, N!joinAcceptThread, N!threadVars, N!Defined, N!Undefined
<1>8. CASE N!acceptLoopTest
  BY <1>0, <1>8 DEF N!TypeOK, N!NetServerData, N!NetSocketData, N!Wire,
     NetThreads, N!acceptLoopTest, N!acceptVars, N!Serving, N!Defined,
     N!Undefined
<1>9. CASE N!acceptConnection
  BY <1>0, <1>9 DEF N!TypeOK, N!NetServerData, N!NetSocketData, N!Wire,
     NetThreads, N!acceptConnection, N!acceptVars, N!Defined, N!Undefined
<1>10. CASE N!acceptError
  BY <1>0, <1>10 DEF N!TypeOK, N!NetServerData, N!NetSocketData, N!Wire,
     NetThreads, N!acceptError, N!acceptVars, N!Serving, N!Defined,
     N!Undefined
<1>11. CASE N!serveConnection
  BY <1>0, <1>11 DEF N!TypeOK, N!NetServerData, N!NetSocketData, N!Wire,
     NetThreads, N!serveConnection, N!acceptVars, N!Post, N!Undefined
<1>12. CASE N!acceptedSocketEnds
  BY <1>0, <1>12 DEF N!TypeOK, N!NetServerData, N!NetSocketData, N!Wire,
     NetThreads, N!acceptedSocketEnds, N!acceptVars, N!Defined, N!Undefined
<1>13. CASE N!createConnection
  BY <1>0, <1>13 DEF N!TypeOK, N!NetServerData, N!NetSocketData, N!Wire,
     NetThreads, N!createConnection, N!Script, N!OneObject, N!sockVars,
     N!Defined, N!Undefined
<1>14. CASE N!socketConnect
  BY <1>0, <1>14 DEF N!TypeOK, N!NetServerData, N!NetSocketData, N!Wire,
     NetThreads, N!socketConnect, N!Script, N!sockVars, N!Defined, N!Undefined
<1>15. CASE N!connectFails
  BY <1>0, <1>15 DEF N!TypeOK, N!NetServerData, N!NetSocketData, N!Wire,
     NetThreads, N!connectFails, N!sockVars, N!Defined, N!Undefined
<1>16. CASE N!startReadThread
  BY <1>0, <1>16 DEF N!TypeOK, N!NetServerData, N!NetSocketData, N!Wire,
     NetThreads, N!startReadThread, N!Terminated, N!sockVars, N!Post,
     N!Defined, N!Undefined
<1>17. CASE N!socketWrite
  BY <1>0, <1>17 DEF N!TypeOK, N!NetServerData, N!NetSocketData, N!Wire,
     NetThreads, N!socketWrite, N!Script, N!sockVars, N!Defined, N!Undefined
<1>18. CASE N!sendReturns
  BY <1>0, <1>18 DEF N!TypeOK, N!NetServerData, N!NetSocketData, N!Wire,
     NetThreads, N!sendReturns, N!sockVars
<1>19. CASE N!socketEnd
  BY <1>0, <1>19 DEF N!TypeOK, N!NetServerData, N!NetSocketData, N!Wire,
     NetThreads, N!socketEnd, N!Script, N!sockVars, N!Defined, N!Undefined
<1>20. CASE N!socketDestroy
  BY <1>0, <1>20 DEF N!TypeOK, N!NetServerData, N!NetSocketData, N!Wire,
     NetThreads, N!socketDestroy, N!destroy, N!Terminated, N!sockVars,
     N!Defined, N!Undefined
<1>21. CASE N!SocketFinalizer
  BY <1>0, <1>21 DEF N!TypeOK, N!NetServerData, N!NetSocketData, N!Wire,
     NetThreads, N!SocketFinalizer, N!destroy, N!Terminated, N!sockVars,
     N!Defined, N!Undefined
<1>22. CASE N!joinReadThread
  BY <1>0, <1>22 DEF N!TypeOK, N!NetServerData, N!NetSocketData, N!Wire,
     NetThreads, N!joinReadThread, N!sockVars, N!Defined, N!Undefined
<1>23. CASE N!readLoopTest
  BY <1>0, <1>23 DEF N!TypeOK, N!NetServerData, N!NetSocketData, N!Wire,
     NetThreads, N!readLoopTest, N!readVars, N!Defined, N!Undefined
<1>24. CASE N!recvData
  BY <1>0, <1>24 DEF N!TypeOK, N!NetServerData, N!NetSocketData, N!Wire,
     NetThreads, N!recvData, N!readVars, N!Defined, N!Undefined
<1>25. CASE N!recvEnds
  BY <1>0, <1>25 DEF N!TypeOK, N!NetServerData, N!NetSocketData, N!Wire,
     NetThreads, N!recvEnds, N!readVars, N!Defined, N!Undefined
<1>26. CASE N!emitData
  BY <1>0, <1>26 DEF N!TypeOK, N!NetServerData, N!NetSocketData, N!Wire,
     NetThreads, N!emitData, N!readVars, N!Post, N!Undefined
<1>27. CASE N!emitEnd
  BY <1>0, <1>27 DEF N!TypeOK, N!NetServerData, N!NetSocketData, N!Wire,
     NetThreads, N!emitEnd, N!readVars, N!Post, N!Defined, N!Undefined
<1>28. CASE N!Return
  BY <1>0, <1>28 DEF N!TypeOK, N!NetServerData, N!NetSocketData, N!Wire,
     NetThreads, N!Return, N!Script, N!threadVars, N!Defined, N!Undefined
<1>29. CASE N!Deliver
  BY <1>0, <1>29 DEF N!TypeOK, N!NetServerData, N!NetSocketData, N!Wire,
     NetThreads, N!Deliver, N!threadVars, N!Undefined
<1>30. CASE N!Leave
  BY <1>0, <1>30 DEF N!TypeOK, N!NetServerData, N!NetSocketData, N!Wire,
     NetThreads, N!Leave, N!threadVars, N!Defined, N!Undefined
<1>31. CASE N!Gone
  BY <1>0, <1>31 DEF N!TypeOK, N!NetServerData, N!NetSocketData, N!Wire,
     NetThreads, N!Gone, N!threadVars
<1>32. CASE N!PeerConnects
  BY <1>0, <1>32 DEF N!TypeOK, N!NetServerData, N!NetSocketData, N!Wire,
     NetThreads, N!PeerConnects, N!acceptVars, N!Defined, N!Undefined
<1>33. CASE N!PeerSends
  BY <1>0, <1>33 DEF N!TypeOK, N!NetServerData, N!NetSocketData, N!Wire,
     NetThreads, N!PeerSends, N!readVars, N!Defined, N!Undefined
<1> QED
  BY <1>1, <1>2, <1>3, <1>4, <1>5, <1>6, <1>7, <1>8, <1>9, <1>10, <1>11,
     <1>12, <1>13, <1>14, <1>15, <1>16, <1>17, <1>18, <1>19, <1>20, <1>21,
     <1>22, <1>23, <1>24, <1>25, <1>26, <1>27, <1>28, <1>29, <1>30, <1>31,
     <1>32, <1>33 DEF N!Next, N!ServerStep,
     N!AcceptStep, N!SocketStep, N!ReadStep, N!MainStep

LEMMA NetTypes == ASSUME NetInv, N!Next
                  PROVE  N!TypeOK'
<1>0. N!TypeOK /\ NetThreads
  BY DEF NetInv
<1>1. CASE N!createServer
  <2>1. server' \in N!NetServerData
    BY <1>0, <1>1 DEF N!TypeOK, N!NetServerData, N!Life, N!createServer
  <2> QED
    BY <1>0, <1>1, <2>1 DEF N!TypeOK, N!createServer, N!Script, N!OneObject,
       N!threadVars, N!Defined, N!Undefined
<1>2. CASE N!serverListen
  BY <1>0, <1>2 DEF N!TypeOK, N!serverListen, N!Script, N!threadVars,
     N!Defined, N!Undefined
<1>3. CASE N!serverSocketFails
  BY <1>0, <1>3 DEF N!TypeOK, N!serverSocketFails, N!threadVars, N!Defined,
     N!Undefined
<1>4. CASE N!startAcceptThread
  <2>1. server' \in N!NetServerData
    BY <1>0, <1>4 DEF N!TypeOK, N!NetServerData, N!Life, N!startAcceptThread
  <2> QED
    BY <1>0, <1>4, <2>1 DEF N!TypeOK, N!startAcceptThread, N!Terminated,
       N!threadVars, N!Defined, N!Undefined
<1>5. CASE N!serverClose
  <2>1. server' \in N!NetServerData
    BY <1>0, <1>5 DEF N!TypeOK, N!NetServerData, N!Life, N!serverClose,
       N!closeServer
  <2> QED
    BY <1>0, <1>5, <2>1 DEF N!TypeOK, N!serverClose, N!closeServer,
       N!Terminated, N!threadVars, N!Defined, N!Undefined
<1>6. CASE N!ServerFinalizer
  <2>1. server' \in N!NetServerData
    BY <1>0, <1>6 DEF N!TypeOK, N!NetServerData, N!Life, N!ServerFinalizer,
       N!closeServer
  <2> QED
    BY <1>0, <1>6, <2>1 DEF N!TypeOK, N!ServerFinalizer, N!closeServer,
       N!Terminated, N!threadVars, N!Defined, N!Undefined
<1>7. CASE N!joinAcceptThread
  <2>1. server' \in N!NetServerData
    BY <1>0, <1>7 DEF N!TypeOK, N!NetServerData, N!Life, N!joinAcceptThread
  <2> QED
    BY <1>0, <1>7, <2>1 DEF N!TypeOK, N!joinAcceptThread, N!threadVars,
       N!Defined, N!Undefined
<1>8. CASE N!acceptLoopTest
  <2>1. server' \in N!NetServerData
    BY <1>0, <1>8 DEF N!TypeOK, N!NetServerData, N!Life, N!acceptLoopTest
  <2> QED
    BY <1>0, <1>8, <2>1 DEF N!TypeOK, N!acceptLoopTest, N!acceptVars, N!Serving,
       N!Defined, N!Undefined
<1>9. CASE N!acceptConnection
  <2>1. server' \in N!NetServerData
    <3>1. server.late \in Nat /\ server.late + 1 \in Nat
      BY <1>0 DEF N!TypeOK, N!NetServerData
    <3>2. \A n \in Nat : [server EXCEPT !.thread = "serve", !.late = n] \in N!NetServerData
      BY <1>0 DEF N!TypeOK, N!NetServerData
    <3> QED  BY <1>9, <3>1, <3>2 DEF N!acceptConnection
  <2>2. peers' \in N!Peers
    <3>1. peers.waiting - 1 \in Nat /\ peers' = [peers EXCEPT !.waiting = peers.waiting - 1]
      BY <1>0, <1>9, NetNumbers, BoundAssumption DEF N!acceptConnection
    <3> QED  BY <1>0, <3>1, NetCounters
  <2> QED
    BY <1>0, <1>9, <2>1, <2>2 DEF N!TypeOK, N!acceptConnection, N!acceptVars,
       N!Defined, N!Undefined
<1>10. CASE N!acceptError
  <2>1. server' \in N!NetServerData
    BY <1>0, <1>10 DEF N!TypeOK, N!NetServerData, N!Life, N!acceptError
  <2> QED
    BY <1>0, <1>10, <2>1 DEF N!TypeOK, N!acceptError, N!acceptVars, N!Serving,
       N!Defined, N!Undefined
<1>11. CASE N!serveConnection
  <2>1. server' \in N!NetServerData
    BY <1>0, <1>11 DEF N!TypeOK, N!NetServerData, N!Life, N!serveConnection
  <2>2. peers' \in N!Peers
    <3>1. peers.reading + 1 \in Nat /\ peers' = [peers EXCEPT !.reading = peers.reading + 1]
      BY <1>0, <1>11, NetNumbers, BoundAssumption DEF N!serveConnection
    <3> QED  BY <1>0, <3>1, NetCounters
  <2>3. netQueue' \in Seq(N!SocketEvent \cup {"connection"})
    <3>1. netQueue \in Seq(N!SocketEvent \cup {"connection"})
      BY <1>0 DEF N!TypeOK
    <3>2. Append(netQueue, "connection") \in Seq(N!SocketEvent \cup {"connection"})
      BY <3>1, AppendProperties
    <3> QED  BY <1>11, <3>1, <3>2 DEF N!serveConnection, N!Post
  <2> QED
    BY <1>0, <1>11, <2>1, <2>2, <2>3 DEF N!TypeOK, N!serveConnection,
       N!acceptVars, N!Post, N!Undefined
<1>12. CASE N!acceptedSocketEnds
  <2>1. peers' \in N!Peers
    <3>1. peers.reading - 1 \in Nat /\ peers' = [peers EXCEPT !.reading = peers.reading - 1]
      BY <1>0, <1>12, NetNumbers, BoundAssumption DEF N!acceptedSocketEnds
    <3> QED  BY <1>0, <3>1, NetCounters
  <2> QED
    BY <1>0, <1>12, <2>1 DEF N!TypeOK, N!acceptedSocketEnds, N!acceptVars,
       N!Defined, N!Undefined
<1>13. CASE N!createConnection
  <2>1. socket' \in N!NetSocketData
    BY <1>0, <1>13 DEF N!TypeOK, N!NetSocketData, N!Life, N!createConnection
  <2> QED
    BY <1>0, <1>13, <2>1 DEF N!TypeOK, N!createConnection, N!Script, N!OneObject,
       N!sockVars, N!Defined, N!Undefined
<1>14. CASE N!socketConnect
  BY <1>0, <1>14 DEF N!TypeOK, N!socketConnect, N!Script, N!sockVars,
     N!Defined, N!Undefined
<1>15. CASE N!connectFails
  BY <1>0, <1>15 DEF N!TypeOK, N!connectFails, N!sockVars, N!Defined,
     N!Undefined
<1>16. CASE N!startReadThread
  <2>1. socket' \in N!NetSocketData
    BY <1>0, <1>16 DEF N!TypeOK, N!NetSocketData, N!Life, N!startReadThread
  <2>2. wire' \in N!Wire
    <3>1. /\ wire.connects + 1 \in 0..MaxConnects
          /\ wire' = [wire EXCEPT !.chunks = 0, !.fin = FALSE, !.connects = wire.connects + 1]
      BY <1>0, <1>16, NetNumbers, BoundAssumption DEF N!startReadThread, NetThreads
    <3> QED  BY <1>0, <3>1, NetCounters
  <2>3. netQueue' \in Seq(N!SocketEvent \cup {"connection"})
    BY <1>0, <1>16, AppendProperties DEF N!TypeOK, N!SocketEvent, N!startReadThread, N!Post
  <2> QED
    BY <1>0, <1>16, <2>1, <2>2, <2>3 DEF N!TypeOK, N!startReadThread,
       N!Terminated, N!sockVars, N!Post, N!Defined, N!Undefined
<1>17. CASE N!socketWrite
  BY <1>0, <1>17 DEF N!TypeOK, N!socketWrite, N!Script, N!sockVars, N!Defined,
     N!Undefined
<1>18. CASE N!sendReturns
  BY <1>0, <1>18 DEF N!TypeOK, N!sendReturns, N!sockVars
<1>19. CASE N!socketEnd
  <2>1. socket' \in N!NetSocketData
    BY <1>0, <1>19 DEF N!TypeOK, N!NetSocketData, N!Life, N!socketEnd
  <2> QED
    BY <1>0, <1>19, <2>1 DEF N!TypeOK, N!socketEnd, N!Script, N!sockVars,
       N!Defined, N!Undefined
<1>20. CASE N!socketDestroy
  <2>1. socket' \in N!NetSocketData
    BY <1>0, <1>20 DEF N!TypeOK, N!NetSocketData, N!Life, N!socketDestroy,
       N!destroy
  <2> QED
    BY <1>0, <1>20, <2>1 DEF N!TypeOK, N!socketDestroy, N!destroy, N!Terminated,
       N!sockVars, N!Defined, N!Undefined
<1>21. CASE N!SocketFinalizer
  <2>1. socket' \in N!NetSocketData
    BY <1>0, <1>21 DEF N!TypeOK, N!NetSocketData, N!Life, N!SocketFinalizer,
       N!destroy
  <2> QED
    BY <1>0, <1>21, <2>1 DEF N!TypeOK, N!SocketFinalizer, N!destroy,
       N!Terminated, N!sockVars, N!Defined, N!Undefined
<1>22. CASE N!joinReadThread
  <2>1. socket' \in N!NetSocketData
    BY <1>0, <1>22 DEF N!TypeOK, N!NetSocketData, N!Life, N!joinReadThread
  <2> QED
    BY <1>0, <1>22, <2>1 DEF N!TypeOK, N!joinReadThread, N!sockVars, N!Defined,
       N!Undefined
<1>23. CASE N!readLoopTest
  <2>1. socket' \in N!NetSocketData
    BY <1>0, <1>23 DEF N!TypeOK, N!NetSocketData, N!Life, N!readLoopTest
  <2> QED
    BY <1>0, <1>23, <2>1 DEF N!TypeOK, N!readLoopTest, N!readVars, N!Defined,
       N!Undefined
<1>24. CASE N!recvData
  <2>1. socket' \in N!NetSocketData
    BY <1>0, <1>24 DEF N!TypeOK, N!NetSocketData, N!Life, N!recvData
  <2>2. wire' \in N!Wire
    <3>1. wire.chunks - 1 \in Nat /\ wire' = [wire EXCEPT !.chunks = wire.chunks - 1]
      BY <1>0, <1>24, NetNumbers, BoundAssumption DEF N!recvData
    <3> QED  BY <1>0, <3>1, NetCounters
  <2> QED
    BY <1>0, <1>24, <2>1, <2>2 DEF N!TypeOK, N!recvData, N!readVars, N!Defined,
       N!Undefined
<1>25. CASE N!recvEnds
  <2>1. socket' \in N!NetSocketData
    BY <1>0, <1>25 DEF N!TypeOK, N!NetSocketData, N!Life, N!recvEnds
  <2> QED
    BY <1>0, <1>25, <2>1 DEF N!TypeOK, N!recvEnds, N!readVars, N!Defined,
       N!Undefined
<1>26. CASE N!emitData
  <2>1. socket' \in N!NetSocketData
    BY <1>0, <1>26 DEF N!TypeOK, N!NetSocketData, N!Life, N!emitData
  <2>2. netQueue' \in Seq(N!SocketEvent \cup {"connection"})
    BY <1>0, <1>26, AppendProperties DEF N!TypeOK, N!SocketEvent, N!emitData, N!Post
  <2> QED
    BY <1>0, <1>26, <2>1, <2>2 DEF N!TypeOK, N!emitData, N!readVars, N!Post,
       N!Undefined
<1>27. CASE N!emitEnd
  <2>1. socket' \in N!NetSocketData
    BY <1>0, <1>27 DEF N!TypeOK, N!NetSocketData, N!Life, N!emitEnd
  <2>2. netQueue' \in Seq(N!SocketEvent \cup {"connection"})
    BY <1>0, <1>27, AppendProperties DEF N!TypeOK, N!SocketEvent, N!emitEnd, N!Post
  <2> QED
    BY <1>0, <1>27, <2>1, <2>2 DEF N!TypeOK, N!emitEnd, N!readVars, N!Post,
       N!Defined, N!Undefined
<1>28. CASE N!Return
  BY <1>0, <1>28 DEF N!TypeOK, N!Return, N!Script, N!threadVars, N!Defined,
     N!Undefined
<1>29. CASE N!Deliver
  <2>0. /\ netQueue' \in Seq(N!SocketEvent \cup {"connection"})
        /\ Head(netQueue) \in N!SocketEvent \cup {"connection"}
    BY <1>0, <1>29, HeadTailProperties DEF N!TypeOK, N!Deliver
  <2>1. netQueue' \in Seq(N!SocketEvent \cup {"connection"}) /\ heard' \in Seq(N!SocketEvent)
    BY <1>0, <1>29, <2>0, AppendProperties DEF N!TypeOK, N!Deliver
  <2> QED
    BY <1>0, <1>29, <2>1 DEF N!TypeOK, N!Deliver, N!threadVars, N!Undefined
<1>30. CASE N!Leave
  BY <1>0, <1>30 DEF N!TypeOK, N!Leave, N!threadVars, N!Defined, N!Undefined
<1>31. CASE N!Gone
  BY <1>0, <1>31 DEF N!TypeOK, N!Gone, N!threadVars
<1>32. CASE N!PeerConnects
  <2>1. peers' \in N!Peers
    <3>1. /\ peers.opened + 1 \in 0..MaxPeers /\ peers.waiting + 1 \in Nat
          /\ peers' = [peers EXCEPT !.opened = peers.opened + 1, !.waiting = peers.waiting + 1]
      BY <1>0, <1>32, NetNumbers, BoundAssumption DEF N!PeerConnects
    <3> QED  BY <1>0, <3>1, NetCounters
  <2> QED
    BY <1>0, <1>32, <2>1 DEF N!TypeOK, N!PeerConnects, N!acceptVars, N!Defined,
       N!Undefined
<1>33. CASE N!PeerSends
  <2>1. wire' \in N!Wire
    <3>1. \/ /\ wire.chunks + 1 \in Nat /\ wire.sent + 1 \in 0..MaxChunks
             /\ wire' = [wire EXCEPT !.chunks = wire.chunks + 1, !.sent = wire.sent + 1]
          \/ wire' = [wire EXCEPT !.fin = TRUE]
      BY <1>0, <1>33, NetNumbers, BoundAssumption DEF N!PeerSends
    <3> QED  BY <1>0, <3>1, NetCounters
  <2> QED
    BY <1>0, <1>33, <2>1 DEF N!TypeOK, N!PeerSends, N!readVars, N!Defined,
       N!Undefined
<1> QED
  BY <1>1, <1>2, <1>3, <1>4, <1>5, <1>6, <1>7, <1>8, <1>9, <1>10, <1>11,
     <1>12, <1>13, <1>14, <1>15, <1>16, <1>17, <1>18, <1>19, <1>20, <1>21,
     <1>22, <1>23, <1>24, <1>25, <1>26, <1>27, <1>28, <1>29, <1>30, <1>31,
     <1>32, <1>33 DEF N!Next, N!ServerStep,
     N!AcceptStep, N!SocketStep, N!ReadStep, N!MainStep

NetEvent == N!SocketEvent \cup {"connection"}

\* An event added to an ordered sequence.
LEMMA OrderedAppend ==
  ASSUME NEW w \in Seq(NetEvent), NEW e \in NetEvent,
         Ordered(w), (e = "connect") = Ended(w)
  PROVE  Ordered(Append(w, e)) /\ Ended(Append(w, e)) = (e = "end")
<1> DEFINE v == Append(w, e)
           n == Len(w)
<1>1. /\ n \in Nat /\ DOMAIN w = 1..n /\ Len(v) = n + 1 /\ DOMAIN v = 1..n + 1
      /\ v # << >> /\ v[n + 1] = e /\ \A i \in 1..n : v[i] = w[i]
  BY AppendProperties, LenProperties
<1>2. w = << >> <=> n = 0
  BY EmptySeq
<1> HIDE DEF v, n
<1>3. Ended(v) = (e = "end")
  BY <1>1 DEF Ended
<1>4. ASSUME NEW i \in DOMAIN v
      PROVE  (v[i] = "connect") = (i = 1 \/ v[i - 1] = "end")
  <2>1. CASE i \in 1..n
    <3>1. v[i] = w[i] /\ (w[i] = "connect") = (i = 1 \/ w[i - 1] = "end")
      BY <1>1, <2>1 DEF Ordered
    <3>2. i # 1 => v[i - 1] = w[i - 1]
      BY <1>1, <2>1
    <3> QED  BY <3>1, <3>2
  <2>2. CASE i = n + 1
    <3>1. CASE n = 0
      BY <1>1, <1>2, <2>2, <3>1 DEF Ended
    <3>2. CASE n # 0
      <4>1. Ended(w) = (w[n] = "end")
        BY <1>2, <3>2 DEF Ended, n
      <4>2. v[i - 1] = w[n] /\ i # 1
        BY <1>1, <2>2, <3>2
      <4> QED  BY <1>1, <2>2, <4>1, <4>2
    <3> QED  BY <3>1, <3>2
  <2> QED  BY <1>1, <1>4, <2>1, <2>2
<1>5. Ordered(v)
  BY <1>4 DEF Ordered
<1> QED  BY <1>3, <1>5 DEF v

\* A callback posted goes to the end of what was and will be emitted; one that
\* runs moves from the queue to what was emitted.
LEMMA ToldAppend ==
  ASSUME NEW S, NEW h \in Seq(S), NEW q \in Seq(S), NEW e \in S
  PROVE  h \o Append(q, e) = Append(h \o q, e)
<1>1. Append(q, e) = q \o <<e>> /\ <<e>> \in Seq(S) /\ h \o q \in Seq(S)
  BY AppendIsConcat, ConcatProperties
<1>2. Append(h \o q, e) = (h \o q) \o <<e>>
  BY <1>1, AppendIsConcat
<1> QED  BY <1>1, <1>2, ConcatAssociative

LEMMA ToldMoves ==
  ASSUME NEW S, NEW h \in Seq(S), NEW q \in Seq(S), q # << >>
  PROVE  Append(h, Head(q)) \o Tail(q) = h \o q
<1> DEFINE e == Head(q)
           t == Tail(q)
           a == Append(h, e)
<1>1. /\ e \in S /\ e = q[1] /\ t \in Seq(S) /\ Len(t) = Len(q) - 1
      /\ \A i \in 1..Len(t) : t[i] = q[i + 1]
  BY HeadTailProperties
<1>2. Len(h) \in Nat /\ Len(q) \in Nat /\ Len(q) # 0
  BY LenProperties, EmptySeq
<1> HIDE DEF e, t
<1>3. /\ a \in Seq(S) /\ Len(a) = Len(h) + 1 /\ a[Len(h) + 1] = e
      /\ \A i \in 1..Len(h) : a[i] = h[i]
  BY <1>1, AppendProperties
<1> HIDE DEF a
<1>c. /\ a \o t \in Seq(S) /\ Len(a \o t) = Len(a) + Len(t)
      /\ \A i \in 1..Len(a) + Len(t) :
            (a \o t)[i] = IF i <= Len(a) THEN a[i] ELSE t[i - Len(a)]
  BY <1>1, <1>3, ConcatProperties
<1>d. Len(a) + Len(t) = Len(h) + Len(q)
  BY <1>1, <1>2, <1>3
<1>4. /\ a \o t \in Seq(S) /\ Len(a \o t) = Len(h) + Len(q)
      /\ \A i \in 1..Len(h) + Len(q) :
            (a \o t)[i] = IF i <= Len(h) + 1 THEN a[i] ELSE t[i - (Len(h) + 1)]
  BY <1>3, <1>c, <1>d
<1>5. /\ h \o q \in Seq(S) /\ Len(h \o q) = Len(h) + Len(q)
      /\ \A i \in 1..Len(h) + Len(q) :
            (h \o q)[i] = IF i <= Len(h) THEN h[i] ELSE q[i - Len(h)]
  BY ConcatProperties
<1>6. ASSUME NEW i \in 1..Len(h) + Len(q)
      PROVE  (a \o t)[i] = (h \o q)[i]
  <2>1. CASE i <= Len(h)
    BY <1>2, <1>3, <1>4, <1>5, <2>1
  <2>2. CASE i = Len(h) + 1
    BY <1>1, <1>2, <1>3, <1>4, <1>5, <2>2
  <2>3. CASE i > Len(h) + 1
    <3>1. (a \o t)[i] = t[i - (Len(h) + 1)] /\ (h \o q)[i] = q[i - Len(h)]
      BY <1>2, <1>4, <1>5, <2>3
    <3>2. i - (Len(h) + 1) \in 1..Len(t) /\ (i - (Len(h) + 1)) + 1 = i - Len(h)
      BY <1>1, <1>2, <2>3
    <3> QED  BY <1>1, <3>1, <3>2
  <2>4. i <= Len(h) \/ i = Len(h) + 1 \/ i > Len(h) + 1
    BY <1>2, <1>6
  <2> QED  BY <2>1, <2>2, <2>3, <2>4
<1>7. a \o t = h \o q
  BY <1>4, <1>5, <1>6, SeqEqual
<1> QED  BY <1>7 DEF a, e, t

LEMMA NetEventsKept == ASSUME NetInv, N!Next
                       PROVE  NetEvents'
<1>0. N!TypeOK /\ NetThreads /\ NetEvents
  BY DEF NetInv
<1>t. /\ heard \in Seq(NetEvent) /\ netQueue \in Seq(NetEvent)
      /\ heard \o netQueue \in Seq(NetEvent)
  <2>1. heard \in Seq(NetEvent) /\ netQueue \in Seq(NetEvent)
    BY <1>0 DEF N!TypeOK, NetEvent
  <2> QED  BY <2>1, ConcatProperties
<1>l. /\ server.life \in N!Life /\ socket.life \in N!Life
      /\ server \in N!NetServerData /\ socket \in N!NetSocketData
  BY <1>0 DEF N!TypeOK, N!NetServerData, N!NetSocketData
<1>f. ASSUME UNCHANGED <<heard, netQueue>>,
             server.life # "none" => server'.life # "none",
             (socket'.life = "none") = (socket.life = "none"),
             (socket'.thread \in {"none", "ended"}) = (socket.thread \in {"none", "ended"}),
             netFate = "alive"
      PROVE  NetEvents'
  BY <1>0, <1>f DEF NetEvents
<1>1. CASE N!createConnection
  <2>1. netQueue = << >> /\ heard = << >>
    <3>1. \A i \in DOMAIN netQueue : FALSE
      BY <1>0, <1>1 DEF NetEvents, N!createConnection, N!OneObject
    <3>2. Len(netQueue) \in Nat /\ DOMAIN netQueue = 1..Len(netQueue)
      BY <1>t, Elements
    <3>3. Len(netQueue) = 0
      BY <3>1, <3>2
    <3>4. netQueue = << >>
      BY <1>t, <3>3, EmptySeq
    <3> QED
      BY <1>0, <1>1, <3>4 DEF NetEvents, N!createConnection, N!OneObject
  <2>2. /\ netQueue' = << >> /\ heard' = << >> /\ socket'.life = "live"
        /\ socket'.thread = "none"
    BY <1>0, <1>1, <1>l, <2>1 DEF N!createConnection, N!OneObject, N!sockVars,
       NetThreads, N!NetSocketData
  <2>3. heard' \o netQueue' = << >> /\ DOMAIN netQueue' = {}
    BY <2>2
  <2>4. Ordered(<< >>) /\ Ended(<< >>)
    BY DEF Ordered, Ended
  <2>5. \A i \in DOMAIN netQueue' : FALSE
    BY <2>3
  <2>6. (socket'.thread \in {"none", "ended"}) = Ended(heard' \o netQueue')
    BY <2>2, <2>3 DEF Ended
  <2>7. Ordered(heard' \o netQueue') /\ socket'.life # "none"
    BY <2>2, <2>3, <2>4
  <2> QED
    BY <2>5, <2>6, <2>7 DEF NetEvents
<1>2. CASE N!serveConnection
  <2>1. server.life # "none" /\ socket.life = "none" /\ heard = << >>
    BY <1>0, <1>2 DEF NetThreads, NetEvents, N!serveConnection
  <2>2. heard' = heard /\ socket' = socket /\ server'.life = server.life
    BY <1>l, <1>2 DEF N!serveConnection, N!acceptVars, N!NetServerData
  <2>3. \A i \in DOMAIN netQueue' : netQueue'[i] = "connection"
    <3>1. CASE netQueue' = netQueue
      BY <1>0, <2>1, <3>1 DEF NetEvents
    <3>2. CASE netQueue' = Append(netQueue, "connection")
      <4>1. "connection" \in NetEvent
        BY DEF NetEvent
      <4>2. /\ Len(netQueue) \in Nat /\ DOMAIN netQueue = 1..Len(netQueue)
            /\ DOMAIN netQueue' = 1..Len(netQueue) + 1
            /\ \A i \in DOMAIN netQueue : netQueue'[i] = netQueue[i]
            /\ netQueue'[Len(netQueue) + 1] = "connection"
        BY <1>t, <3>2, <4>1, AppendProperties, LenProperties
      <4>3. \A i \in DOMAIN netQueue' :
                i \in DOMAIN netQueue \/ i = Len(netQueue) + 1
        BY <4>2
      <4> QED  BY <1>0, <2>1, <4>2, <4>3 DEF NetEvents
    <3> QED  BY <1>2, <3>1, <3>2 DEF N!serveConnection, N!Post
  <2> QED
    BY <2>1, <2>2, <2>3 DEF NetEvents
<1>3. ASSUME NEW e \in N!SocketEvent, N!Post(e), heard' = heard, server' = server,
             socket.life # "none", socket'.life # "none",
             netFate = "alive",
             netFate' = "alive" => (e = "connect") = (socket.thread \in {"none", "ended"}),
             (socket'.thread \in {"none", "ended"}) = (e = "end")
      PROVE  NetEvents'
  <2>1. e \in NetEvent /\ e # "connection"
    BY <1>3 DEF NetEvent, N!SocketEvent
  <2>2. heard' \o netQueue' = Append(heard \o netQueue, e)
    BY <1>t, <1>3, <2>1, ToldAppend DEF N!Post
  <2>3. netFate' = "alive" =>
            /\ Ordered(heard' \o netQueue')
            /\ (socket'.thread \in {"none", "ended"}) = Ended(heard' \o netQueue')
    <3> SUFFICES ASSUME netFate' = "alive"
                 PROVE  /\ Ordered(heard' \o netQueue')
                        /\ (socket'.thread \in {"none", "ended"}) = Ended(heard' \o netQueue')
      OBVIOUS
    <3>1. Ordered(heard \o netQueue) /\ (e = "connect") = Ended(heard \o netQueue)
      BY <1>0, <1>3 DEF NetEvents
    <3>2. /\ Ordered(Append(heard \o netQueue, e))
          /\ Ended(Append(heard \o netQueue, e)) = (e = "end")
      BY <1>t, <2>1, <3>1, OrderedAppend
    <3> QED  BY <1>3, <2>2, <3>2
  <2>4. \A i \in DOMAIN netQueue' : netQueue'[i] = "connection" => server'.life # "none"
    <3>1. /\ Len(netQueue) \in Nat /\ DOMAIN netQueue = 1..Len(netQueue)
          /\ DOMAIN netQueue' = 1..Len(netQueue) + 1
          /\ \A i \in DOMAIN netQueue : netQueue'[i] = netQueue[i]
          /\ netQueue'[Len(netQueue) + 1] = e
      BY <1>t, <1>3, <2>1, AppendProperties, LenProperties DEF N!Post
    <3>2. \A i \in DOMAIN netQueue' :
              i \in DOMAIN netQueue \/ i = Len(netQueue) + 1
      BY <3>1
    <3> QED  BY <1>0, <1>3, <2>1, <3>1, <3>2 DEF NetEvents
  <2> QED
    BY <1>3, <2>3, <2>4 DEF NetEvents
<1>4. CASE N!startReadThread
  <2>1. /\ socket.life # "none" /\ socket'.life = socket.life
        /\ socket'.thread = "test" /\ N!Post("connect")
        /\ heard' = heard /\ server' = server /\ netFate = "alive"
        /\ netFate' = "alive" => socket.thread = "none"
    BY <1>0, <1>4, <1>l DEF N!startReadThread, NetThreads, N!NetSocketData,
       N!sockVars, N!Terminated, N!Defined, N!Undefined
  <2>2. "connect" \in N!SocketEvent
    BY DEF N!SocketEvent
  <2> QED  BY <1>3, <2>1, <2>2
<1>5. CASE N!emitData
  <2>1. /\ socket.life # "none" /\ socket'.life = socket.life
        /\ socket.thread = "emit" /\ socket'.thread = "test" /\ N!Post("data")
        /\ heard' = heard /\ server' = server /\ netFate = "alive"
    BY <1>0, <1>5, <1>l DEF N!emitData, NetThreads, N!NetSocketData,
       N!readVars, N!Undefined
  <2>2. "data" \in N!SocketEvent
    BY DEF N!SocketEvent
  <2> QED  BY <1>3, <2>1, <2>2
<1>6. CASE N!emitEnd
  <2>1. /\ socket.life # "none" /\ socket'.life = socket.life
        /\ socket.thread = "last" /\ socket'.thread = "ended" /\ N!Post("end")
        /\ heard' = heard /\ server' = server /\ netFate = "alive"
    BY <1>0, <1>6, <1>l DEF N!emitEnd, NetThreads, N!NetSocketData,
       N!readVars, N!Defined, N!Undefined
  <2>2. "end" \in N!SocketEvent
    BY DEF N!SocketEvent
  <2> QED  BY <1>3, <2>1, <2>2
<1>7. CASE N!Deliver
  <2>0. /\ netQueue # << >> /\ netQueue' = Tail(netQueue) /\ netFate = "alive"
        /\ socket' = socket /\ server' = server
        /\ heard' = IF Head(netQueue) = "connection" THEN heard
                    ELSE Append(heard, Head(netQueue))
    BY <1>7 DEF N!Deliver, N!Undefined
  <2>1. /\ Head(netQueue) = netQueue[1] /\ Len(netQueue) \in Nat /\ Len(netQueue) # 0
        /\ DOMAIN netQueue = 1..Len(netQueue)
        /\ DOMAIN netQueue' = 1..Len(netQueue) - 1
        /\ \A i \in 1..Len(netQueue) - 1 : netQueue'[i] = netQueue[i + 1]
    BY <1>t, <2>0, HeadTailProperties, LenProperties
  <2>2. 1 \in DOMAIN netQueue
        /\ \A i \in DOMAIN netQueue' :
                i + 1 \in DOMAIN netQueue /\ netQueue'[i] = netQueue[i + 1]
    BY <2>1
  <2>3. \A i \in DOMAIN netQueue' : netQueue'[i] = "connection" => server'.life # "none"
    BY <1>0, <2>0, <2>2 DEF NetEvents
  <2>4. CASE socket.life = "none"
    <3>1. heard' = << >>
      BY <1>0, <2>0, <2>1, <2>2, <2>4 DEF NetEvents
    <3>2. \A i \in DOMAIN netQueue' : netQueue'[i] = "connection"
      BY <1>0, <2>2, <2>4 DEF NetEvents
    <3> QED  BY <2>0, <2>3, <2>4, <3>1, <3>2 DEF NetEvents
  <2>5. CASE socket.life # "none"
    <3>1. Head(netQueue) # "connection"
      BY <1>0, <2>1, <2>2, <2>5 DEF NetEvents, NetThreads
    <3>2. heard' \o netQueue' = heard \o netQueue
      BY <1>t, <2>0, <3>1, ToldMoves
    <3> QED  BY <1>0, <2>0, <2>3, <2>5, <3>2 DEF NetEvents
  <2> QED  BY <2>4, <2>5
<1>8. CASE N!ServerStep
  <2>1. UNCHANGED <<heard, netQueue, socket>> /\ netFate = "alive"
    BY <1>8 DEF N!ServerStep, N!createServer, N!serverListen, N!serverSocketFails,
       N!startAcceptThread, N!serverClose, N!ServerFinalizer, N!closeServer,
       N!joinAcceptThread, N!Terminated, N!Defined, N!Undefined
  <2>2. server.life # "none" => server'.life # "none"
    BY <1>8, <1>l DEF N!ServerStep, N!createServer, N!serverListen, N!serverSocketFails,
       N!startAcceptThread, N!serverClose, N!ServerFinalizer, N!closeServer,
       N!joinAcceptThread, N!NetServerData
  <2> QED  BY <1>f, <2>1, <2>2
<1>9. CASE N!acceptLoopTest \/ N!acceptConnection \/ N!acceptError
           \/ N!acceptedSocketEnds \/ N!PeerConnects
  <2>1. UNCHANGED <<heard, netQueue, socket>> /\ netFate = "alive"
    BY <1>9 DEF N!acceptLoopTest, N!acceptConnection, N!acceptError,
       N!acceptedSocketEnds, N!PeerConnects, N!acceptVars, N!Defined, N!Undefined
  <2>2. server'.life = server.life
    BY <1>9, <1>l DEF N!acceptLoopTest, N!acceptConnection, N!acceptError,
       N!acceptedSocketEnds, N!PeerConnects, N!NetServerData
  <2> QED  BY <1>f, <2>1, <2>2
<1>10. CASE N!socketConnect \/ N!connectFails \/ N!socketWrite \/ N!sendReturns
            \/ N!socketEnd \/ N!socketDestroy \/ N!SocketFinalizer \/ N!joinReadThread
  <2>1. UNCHANGED <<heard, netQueue, server>> /\ netFate = "alive"
    BY <1>10 DEF N!socketConnect, N!connectFails, N!socketWrite, N!sendReturns,
       N!socketEnd, N!socketDestroy, N!SocketFinalizer, N!joinReadThread, N!destroy,
       N!sockVars, N!Terminated, N!Defined, N!Undefined
  <2>2. /\ (socket'.life = "none") = (socket.life = "none")
        /\ (socket'.thread \in {"none", "ended"}) = (socket.thread \in {"none", "ended"})
    BY <1>0, <1>10, <1>l DEF NetThreads, N!socketConnect, N!connectFails, N!socketWrite,
       N!sendReturns, N!socketEnd, N!socketDestroy, N!SocketFinalizer, N!joinReadThread,
       N!destroy, N!NetSocketData
  <2> QED  BY <1>f, <2>1, <2>2
<1>11. CASE N!readLoopTest \/ N!recvData \/ N!recvEnds \/ N!PeerSends
  <2>1. UNCHANGED <<heard, netQueue, server>> /\ netFate = "alive"
    BY <1>11 DEF N!readLoopTest, N!recvData, N!recvEnds, N!PeerSends, N!readVars,
       N!Defined, N!Undefined
  <2>2. /\ (socket'.life = "none") = (socket.life = "none")
        /\ (socket'.thread \in {"none", "ended"}) = (socket.thread \in {"none", "ended"})
    <3>1. CASE N!readLoopTest
      BY <1>l, <3>1 DEF N!readLoopTest, N!NetSocketData
    <3>2. CASE N!recvData
      BY <1>l, <3>2 DEF N!recvData, N!NetSocketData
    <3>3. CASE N!recvEnds
      BY <1>l, <3>3 DEF N!recvEnds, N!NetSocketData
    <3>4. CASE N!PeerSends
      BY <3>4 DEF N!PeerSends
    <3> QED  BY <1>11, <3>1, <3>2, <3>3, <3>4
  <2> QED  BY <1>f, <2>1, <2>2
<1>12. CASE N!Return \/ N!Leave \/ N!Gone
  BY <1>f, <1>12 DEF N!Return, N!Leave, N!Gone, N!Defined, N!Undefined
<1> QED
  BY <1>1, <1>2, <1>4, <1>5, <1>6, <1>7, <1>8, <1>9, <1>10, <1>11, <1>12
     DEF N!Next, N!AcceptStep, N!SocketStep, N!ReadStep, N!MainStep

LEMMA NetInvariant == Spec => []NetInv
<1>1. Init => NetInv
  BY NetStart DEF Init, In
<1>2. NetInv /\ [Next]_vars => NetInv'
  <2> SUFFICES ASSUME NetInv, [Next]_vars
               PROVE  NetInv'
    OBVIOUS
  <2>1. CASE N!Next
    BY <2>1, NetTypes, NetThreadsKept, NetEventsKept DEF NetInv
  <2>2. CASE UNCHANGED netVars
    BY <2>2, NetStutter
  <2> QED
    BY <2>1, <2>2 DEF Next, vars
<1> QED
  BY <1>1, <1>2, PTL DEF Spec

\* net: whatever the accept and read threads, the peers and the script do, the
\* emitter of a client socket sees connect, data and end events in order and
\* one end per connection, only a script that uses an object again terminates
\* the process, and at most one connection is taken after close() began
\* (startReadThread, readLoop, acceptLoop, NetServerData::close,
\* NetSocketData::destroy).
THEOREM NetEventsInOrder == Spec => []NetSafety
<1>1. ASSUME NetInv PROVE NetSafety
  <2>0. N!TypeOK /\ NetThreads /\ NetEvents
    BY <1>1 DEF NetInv
  <2> DEFINE w == heard \o netQueue
  <2>1. heard \in Seq(NetEvent) /\ netQueue \in Seq(NetEvent)
    BY <2>0 DEF N!TypeOK, NetEvent
  <2>2. N!EventsInOrder
    <3>1. CASE socket.life = "none"
      <4>1. w = netQueue
        BY <2>0, <2>1, <3>1, ConcatEmptySeq DEF NetEvents
      <4>2. \A i \in DOMAIN w : w[i] = "connection"
        BY <2>0, <3>1, <4>1 DEF NetEvents
      <4> HIDE DEF w
      <4> QED  BY <4>2 DEF N!EventsInOrder, w
    <3>2. CASE socket.life # "none"
      <4>1. \A i \in DOMAIN netQueue : netQueue[i] # "connection"
        BY <2>0, <3>2 DEF NetEvents, NetThreads
      <4>2. \A i \in DOMAIN heard : heard[i] # "connection"
        <5>1. \A i \in DOMAIN heard : heard[i] \in N!SocketEvent
          BY <2>0, Elements DEF N!TypeOK
        <5> QED  BY <5>1 DEF N!SocketEvent
      <4>3. /\ Len(w) \in Nat /\ DOMAIN w = 1..Len(w)
            /\ \A i \in DOMAIN w : w[i] # "connection"
        <5>1. /\ Len(heard) \in Nat /\ DOMAIN heard = 1..Len(heard)
              /\ Len(netQueue) \in Nat /\ DOMAIN netQueue = 1..Len(netQueue)
          BY <2>1, Elements
        <5>2. /\ w \in Seq(NetEvent) /\ Len(w) = Len(heard) + Len(netQueue)
              /\ \A i \in 1..Len(heard) + Len(netQueue) :
                    w[i] = IF i <= Len(heard) THEN heard[i] ELSE netQueue[i - Len(heard)]
          BY <2>1, ConcatProperties
        <5>3. Len(w) \in Nat /\ DOMAIN w = 1..Len(w)
          BY <5>2, Elements
        <5> HIDE DEF w
        <5>4. ASSUME NEW i \in DOMAIN w PROVE w[i] # "connection"
          <6>1. CASE i <= Len(heard)
            BY <4>2, <5>1, <5>2, <5>3, <6>1
          <6>2. CASE ~(i <= Len(heard))
            <7>1. i - Len(heard) \in DOMAIN netQueue /\ w[i] = netQueue[i - Len(heard)]
              BY <5>1, <5>2, <5>3, <6>2
            <7> QED  BY <4>1, <7>1
          <6> QED  BY <6>1, <6>2
        <5> QED  BY <5>3, <5>4
      <4>4. netFate = "alive" => Ordered(w)
        BY <2>0, <3>2 DEF NetEvents
      <4> HIDE DEF w
      <4> SUFFICES ASSUME netFate = "alive", NEW i \in DOMAIN w
                   PROVE  (w[i] = "connect") =
                          \A j \in DOMAIN w :
                             j < i /\ (\A k \in DOMAIN w : k < i => k <= j) => w[j] = "end"
        <5>1. {i \in DOMAIN w : w[i] # "connection"} = DOMAIN w
          BY <4>3
        <5> QED  BY <5>1 DEF N!EventsInOrder, w
      <4>5. i \in Nat /\ i >= 1 /\ i <= Len(w)
        BY <4>3
      <4>6. CASE i = 1
        <5>1. \A j \in DOMAIN w : ~(j < i)
          BY <4>3, <4>6
        <5>2. w[i] = "connect"
          BY <4>4, <4>6 DEF Ordered
        <5> QED  BY <5>1, <5>2
      <4>7. CASE i # 1
        <5>1. i - 1 \in DOMAIN w /\ i - 1 < i /\ \A k \in DOMAIN w : k < i => k <= i - 1
          BY <4>3, <4>5, <4>7
        <5>2. \A j \in DOMAIN w : j < i /\ (\A k \in DOMAIN w : k < i => k <= j)
                  => j = i - 1
          BY <4>3, <4>5, <5>1
        <5>3. (w[i] = "connect") = (w[i - 1] = "end")
          BY <4>4, <4>7 DEF Ordered
        <5> QED  BY <5>1, <5>2, <5>3
      <4> QED  BY <4>6, <4>7
    <3> QED  BY <3>1, <3>2
  <2> QED
    BY <2>0, <2>2 DEF NetSafety, N!Safety, NetThreads, N!TerminateOnlyOnReuse,
       N!AtMostOneLate
<1>2. NetInv => NetSafety
  BY <1>1
<1> QED
  BY <1>2, NetInvariant, PTL

-----------------------------------------------------------------------------
(* http                                                                    *)

\* A thread that was not joined is of a listen() since the last close().
HttpThreads ==
    /\ web.thread # "none" => listens >= 1
    /\ webFate = "terminated" => listens > 1

\* No response was kept by the script after its listener returned.
NoneKept == \A c \in H!Client : ~response[c].kept

\* While none is kept, the descriptor of the request belongs to its client
\* until the response is released, and nothing else writes to it.
HttpResponses ==
    /\ \A c \in H!Client : c > request.client => ~response[c].kept
    /\ web.thread \in {"read", "listen", "release"} => request.client \in H!Client
    /\ web.thread \in {"read", "listen"} => ~response[request.client].kept
    /\ NoneKept =>
        /\ ~stray
        /\ web.thread \in {"read", "listen", "release"} =>
               files[request.fd] = request.client
        /\ web.thread \in {"listen", "release"} =>
               response[request.client].fd = request.fd

HttpInv == H!TypeOK /\ HttpThreads /\ HttpResponses

\* A set of natural numbers has a smallest element.
LEMMA Smallest == ASSUME NEW T, T \subseteq Nat, T # {}
                  PROVE  \E x \in T : \A y \in T : x <= y
<1>1. PICK x \in T : \A y \in T : ~(<<y, x>> \in OpToRel(<, Nat))
  BY WFMin, NatLessThanWellFounded
<1>2. \A y \in T : ~(y < x)
  BY <1>1 DEF OpToRel
<1>3. \A y \in T : x <= y
  <2> TAKE y \in T
  <2>1. x \in Nat /\ y \in Nat
    OBVIOUS
  <2> QED  BY <1>2, <2>1
<1> QED  BY <1>3

LEMMA MinElement == ASSUME NEW T, T \subseteq Nat, T # {}
                    PROVE  H!Min(T) \in T
<1>1. \E x \in T : \A y \in T : x <= y
  BY Smallest
<1> QED  BY <1>1 DEF H!Min

LEMMA FirstFree == ASSUME H!FreeFd # {}
                   PROVE  H!Min(H!FreeFd) \in Fd /\ files[H!Min(H!FreeFd)] = 0
<1>1. H!FreeFd \subseteq Nat
  BY BoundAssumption DEF H!FreeFd
<1>2. H!Min(H!FreeFd) \in H!FreeFd
  BY <1>1, MinElement
<1> QED  BY <1>2 DEF H!FreeFd, H!Nobody

LEMMA HttpStart == ASSUME H!Start, webFate \in {"alive", "gone"}
                   PROVE  HttpInv
<1>0. H!Min(Fd) \in Fd
  BY BoundAssumption, MinElement
<1>1. H!TypeOK
  <2>1. web \in H!HTTPServerData
    BY DEF H!Start, H!HTTPServerData
  <2>2. response \in [H!Client -> H!HTTPResponseData]
    BY <1>0 DEF H!Start, H!HTTPResponseData
  <2>3. clients \in 0..MaxClients /\ request \in [client : 0..MaxClients, fd : Fd]
    BY <1>0, BoundAssumption DEF H!Start
  <2>4. files \in [Fd -> H!Nobody..H!Other]
    BY BoundAssumption DEF H!Start, H!Nobody, H!Other
  <2>5. webMain = "js" /\ stray = FALSE
    BY DEF H!Start
  <2>6. listens \in 0..2
    BY DEF H!Start
  <2> QED  BY <2>1, <2>2, <2>3, <2>4, <2>5, <2>6 DEF H!TypeOK
<1>2. HttpThreads
  BY DEF H!Start, HttpThreads
<1>3. web.thread = "none"
  BY DEF H!Start
<1>4. stray = FALSE
  BY DEF H!Start
<1>5. \A c \in H!Client : ~response[c].kept
  BY DEF H!Start
<1>6. HttpResponses
  BY <1>3, <1>4, <1>5 DEF HttpResponses
<1> QED  BY <1>1, <1>2, <1>6 DEF HttpInv

LEMMA HttpStutter == ASSUME HttpInv, UNCHANGED webVars
                     PROVE  HttpInv'
BY DEF HttpInv, H!TypeOK, H!Client, HttpThreads, HttpResponses, NoneKept, webVars

LEMMA HttpTypes == ASSUME HttpInv, H!Next
                   PROVE  H!TypeOK'
<1>0. H!TypeOK /\ HttpThreads /\ HttpResponses
  BY DEF HttpInv
<1>1. CASE H!createServer
  <2>1. web' \in H!HTTPServerData
    BY <1>0, <1>1 DEF H!TypeOK, H!HTTPServerData, H!createServer
  <2> QED
    BY <1>0, <1>1, <2>1 DEF H!TypeOK, H!createServer, H!Defined, H!Undefined
<1>2. CASE H!listenFails
  <2>1. web' \in H!HTTPServerData
    BY <1>0, <1>2 DEF H!TypeOK, H!HTTPServerData, H!listenFails
  <2> QED
    BY <1>0, <1>2, <2>1 DEF H!TypeOK, H!listenFails, H!Defined, H!Undefined
<1>3. CASE H!serverListen
  <2>1. web' \in H!HTTPServerData
    BY <1>0, <1>3 DEF H!TypeOK, H!HTTPServerData, H!serverListen
  <2>2. listens' \in 0..2
    BY <1>0, <1>3 DEF H!TypeOK, H!serverListen
  <2> QED
    BY <1>0, <1>3, <2>1, <2>2 DEF H!TypeOK, H!serverListen, H!Defined,
       H!Undefined
<1>4. CASE H!serverClose
  <2>1. web' \in H!HTTPServerData
    BY <1>0, <1>4 DEF H!TypeOK, H!HTTPServerData, H!serverClose
  <2> QED
    BY <1>0, <1>4, <2>1 DEF H!TypeOK, H!serverClose, H!Defined, H!Undefined
<1>5. CASE H!joinServerThread
  <2>1. web' \in H!HTTPServerData
    BY <1>0, <1>5 DEF H!TypeOK, H!HTTPServerData, H!joinServerThread
  <2> QED
    BY <1>0, <1>5, <2>1 DEF H!TypeOK, H!joinServerThread, H!Defined,
       H!Undefined
<1>6. CASE H!ServerFinalizer
  <2>1. web' \in H!HTTPServerData
    BY <1>0, <1>6 DEF H!TypeOK, H!HTTPServerData, H!ServerFinalizer
  <2> QED
    BY <1>0, <1>6, <2>1 DEF H!TypeOK, H!ServerFinalizer, H!Defined,
       H!Undefined
<1>7. CASE H!serverLoop
  <2>1. web' \in H!HTTPServerData
    BY <1>0, <1>7 DEF H!TypeOK, H!HTTPServerData, H!serverLoop
  <2> QED
    BY <1>0, <1>7, <2>1 DEF H!TypeOK, H!serverLoop, H!threadFrame, H!Defined,
       H!Undefined
<1>8. CASE H!acceptClient
  <2>1. web' \in H!HTTPServerData
    BY <1>0, <1>8 DEF H!TypeOK, H!HTTPServerData, H!acceptClient
  <2>2. H!Min(H!FreeFd) \in Fd
    BY <1>0, <1>8, FirstFree DEF H!acceptClient
  <2>3. request.client + 1 \in 0..MaxClients /\ request.client + 1 \in H!Nobody..H!Other
    BY <1>0, <1>8, BoundAssumption DEF H!TypeOK, H!acceptClient, H!Nobody, H!Other
  <2>4. request' \in [client : 0..MaxClients, fd : Fd]
    BY <1>0, <1>8, <2>2, <2>3 DEF H!acceptClient
  <2>5. files' \in [Fd -> H!Nobody..H!Other]
    BY <1>0, <1>8, <2>2, <2>3 DEF H!TypeOK, H!acceptClient
  <2> QED
    BY <1>0, <1>8, <2>1, <2>2, <2>3, <2>4, <2>5 DEF H!TypeOK, H!acceptClient,
       H!threadFrame, H!Defined, H!Undefined
<1>9. CASE H!readRequest
  <2>1. web' \in H!HTTPServerData
    BY <1>0, <1>9 DEF H!TypeOK, H!HTTPServerData, H!readRequest
  <2>2. request.fd \in Fd
    BY <1>0, <1>9 DEF H!TypeOK
  <2>3. response' \in [H!Client -> H!HTTPResponseData]
    <3>1. \A r \in H!HTTPResponseData :
              [r EXCEPT !.state = "live", !.fd = request.fd] \in H!HTTPResponseData
      BY <2>2 DEF H!HTTPResponseData
    <3>2. response \in [H!Client -> H!HTTPResponseData] /\ request.client \in H!Client
      BY <1>0, <1>9 DEF H!TypeOK, HttpResponses, H!readRequest
    <3>3. \/ response' = response
          \/ response' = [response EXCEPT ![request.client] =
                 [response[request.client] EXCEPT !.state = "live", !.fd = request.fd]]
      BY <1>9 DEF H!readRequest
    <3> QED  BY <3>1, <3>2, <3>3
  <2>4. webFate' \in {"alive", "crashed"}
    BY <1>0, <1>9 DEF H!readRequest, H!Defined, H!Undefined
  <2> QED
    BY <1>0, <1>9, <2>1, <2>2, <2>3, <2>4 DEF H!TypeOK, H!readRequest,
       H!threadFrame, H!Defined, H!Undefined
<1>10. CASE H!listenerReturns
  <2>1. web' \in H!HTTPServerData
    BY <1>0, <1>10 DEF H!TypeOK, H!HTTPServerData, H!listenerReturns
  <2>2. response' \in [H!Client -> H!HTTPResponseData]
    <3>1. PICK keep \in BOOLEAN : response' = [response EXCEPT ![request.client].kept = keep]
      BY <1>10 DEF H!listenerReturns
    <3>2. \A r \in H!HTTPResponseData : [r EXCEPT !.kept = keep] \in H!HTTPResponseData
      BY DEF H!HTTPResponseData
    <3>3. response \in [H!Client -> H!HTTPResponseData] /\ request.client \in H!Client
      BY <1>0, <1>10 DEF H!TypeOK, HttpResponses, H!listenerReturns
    <3> QED  BY <3>1, <3>2, <3>3
  <2> QED
    BY <1>0, <1>10, <2>1, <2>2 DEF H!TypeOK, H!listenerReturns, H!threadFrame,
       H!Undefined
<1>11. CASE H!releaseResponse
  <2>1. web' \in H!HTTPServerData
    BY <1>0, <1>11 DEF H!TypeOK, H!HTTPServerData, H!releaseResponse
  <2>2. \A c \in H!Client : /\ [response EXCEPT ![c].state = "freed"] \in [H!Client -> H!HTTPResponseData]
                            /\ [files EXCEPT ![response[c].fd] = H!Nobody] \in [Fd -> H!Nobody..H!Other]
    BY <1>0, BoundAssumption DEF H!TypeOK, H!HTTPResponseData, H!Nobody, H!Other
  <2>3. request.client \in H!Client
    BY <1>0, <1>11 DEF HttpResponses, H!releaseResponse
  <2>4. response' \in [H!Client -> H!HTTPResponseData] /\ files' \in [Fd -> H!Nobody..H!Other]
    BY <1>0, <1>11, <2>2, <2>3 DEF H!TypeOK, H!releaseResponse, H!Finalize
  <2> QED
    BY <1>0, <1>11, <2>1, <2>2, <2>3, <2>4 DEF H!TypeOK, H!releaseResponse,
       H!threadFrame, H!Finalize, H!Undefined
<1>12. CASE H!closeClient
  <2>1. web' \in H!HTTPServerData
    BY <1>0, <1>12 DEF H!TypeOK, H!HTTPServerData, H!closeClient
  <2>2. files' \in [Fd -> H!Nobody..H!Other]
    BY <1>0, <1>12, BoundAssumption DEF H!TypeOK, H!closeClient, H!Nobody, H!Other
  <2> QED
    BY <1>0, <1>12, <2>1, <2>2 DEF H!TypeOK, H!closeClient, H!threadFrame,
       H!Defined, H!Undefined
<1>13. CASE H!acceptFails
  <2>1. web' \in H!HTTPServerData
    BY <1>0, <1>13 DEF H!TypeOK, H!HTTPServerData, H!acceptFails
  <2> QED
    BY <1>0, <1>13, <2>1 DEF H!TypeOK, H!acceptFails, H!threadFrame, H!Defined,
       H!Undefined
<1>14. CASE \E c \in H!Client : H!responseEnd(c)
  <2>c. PICK c \in H!Client : H!responseEnd(c)
    BY <1>14
  <2>1. stray' \in BOOLEAN
    BY <1>0, <2>c DEF H!responseEnd
  <2>2. webFate' \in {"alive", "killed", "crashed"}
    BY <1>0, <2>c DEF H!responseEnd
  <2> QED
    BY <1>0, <2>c, <2>1, <2>2 DEF H!TypeOK, H!responseEnd
<1>15. CASE \E c \in H!Client : H!DropResponse(c)
  <2>c. PICK c \in H!Client : H!DropResponse(c)
    BY <1>15
  <2>1. \A d \in H!Client : /\ [response EXCEPT ![d].state = "freed"] \in [H!Client -> H!HTTPResponseData]
                            /\ [files EXCEPT ![response[d].fd] = H!Nobody] \in [Fd -> H!Nobody..H!Other]
    BY <1>0, BoundAssumption DEF H!TypeOK, H!HTTPResponseData, H!Nobody, H!Other
  <2>2. response' \in [H!Client -> H!HTTPResponseData] /\ files' \in [Fd -> H!Nobody..H!Other]
    BY <1>0, <2>c, <2>1 DEF H!DropResponse, H!Finalize
  <2> QED
    BY <1>0, <2>c, <2>1, <2>2 DEF H!TypeOK, H!DropResponse, H!Finalize,
       H!Undefined
<1>16. CASE H!ClientConnects
  <2>1. clients' \in 0..MaxClients
    BY <1>0, <1>16, BoundAssumption DEF H!TypeOK, H!ClientConnects
  <2> QED
    BY <1>0, <1>16, <2>1 DEF H!TypeOK, H!ClientConnects, H!Defined, H!Undefined
<1>17. CASE H!OtherOpens
  <2>1. H!Min(H!FreeFd) \in Fd
    BY <1>0, <1>17, FirstFree DEF H!OtherOpens
  <2>2. files' \in [Fd -> H!Nobody..H!Other]
    BY <1>0, <1>17, <2>1, BoundAssumption DEF H!TypeOK, H!OtherOpens, H!Nobody, H!Other
  <2> QED
    BY <1>0, <1>17, <2>1, <2>2 DEF H!TypeOK, H!OtherOpens, H!Defined,
       H!Undefined
<1>18. CASE H!MainLoop
  BY <1>0, <1>18 DEF H!TypeOK, H!MainLoop, H!Defined, H!Undefined
<1>19. CASE H!Gone
  BY <1>0, <1>19 DEF H!TypeOK, H!Gone
<1> QED
  BY <1>1, <1>2, <1>3, <1>4, <1>5, <1>6, <1>7, <1>8, <1>9, <1>10,
     <1>11, <1>12, <1>13, <1>14, <1>15, <1>16, <1>17, <1>18, <1>19
     DEF H!Next, H!ServerStep

LEMMA HttpThreadsKept == ASSUME HttpInv, H!Next
                         PROVE  HttpThreads'
<1>0. H!TypeOK /\ HttpThreads /\ HttpResponses
  BY DEF HttpInv
<1>1. CASE H!createServer
  BY <1>0, <1>1 DEF H!TypeOK, H!HTTPServerData, HttpThreads, H!createServer,
     H!Defined, H!Undefined
<1>2. CASE H!listenFails
  BY <1>0, <1>2 DEF H!TypeOK, H!HTTPServerData, HttpThreads, H!listenFails,
     H!Defined, H!Undefined
<1>3. CASE H!serverListen
  BY <1>0, <1>3 DEF H!TypeOK, H!HTTPServerData, HttpThreads, H!serverListen,
     H!Defined, H!Undefined
<1>4. CASE H!serverClose
  BY <1>0, <1>4 DEF H!TypeOK, H!HTTPServerData, HttpThreads, H!serverClose,
     H!Defined, H!Undefined
<1>5. CASE H!joinServerThread
  BY <1>0, <1>5 DEF H!TypeOK, H!HTTPServerData, HttpThreads,
     H!joinServerThread, H!Defined, H!Undefined
<1>6. CASE H!ServerFinalizer
  BY <1>0, <1>6 DEF H!TypeOK, H!HTTPServerData, HttpThreads,
     H!ServerFinalizer, H!Defined, H!Undefined
<1>7. CASE H!serverLoop
  BY <1>0, <1>7 DEF H!TypeOK, H!HTTPServerData, HttpThreads, H!serverLoop,
     H!threadFrame, H!Defined, H!Undefined
<1>8. CASE H!acceptClient
  BY <1>0, <1>8 DEF H!TypeOK, H!HTTPServerData, HttpThreads, H!acceptClient,
     H!threadFrame, H!Defined, H!Undefined
<1>9. CASE H!readRequest
  BY <1>0, <1>9 DEF H!TypeOK, H!HTTPServerData, HttpThreads, H!readRequest,
     H!threadFrame, H!Defined, H!Undefined
<1>10. CASE H!listenerReturns
  BY <1>0, <1>10 DEF H!TypeOK, H!HTTPServerData, HttpThreads,
     H!listenerReturns, H!threadFrame, H!Undefined
<1>11. CASE H!releaseResponse
  BY <1>0, <1>11 DEF H!TypeOK, H!HTTPServerData, HttpThreads,
     H!releaseResponse, H!threadFrame, H!Finalize, H!Undefined
<1>12. CASE H!closeClient
  BY <1>0, <1>12 DEF H!TypeOK, H!HTTPServerData, HttpThreads, H!closeClient,
     H!threadFrame, H!Defined, H!Undefined
<1>13. CASE H!acceptFails
  BY <1>0, <1>13 DEF H!TypeOK, H!HTTPServerData, HttpThreads, H!acceptFails,
     H!threadFrame, H!Defined, H!Undefined
<1>14. CASE \E c \in H!Client : H!responseEnd(c)
  BY <1>0, <1>14 DEF H!TypeOK, H!HTTPServerData, HttpThreads, H!responseEnd
<1>15. CASE \E c \in H!Client : H!DropResponse(c)
  BY <1>0, <1>15 DEF H!TypeOK, H!HTTPServerData, HttpThreads, H!DropResponse,
     H!Finalize, H!Undefined
<1>16. CASE H!ClientConnects
  BY <1>0, <1>16 DEF H!TypeOK, H!HTTPServerData, HttpThreads,
     H!ClientConnects, H!Defined, H!Undefined
<1>17. CASE H!OtherOpens
  BY <1>0, <1>17 DEF H!TypeOK, H!HTTPServerData, HttpThreads, H!OtherOpens,
     H!Defined, H!Undefined
<1>18. CASE H!MainLoop
  BY <1>0, <1>18 DEF H!TypeOK, H!HTTPServerData, HttpThreads, H!MainLoop,
     H!Defined, H!Undefined
<1>19. CASE H!Gone
  BY <1>0, <1>19 DEF H!TypeOK, H!HTTPServerData, HttpThreads, H!Gone
<1> QED
  BY <1>1, <1>2, <1>3, <1>4, <1>5, <1>6, <1>7, <1>8, <1>9, <1>10,
     <1>11, <1>12, <1>13, <1>14, <1>15, <1>16, <1>17, <1>18, <1>19
     DEF H!Next, H!ServerStep

LEMMA HttpResponsesKept == ASSUME HttpInv, H!Next
                           PROVE  HttpResponses'
<1>0. H!TypeOK /\ HttpResponses
  BY DEF HttpInv
<1>t. /\ web \in H!HTTPServerData
      /\ response \in [H!Client -> H!HTTPResponseData]
      /\ files \in [Fd -> H!Nobody..H!Other]
      /\ request.fd \in Fd /\ request.client \in Nat /\ clients \in Nat
  BY <1>0, BoundAssumption DEF H!TypeOK
<1>f. ASSUME UNCHANGED <<response, request, files, stray>>,
             web'.thread \in {"read", "listen", "release"} => web'.thread = web.thread
      PROVE  HttpResponses'
  BY <1>0, <1>f DEF HttpResponses, NoneKept, H!Client
<1>1. CASE H!createServer \/ H!listenFails \/ H!serverListen \/ H!serverClose
  BY <1>t, <1>1, <1>f DEF H!createServer, H!listenFails, H!serverListen, H!serverClose,
     H!HTTPServerData
<1>2. CASE H!joinServerThread \/ H!ServerFinalizer
  BY <1>t, <1>2, <1>f DEF H!joinServerThread, H!ServerFinalizer, H!HTTPServerData
<1>3. CASE H!serverLoop \/ H!acceptFails
  <2>1. web'.thread \notin {"read", "listen", "release"}
    BY <1>t, <1>3 DEF H!serverLoop, H!acceptFails, H!HTTPServerData
  <2> QED
    BY <1>3, <1>f, <2>1 DEF H!serverLoop, H!acceptFails
<1>4. CASE H!ClientConnects \/ H!MainLoop \/ H!Gone
  BY <1>4, <1>f DEF H!ClientConnects, H!MainLoop, H!Gone
<1>5. CASE H!acceptClient
  <2> DEFINE f == H!Min(H!FreeFd)
             c == request.client + 1
  <2>1. f \in Fd
    BY <1>5, FirstFree DEF H!acceptClient
  <2>2. c \in H!Client
    BY SMTT(30), <1>0, <1>5, BoundAssumption DEF H!TypeOK, H!acceptClient, H!Client
  <2>3. /\ request'.client = c /\ request'.fd = f /\ files' = [files EXCEPT ![f] = c]
        /\ UNCHANGED <<response, stray>>
    BY <1>5 DEF H!acceptClient
  <2>4. web'.thread = "read"
    BY <1>t, <1>5 DEF H!acceptClient, H!HTTPServerData
  <2>5. \A d \in H!Client : d > request'.client => d > request.client
    BY <1>t, <2>3 DEF H!Client
  <2>6. files'[request'.fd] = request'.client
    BY <1>t, <2>1, <2>3
  <2>7. c > request.client
    BY <1>t
  <2>8. ~response[c].kept
    BY <1>0, <2>2, <2>7 DEF HttpResponses
  <2> HIDE DEF f, c
  <2>9. NoneKept' = NoneKept
    BY <2>3 DEF NoneKept, H!Client
  <2>10. \A d \in H!Client : d > request'.client => ~response'[d].kept
    BY <1>0, <2>3, <2>5 DEF HttpResponses
  <2> QED
    BY <1>0, <2>2, <2>3, <2>4, <2>6, <2>8, <2>9, <2>10 DEF HttpResponses, H!Client
<1>6. CASE H!readRequest
  <2>0. /\ UNCHANGED <<request, files, stray>> /\ web.thread = "read"
        /\ request.client \in H!Client
    BY <1>0, <1>6 DEF H!readRequest, HttpResponses
  <2>1. CASE response' = response /\ web' = [web EXCEPT !.thread = "close"]
    <3>1. web'.thread = "close"
      BY <1>t, <2>1 DEF H!HTTPServerData
    <3> QED  BY <1>f, <2>0, <2>1, <3>1
  <2>2. CASE /\ response' = [response EXCEPT ![request.client] =
                 [@ EXCEPT !.state = "live", !.fd = request.fd]]
             /\ \E t \in {"listen", "release"} : web' = [web EXCEPT !.thread = t]
    <3>1. web'.thread \in {"listen", "release"}
      BY <1>t, <2>2 DEF H!HTTPServerData
    <3>2. /\ \A d \in H!Client : response'[d].kept = response[d].kept
          /\ response'[request.client].fd = request.fd
      BY <1>t, <2>0, <2>2 DEF H!HTTPResponseData
    <3>3. NoneKept' = NoneKept
      BY <3>2 DEF NoneKept, H!Client
    <3>4. \A d \in H!Client : d > request'.client => ~response'[d].kept
      BY <1>0, <2>0, <3>2 DEF HttpResponses
    <3>5. ~response'[request'.client].kept
      BY <1>0, <2>0, <3>2 DEF HttpResponses
    <3> QED
      BY <1>0, <2>0, <3>1, <3>2, <3>3, <3>4, <3>5 DEF HttpResponses, H!Client
  <2> QED  BY <1>6, <2>1, <2>2 DEF H!readRequest
<1>7. CASE H!listenerReturns
  <2>0. /\ UNCHANGED <<request, files, stray>> /\ web.thread = "listen"
        /\ request.client \in H!Client
    BY <1>0, <1>7 DEF H!listenerReturns, HttpResponses
  <2>1. web'.thread = "release"
    BY <1>t, <1>7 DEF H!listenerReturns, H!HTTPServerData
  <2>2. PICK keep \in BOOLEAN : response' = [response EXCEPT ![request.client].kept = keep]
    BY <1>7 DEF H!listenerReturns
  <2>3. /\ \A d \in H!Client : d # request.client => response'[d].kept = response[d].kept
        /\ \A d \in H!Client : response'[d].fd = response[d].fd
    BY <1>t, <2>0, <2>2 DEF H!HTTPResponseData
  <2>4. ~response[request.client].kept
    BY <1>0, <2>0 DEF HttpResponses
  <2>5. NoneKept' => NoneKept
    <3> SUFFICES ASSUME NoneKept', NEW d \in H!Client
                 PROVE  ~response[d].kept
      BY DEF NoneKept
    <3>1. ~response'[d].kept
      BY DEF NoneKept, H!Client
    <3> QED  BY <2>3, <2>4, <3>1
  <2>6. \A d \in H!Client : d > request'.client => ~response'[d].kept
    <3> SUFFICES ASSUME NEW d \in H!Client, d > request.client
                 PROVE  ~response'[d].kept
      BY <2>0
    <3>1. d # request.client
      BY <1>t
    <3> QED  BY <1>0, <2>3, <3>1 DEF HttpResponses
  <2> QED
    BY <1>0, <2>0, <2>1, <2>3, <2>5, <2>6 DEF HttpResponses, H!Client
<1>8. ASSUME UNCHANGED <<request, stray>>,
             \A d \in H!Client : response'[d].kept = response[d].kept,
             web'.thread \in {"read", "listen", "release"} =>
                 /\ web'.thread = web.thread
                 /\ NoneKept =>
                        /\ files'[request.fd] = files[request.fd]
                        /\ \A d \in H!Client : response'[d].fd = response[d].fd
      PROVE  HttpResponses'
  <2>1. NoneKept' = NoneKept
    BY <1>8 DEF NoneKept, H!Client
  <2>2. \A d \in H!Client : d > request'.client => ~response'[d].kept
    BY <1>0, <1>8 DEF HttpResponses
  <2> QED
    BY <1>0, <1>8, <2>1, <2>2 DEF HttpResponses, H!Client
<1>9. CASE H!releaseResponse
  <2>1. web'.thread = "close" /\ UNCHANGED <<request, stray>> /\ request.client \in H!Client
    BY <1>0, <1>t, <1>9 DEF H!releaseResponse, H!HTTPServerData, HttpResponses
  <2>2. \A d \in H!Client : response'[d].kept = response[d].kept
    BY <1>t, <1>9, <2>1 DEF H!releaseResponse, H!Finalize, H!HTTPResponseData
  <2> QED  BY <1>8, <2>1, <2>2
<1>10. CASE H!closeClient
  <2>1. web'.thread = "test" /\ UNCHANGED <<request, stray, response>>
    BY <1>t, <1>10 DEF H!closeClient, H!HTTPServerData
  <2> QED  BY <1>8, <2>1
<1>11. CASE \E c \in H!Client : H!responseEnd(c)
  <2>1. PICK c \in H!Client : H!responseEnd(c)
    BY <1>11
  <2>2. /\ UNCHANGED <<web, request, response, files>>
        /\ stray' = (stray \/ files[response[c].fd] \notin {c, H!Nobody})
        /\ (web.thread = "listen" /\ request.client = c) \/ response[c].kept
    BY <2>1 DEF H!responseEnd, H!Reachable
  <2>3. NoneKept' = NoneKept
    BY <2>2 DEF NoneKept, H!Client
  <2>4. ASSUME NoneKept PROVE ~stray'
    <3>1. web.thread = "listen" /\ request.client = c
      BY <2>2, <2>4 DEF NoneKept
    <3>2. files[response[c].fd] = c /\ ~stray
      BY <1>0, <2>4, <3>1 DEF HttpResponses
    <3> QED  BY <2>2, <3>2
  <2> QED
    BY <1>0, <2>2, <2>3, <2>4 DEF HttpResponses, H!Client
<1>12. CASE \E c \in H!Client : H!DropResponse(c)
  <2>1. PICK c \in H!Client : H!DropResponse(c)
    BY <1>12
  <2>2. UNCHANGED <<web, request, stray>> /\ ~NoneKept
    BY <2>1 DEF H!DropResponse, NoneKept
  <2>3. \A d \in H!Client : response'[d].kept = response[d].kept
    BY <1>t, <2>1 DEF H!DropResponse, H!Finalize, H!HTTPResponseData
  <2> QED  BY <1>8, <2>2, <2>3
<1>13. CASE H!OtherOpens
  <2>1. /\ UNCHANGED <<web, request, stray, response>>
        /\ files' = [files EXCEPT ![H!Min(H!FreeFd)] = H!Other]
        /\ files[H!Min(H!FreeFd)] = 0
    BY <1>13, FirstFree DEF H!OtherOpens
  <2>2. ASSUME web.thread \in {"read", "listen", "release"}, NoneKept
        PROVE  files'[request.fd] = files[request.fd]
    <3>1. files[request.fd] = request.client /\ request.client \in H!Client
      BY <1>0, <2>2 DEF HttpResponses
    <3>2. request.client # 0
      BY <3>1 DEF H!Client
    <3>3. request.fd # H!Min(H!FreeFd)
      BY <2>1, <3>1, <3>2
    <3> QED  BY <1>t, <2>1, <3>3
  <2> QED  BY <1>8, <2>1, <2>2
<1> QED
  BY <1>1, <1>2, <1>3, <1>4, <1>5, <1>6, <1>7, <1>9, <1>10, <1>11, <1>12, <1>13
     DEF H!Next, H!ServerStep

LEMMA HttpInvariant == Spec => []HttpInv
<1>1. Init => HttpInv
  BY HttpStart DEF Init, In
<1>2. HttpInv /\ [Next]_vars => HttpInv'
  <2> SUFFICES ASSUME HttpInv, [Next]_vars
               PROVE  HttpInv'
    OBVIOUS
  <2>1. CASE H!Next
    BY <2>1, HttpTypes, HttpThreadsKept, HttpResponsesKept DEF HttpInv
  <2>2. CASE UNCHANGED webVars
    BY <2>2, HttpStutter
  <2> QED
    BY <2>1, <2>2 DEF Next, vars
<1> QED
  BY <1>1, <1>2, PTL DEF Spec

\* http: for any number of clients and descriptors, and however other parts of
\* the process open files, a response is written to the descriptor of another
\* only if the script kept a response after its listener returned, and only a
\* listen() on a server that listens terminates the process (serverThread,
\* HTTPResponseData::~HTTPResponseData, serverListen).
THEOREM ResponsesReachClients == Spec => []HttpSafety
<1>1. HttpInv => HttpSafety
  BY DEF HttpInv, HttpThreads, HttpResponses, NoneKept, HttpSafety, H!Safety
<1> QED
  BY <1>1, HttpInvariant, PTL
=============================================================================
