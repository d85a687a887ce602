------------------------- MODULE BridgeSocketProofs -------------------------
(***************************************************************************)
(* Proofs about BridgeSocket, for any number of bridges and callers and    *)
(* runs of any length: a waiting caller is in exactly one place, and with  *)
(* a careful user one bridge serves, at a path that is its own.            *)
(***************************************************************************)
EXTENDS BridgeSocket, SequenceTheorems, FiniteSetTheorems, TLAPS

\* Every value stays in its set.
SocketTyped ==
  /\ path \in Bridges \cup {"none"}
  /\ listening \in [Bridges -> BOOLEAN]
  /\ backlog \in [Bridges -> Seq(Callers)]
  /\ pc \in [Bridges -> {"off", "probe", "remove", "bind", "listen", "chmod", "open",
                         "accept", "run", "close", "exited", "killed"}]
  /\ signal \in [Bridges -> {"waiting", "asked", "closed", "removed"}]
  /\ serving \in [Bridges -> Callers \cup {"none"}]
  /\ left \in [Bridges -> Nat]
  /\ caller \in [Callers -> {"idle", "waiting", "done", "lost", "refused"}]
  /\ careful \in BOOLEAN

\* Where a caller can be at a bridge.
At(c, b) == c \in ToSet(backlog[b]) \/ serving[b] = c

\* A bridge serves a connection exactly while it runs, and only a listener has a queue.
ServingInPlace ==
  \A b \in Bridges : /\ serving[b] # "none" <=> pc[b] = "run"
                     /\ backlog[b] # <<>> => listening[b]

\* Nobody is queued twice at one bridge, nor queued there and served.
QueuesAreSets ==
  \A b \in Bridges : /\ IsInjective(backlog[b])
                     /\ serving[b] \notin ToSet(backlog[b])

\* Callers wait where they are, and at one bridge.
WaitersInPlace ==
  \A c \in Callers :
    /\ caller[c] = "waiting" <=> \E b \in Bridges : At(c, b)
    /\ \A b, d \in Bridges : At(c, b) /\ At(c, d) => b = d

QueueInv == SocketTyped /\ ServingInPlace /\ QueuesAreSets /\ WaitersInPlace

\* No other bridge is up.
Alone(b) == \A d \in Bridges \ {b} : ~Running(d)

\* A bridge that has neither come up nor gone.
Unsettled(b) == Starting(b) \/ pc[b] = "close" \/ (Serving(b) /\ signal[b] # "waiting")

\* With a careful user a bridge that is past its probe, or on its way out, is alone.
AloneWhenUnsettled ==
  \A b \in Bridges :
    /\ Unsettled(b) /\ pc[b] # "probe" => Alone(b)
    /\ pc[b] = "probe" => \A d \in Bridges \ {b} : ~Unsettled(d)
    /\ Serving(b) => \A d \in Bridges \ {b} : ~Serving(d)
    /\ signal[b] # "waiting" => pc[b] \in {"accept", "run", "close", "exited", "killed"}

\* What it then knows of the path.
PathInPlace ==
  \A b \in Bridges :
    /\ pc[b] = "bind" => path = "none"
    /\ pc[b] = "listen" => path = b
    /\ pc[b] \in {"chmod", "open"} => path = b /\ listening[b]
    /\ Serving(b) /\ signal[b] = "waiting" => path = b /\ listening[b]

PathInv == SocketTyped /\ (careful => AloneWhenUnsettled /\ PathInPlace)
-----------------------------------------------------------------------------
(* Queues.                                                                 *)

\* A caller that is queued last is one more in the queue.
LEMMA QueuedLast ==
  ASSUME NEW s \in Seq(Callers), NEW c \in Callers
  PROVE  /\ Append(s, c) \in Seq(Callers) /\ Append(s, c) # <<>>
         /\ ToSet(Append(s, c)) = ToSet(s) \cup {c}
         /\ IsInjective(s) /\ c \notin ToSet(s) => IsInjective(Append(s, c))
<1>1. /\ Append(s, c) \in Seq(Callers) /\ Len(s) \in Nat
      /\ Len(Append(s, c)) = Len(s) + 1 /\ Append(s, c)[Len(s) + 1] = c
      /\ \A i \in 1..Len(s) : Append(s, c)[i] = s[i]
  BY AppendProperties, LenProperties
<1>2. DOMAIN s = 1..Len(s) /\ DOMAIN Append(s, c) = 1..Len(s) + 1
  BY <1>1, LenProperties
<1>3. ToSet(Append(s, c)) = ToSet(s) \cup {c}
  BY <1>1, <1>2 DEF ToSet
<1>4. ASSUME IsInjective(s), c \notin ToSet(s) PROVE IsInjective(Append(s, c))
  <2>. SUFFICES ASSUME NEW i \in 1..Len(s) + 1, NEW j \in 1..Len(s) + 1,
                       Append(s, c)[i] = Append(s, c)[j]
                PROVE  i = j
    BY <1>2 DEF IsInjective
  <2>1. \A k \in 1..Len(s) : s[k] # c
    BY <1>2, <1>4 DEF ToSet
  <2>2. CASE i \in 1..Len(s) /\ j \in 1..Len(s)
    BY <1>1, <1>2, <1>4, <2>2 DEF IsInjective
  <2>3. CASE i = Len(s) + 1 \/ j = Len(s) + 1
    BY <1>1, <2>1, <2>3
  <2>. QED
    BY <1>1, <2>2, <2>3
<1>. QED
  BY <1>1, <1>3, <1>4

\* The caller that is served leaves the others queued.
LEMMA ServedFirst ==
  ASSUME NEW s \in Seq(Callers), s # <<>>
  PROVE  /\ Tail(s) \in Seq(Callers) /\ Head(s) \in Callers
         /\ ToSet(s) = ToSet(Tail(s)) \cup {Head(s)}
         /\ IsInjective(s) => IsInjective(Tail(s)) /\ Head(s) \notin ToSet(Tail(s))
<1>1. /\ Tail(s) \in Seq(Callers) /\ Head(s) \in Callers /\ Head(s) = s[1]
      /\ Len(s) \in Nat \ {0} /\ Len(Tail(s)) = Len(s) - 1
      /\ \A i \in 1..Len(s) - 1 : Tail(s)[i] = s[i + 1]
  BY HeadTailProperties, EmptySeq, LenProperties
<1>2. DOMAIN s = 1..Len(s) /\ DOMAIN Tail(s) = 1..Len(s) - 1
  BY <1>1, LenProperties
<1>3. ToSet(s) = ToSet(Tail(s)) \cup {Head(s)}
  <2>1. ASSUME NEW i \in 1..Len(s) PROVE s[i] \in ToSet(Tail(s)) \cup {Head(s)}
    <3>1. CASE i = 1
      BY <1>1, <3>1
    <3>2. CASE i # 1
      <4>1. i - 1 \in 1..Len(s) - 1 /\ Tail(s)[i - 1] = s[i]
        BY <1>1, <3>2
      <4>. QED
        BY <1>2, <4>1 DEF ToSet
    <3>. QED
      BY <3>1, <3>2
  <2>2. ASSUME NEW i \in 1..Len(s) - 1 PROVE Tail(s)[i] \in ToSet(s)
    <3>1. i + 1 \in 1..Len(s) /\ Tail(s)[i] = s[i + 1]
      BY <1>1
    <3>. QED
      BY <1>2, <3>1 DEF ToSet
  <2>3. 1 \in DOMAIN s
    BY <1>1, <1>2
  <2>4. \A x \in ToSet(s) : x \in ToSet(Tail(s)) \cup {Head(s)}
    BY <1>2, <2>1 DEF ToSet
  <2>5. \A x \in ToSet(Tail(s)) : x \in ToSet(s)
    BY <1>2, <2>2 DEF ToSet
  <2>6. Head(s) \in ToSet(s)
    BY <1>1, <2>3 DEF ToSet
  <2>. QED
    BY <2>4, <2>5, <2>6
<1>4. ASSUME IsInjective(s) PROVE IsInjective(Tail(s)) /\ Head(s) \notin ToSet(Tail(s))
  <2>1. \A i, j \in 1..Len(s) : s[i] = s[j] => i = j
    BY <1>2, <1>4 DEF IsInjective
  <2>2. \A i, j \in 1..Len(s) - 1 : Tail(s)[i] = Tail(s)[j] => i = j
    BY <1>1, <2>1
  <2>3. \A i \in 1..Len(s) - 1 : Tail(s)[i] # Head(s)
    BY <1>1, <2>1
  <2>. QED
    BY <1>2, <2>2, <2>3 DEF IsInjective, ToSet
<1>. QED
  BY <1>1, <1>3, <1>4

\* Nobody is in an empty queue.
LEMMA EmptyQueue == ToSet(<<>>) = {} /\ IsInjective(<<>>) /\ <<>> \in Seq(Callers)
BY EmptySeq DEF ToSet, IsInjective

-----------------------------------------------------------------------------
(* Types.                                                                  *)

LEMMA TypedStep ==
  ASSUME SocketTyped, [Next]_vars
  PROVE  SocketTyped'
<1>. USE BridgeAssumption DEF SocketTyped
<1>1. ASSUME NEW b \in Bridges, UNCHANGED careful,
             BridgeStep(b) \/ SignalStep(b) \/ Start(b) \/ CtrlC(b) \/ Kill(b)
      PROVE  SocketTyped'
  <2>1. CASE Start(b)
    BY <1>1, <2>1 DEF Start, Moves
  <2>2. CASE Probe(b)
    BY <1>1, <2>2 DEF Probe, Moves
  <2>3. CASE RemoveStale(b)
    BY <1>1, <2>3 DEF RemoveStale, Moves
  <2>4. CASE Bind(b)
    BY <1>1, <2>4 DEF Bind, Moves
  <2>5. CASE Listen(b)
    BY <1>1, <2>5 DEF Listen, Moves
  <2>6. CASE Chmod(b)
    <3>1. CASE path = "none"
      <4>1. Moves(b, "chmod", "exited") /\ Closes(b) /\ UNCHANGED <<signal, serving, left>>
        BY <2>6, <3>1 DEF Chmod
      <4>. QED
        BY <1>1, <4>1, EmptyQueue DEF Moves, Closes
    <3>2. CASE path # "none"
      BY <1>1, <2>6, <3>2 DEF Chmod, Moves
    <3>. QED
      BY <3>1, <3>2
  <2>7. CASE OpenBackend(b)
    BY <1>1, <2>7 DEF OpenBackend, Moves
  <2>8. CASE Accept(b)
    BY <1>1, <2>8, ServedFirst DEF Accept, Moves
  <2>9. CASE RunLine(b)
    BY <1>1, <2>9 DEF RunLine
  <2>10. CASE EndRun(b)
    BY <1>1, <2>10 DEF EndRun, Moves
  <2>11. CASE ListenerClosed(b)
    BY <1>1, <2>11 DEF ListenerClosed, Moves
  <2>12. CASE DeferredClose(b)
    BY <1>1, <2>12, EmptyQueue DEF DeferredClose, Moves, Closes
  <2>13. CASE SignalCloses(b)
    BY <1>1, <2>13, EmptyQueue DEF SignalCloses, Closes
  <2>14. CASE SignalRemoves(b)
    BY <1>1, <2>14 DEF SignalRemoves
  <2>15. CASE CtrlC(b)
    BY <1>1, <2>15 DEF CtrlC
  <2>16. CASE Kill(b)
    BY <1>1, <2>16, EmptyQueue DEF Kill, CutOff
  <2>. QED
    BY <1>1, <2>1, <2>2, <2>3, <2>4, <2>5, <2>6, <2>7, <2>8, <2>9,
       <2>10, <2>11, <2>12, <2>13, <2>14, <2>15, <2>16
    DEF BridgeStep, SignalStep
<1>2. ASSUME NEW c \in Callers, Dial(c), UNCHANGED careful PROVE SocketTyped'
  <2>1. CASE Connects
    <3>1. PICK b \in Bridges : b = path
      BY <2>1 DEF Connects
    <3>2. Append(backlog[b], c) \in Seq(Callers)
      BY QueuedLast
    <3>3. /\ caller' = [caller EXCEPT ![c] = "waiting"]
          /\ backlog' = [backlog EXCEPT ![b] = Append(backlog[b], c)]
          /\ UNCHANGED <<path, listening, pc, signal, serving, left>>
      BY <1>2, <2>1, <3>1 DEF Dial
    <3>4. /\ backlog' \in [Bridges -> Seq(Callers)]
          /\ caller' \in [Callers -> {"idle", "waiting", "done", "lost", "refused"}]
      BY <3>2, <3>3
    <3>. QED
      BY <1>2, <3>3, <3>4
  <2>2. CASE ~Connects
    BY <1>2, <2>2 DEF Dial
  <2>. QED
    BY <2>1, <2>2
<1>3. CASE UNCHANGED vars
  BY <1>3 DEF vars
<1>. QED
  BY <1>1, <1>2, <1>3 DEF Next, UserStep
-----------------------------------------------------------------------------
(* Queues, step by step.                                                   *)

QueueParts == ServingInPlace /\ QueuesAreSets /\ WaitersInPlace

\* A step that moves no caller.
LEMMA QueueRests ==
  ASSUME QueueInv, UNCHANGED <<backlog, serving, caller>>,
         \A b \in Bridges : pc'[b] = "run" <=> pc[b] = "run",
         \A b \in Bridges : listening[b] => listening'[b]
  PROVE  QueueParts'
BY DEF QueueInv, QueueParts, ServingInPlace, QueuesAreSets, WaitersInPlace, At

\* A listener that closes cuts its queue off, and nobody else.
LEMMA QueueClosed ==
  ASSUME QueueInv, NEW b \in Bridges, Closes(b), serving' = serving,
         \A d \in Bridges : pc'[d] = "run" <=> pc[d] = "run"
  PROVE  QueueParts'
<1>. USE DEF QueueInv, SocketTyped
<1>1. /\ backlog'[b] = <<>>
      /\ \A d \in Bridges \ {b} : backlog'[d] = backlog[d] /\ listening'[d] = listening[d]
  BY DEF Closes
<1>2. \A c \in Callers : caller'[c] = IF c \in ToSet(backlog[b]) THEN "lost" ELSE caller[c]
  BY DEF Closes
<1>3. ServingInPlace'
  BY <1>1 DEF ServingInPlace
<1>4. QueuesAreSets'
  BY <1>1, EmptyQueue DEF QueuesAreSets
<1>5. ASSUME NEW c \in Callers
      PROVE  /\ caller'[c] = "waiting" <=> \E d \in Bridges : At(c, d)'
             /\ \A d, e \in Bridges : At(c, d)' /\ At(c, e)' => d = e
  <2>1. CASE c \in ToSet(backlog[b])
    <3>1. \A d \in Bridges : At(c, d) => d = b
      BY <2>1 DEF WaitersInPlace, At
    <3>2. serving[b] # c
      BY <2>1 DEF QueuesAreSets
    <3>3. \A d \in Bridges : ~At(c, d)'
      BY <1>1, <3>1, <3>2, EmptyQueue DEF At
    <3>. QED
      BY <1>2, <2>1, <3>3
  <2>2. CASE c \notin ToSet(backlog[b])
    <3>1. \A d \in Bridges : At(c, d)' <=> At(c, d)
      BY <1>1, <2>2, EmptyQueue DEF At
    <3>. QED
      BY <1>2, <2>2, <3>1 DEF WaitersInPlace
  <2>. QED
    BY <2>1, <2>2
<1>6. WaitersInPlace'
  BY <1>5 DEF WaitersInPlace
<1>. QED
  BY <1>3, <1>4, <1>6 DEF QueueParts

\* The first in the queue is served from there on.
LEMMA QueueAccept ==
  ASSUME QueueInv, NEW b \in Bridges, Accept(b)
  PROVE  QueueParts'
<1>. USE DEF QueueInv, SocketTyped
<1>. DEFINE first == Head(backlog[b])
<1>1. /\ backlog[b] # <<>> /\ pc[b] = "accept" /\ listening[b]
      /\ pc' = [pc EXCEPT ![b] = "run"]
      /\ backlog' = [backlog EXCEPT ![b] = Tail(backlog[b])]
      /\ serving' = [serving EXCEPT ![b] = first]
      /\ UNCHANGED <<listening, caller>>
  BY DEF Accept, Moves
<1>2. /\ first \in Callers /\ Tail(backlog[b]) \in Seq(Callers)
      /\ ToSet(backlog[b]) = ToSet(Tail(backlog[b])) \cup {first}
      /\ IsInjective(Tail(backlog[b])) /\ first \notin ToSet(Tail(backlog[b]))
  BY <1>1, ServedFirst DEF QueuesAreSets
<1>3. /\ backlog'[b] = Tail(backlog[b]) /\ serving'[b] = first /\ serving[b] = "none"
      /\ \A d \in Bridges \ {b} : backlog'[d] = backlog[d] /\ serving'[d] = serving[d]
  BY <1>1 DEF ServingInPlace
<1>4. ServingInPlace'
  BY <1>1, <1>2, <1>3, BridgeAssumption DEF ServingInPlace
<1>5. QueuesAreSets'
  BY <1>2, <1>3 DEF QueuesAreSets
<1>6. \A c \in Callers, d \in Bridges : At(c, d)' <=> At(c, d)
  <2>1. \A c \in Callers : At(c, b)' <=> At(c, b)
    BY <1>2, <1>3, BridgeAssumption DEF At
  <2>2. \A c \in Callers, d \in Bridges \ {b} : At(c, d)' <=> At(c, d)
    BY <1>3 DEF At
  <2>. QED
    BY <2>1, <2>2
<1>7. WaitersInPlace'
  BY <1>1, <1>6 DEF WaitersInPlace
<1>. QED
  BY <1>4, <1>5, <1>7 DEF QueueParts

\* The caller whose run has ended is nowhere any more.
LEMMA QueueEndRun ==
  ASSUME QueueInv, NEW b \in Bridges, EndRun(b)
  PROVE  QueueParts'
<1>. USE DEF QueueInv, SocketTyped
<1>0. PICK served \in Callers : served = serving[b]
  BY DEF EndRun, Moves, ServingInPlace
<1>1. /\ pc[b] = "run" /\ pc' = [pc EXCEPT ![b] = "accept"]
      /\ caller' = [caller EXCEPT ![served] = "done"]
      /\ serving' = [serving EXCEPT ![b] = "none"]
      /\ UNCHANGED <<listening, backlog>>
  BY <1>0 DEF EndRun, Moves
<1>2. served = serving[b] /\ served \notin ToSet(backlog[b])
  BY <1>0 DEF QueuesAreSets
<1>3. /\ serving'[b] = "none"
      /\ \A d \in Bridges \ {b} : serving'[d] = serving[d]
  BY <1>1
<1>4. ServingInPlace'
  BY <1>1, <1>3 DEF ServingInPlace
<1>5. QueuesAreSets'
  <2>1. \A d \in Bridges : "none" \notin ToSet(backlog[d])
    <3>1. ASSUME NEW d \in Bridges, "none" \in ToSet(backlog[d]) PROVE FALSE
      <4>1. backlog[d] \in Seq(Callers)
        OBVIOUS
      <4>2. \A i \in DOMAIN backlog[d] : backlog[d][i] \in Callers
        BY <4>1
      <4>. QED
        BY <3>1, <4>2, BridgeAssumption DEF ToSet
    <3>. QED
      BY <3>1
  <2>. QED
    BY <1>1, <1>3, <2>1 DEF QueuesAreSets
<1>6. \A d \in Bridges : ~At(served, d)'
  <2>1. \A d \in Bridges : At(served, d) => d = b
    BY <1>2 DEF WaitersInPlace, At
  <2>2. ASSUME NEW d \in Bridges \ {b} PROVE ~At(served, d)'
    BY <1>1, <1>3, <2>1, <2>2 DEF At
  <2>3. ~At(served, b)'
    BY <1>1, <1>2, <1>3, BridgeAssumption DEF At
  <2>. QED
    BY <2>2, <2>3
<1>7. \A c \in Callers \ {served}, d \in Bridges : At(c, d)' <=> At(c, d)
  BY <1>1, <1>2, <1>3, BridgeAssumption DEF At
<1>8. ASSUME NEW c \in Callers
      PROVE  /\ caller'[c] = "waiting" <=> \E d \in Bridges : At(c, d)'
             /\ \A d, e \in Bridges : At(c, d)' /\ At(c, e)' => d = e
  <2>1. CASE c = served
    BY <1>1, <1>2, <1>6, <2>1
  <2>2. CASE c # served
    BY <1>1, <1>7, <2>2 DEF WaitersInPlace
  <2>. QED
    BY <2>1, <2>2
<1>9. WaitersInPlace'
  BY <1>8 DEF WaitersInPlace
<1>. QED
  BY <1>4, <1>5, <1>9 DEF QueueParts
\* A bridge that is killed cuts off whom it serves and its queue.
LEMMA QueueKill ==
  ASSUME QueueInv, NEW b \in Bridges, Kill(b)
  PROVE  QueueParts'
<1>. USE DEF QueueInv, SocketTyped
<1>1. /\ pc' = [pc EXCEPT ![b] = "killed"]
      /\ listening' = [listening EXCEPT ![b] = FALSE]
      /\ backlog' = [backlog EXCEPT ![b] = <<>>]
      /\ serving' = [serving EXCEPT ![b] = "none"]
      /\ caller' = CutOff(b)
  BY DEF Kill
<1>2. /\ backlog'[b] = <<>> /\ serving'[b] = "none"
      /\ \A d \in Bridges \ {b} : /\ backlog'[d] = backlog[d] /\ serving'[d] = serving[d]
                                  /\ listening'[d] = listening[d] /\ pc'[d] = pc[d]
  BY <1>1
<1>3. \A c \in Callers : caller'[c] = IF At(c, b) THEN "lost" ELSE caller[c]
  BY <1>1 DEF CutOff, At
<1>4. ServingInPlace'
  BY <1>1, <1>2 DEF ServingInPlace
<1>5. QueuesAreSets'
  BY <1>2, EmptyQueue DEF QueuesAreSets
<1>6. \A c \in Callers : ~At(c, b)'
  BY <1>2, EmptyQueue, BridgeAssumption DEF At
<1>7. \A c \in Callers, d \in Bridges \ {b} : At(c, d)' <=> At(c, d)
  BY <1>2 DEF At
<1>8. ASSUME NEW c \in Callers
      PROVE  /\ caller'[c] = "waiting" <=> \E d \in Bridges : At(c, d)'
             /\ \A d, e \in Bridges : At(c, d)' /\ At(c, e)' => d = e
  <2>1. CASE At(c, b)
    <3>1. \A d \in Bridges : ~At(c, d)'
      BY <1>6, <1>7, <2>1 DEF WaitersInPlace
    <3>. QED
      BY <1>3, <2>1, <3>1
  <2>2. CASE ~At(c, b)
    <3>1. \A d \in Bridges : At(c, d)' <=> At(c, d)
      BY <1>6, <1>7, <2>2
    <3>2. caller'[c] = caller[c]
      BY <1>3, <2>2
    <3>. QED
      BY <3>1, <3>2 DEF WaitersInPlace
  <2>. QED
    BY <2>1, <2>2
<1>9. WaitersInPlace'
  BY <1>8 DEF WaitersInPlace
<1>. QED
  BY <1>4, <1>5, <1>9 DEF QueueParts

\* A caller that gets through is last in one queue.
LEMMA QueueDial ==
  ASSUME QueueInv, NEW c \in Callers, Dial(c)
  PROVE  QueueParts'
<1>. USE DEF QueueInv, SocketTyped
<1>1. CASE Connects
  <2>1. PICK b \in Bridges : b = path /\ listening[b]
    BY <1>1 DEF Connects
  <2>2. /\ caller[c] = "idle" /\ caller' = [caller EXCEPT ![c] = "waiting"]
        /\ backlog' = [backlog EXCEPT ![b] = Append(backlog[b], c)]
        /\ UNCHANGED <<listening, pc, serving>>
    BY <1>1, <2>1 DEF Dial
  <2>3. \A d \in Bridges : ~At(c, d)
    BY <2>2 DEF WaitersInPlace
  <2>4. /\ backlog'[b] # <<>> /\ IsInjective(backlog'[b])
        /\ ToSet(backlog'[b]) = ToSet(backlog[b]) \cup {c}
    <3>1. backlog'[b] = Append(backlog[b], c)
      BY <2>2
    <3>. QED
      BY <2>3, <3>1, QueuedLast DEF QueuesAreSets, At
  <2>5. \A d \in Bridges \ {b} : backlog'[d] = backlog[d]
    BY <2>2
  <2>6. ServingInPlace'
    BY <2>1, <2>2, <2>5 DEF ServingInPlace
  <2>7. QueuesAreSets'
    BY <2>2, <2>3, <2>4, <2>5 DEF QueuesAreSets, At
  <2>8. At(c, b)' /\ \A d \in Bridges \ {b} : ~At(c, d)'
    BY <2>2, <2>3, <2>4, <2>5 DEF At
  <2>9. \A x \in Callers \ {c}, d \in Bridges : At(x, d)' <=> At(x, d)
    BY <2>2, <2>4, <2>5 DEF At
  <2>10. ASSUME NEW x \in Callers
         PROVE  /\ caller'[x] = "waiting" <=> \E d \in Bridges : At(x, d)'
                /\ \A d, e \in Bridges : At(x, d)' /\ At(x, e)' => d = e
    <3>1. CASE x = c
      BY <2>2, <2>8, <3>1
    <3>2. CASE x # c
      BY <2>2, <2>9, <3>2 DEF WaitersInPlace
    <3>. QED
      BY <3>1, <3>2
  <2>11. WaitersInPlace'
    BY <2>10 DEF WaitersInPlace
  <2>. QED
    BY <2>6, <2>7, <2>11 DEF QueueParts
<1>2. CASE ~Connects
  <2>1. /\ caller[c] = "idle" /\ caller' = [caller EXCEPT ![c] = "refused"]
        /\ UNCHANGED <<listening, pc, serving, backlog>>
    BY <1>2 DEF Dial
  <2>2. \A x \in Callers : caller'[x] = "waiting" <=> caller[x] = "waiting"
    BY <2>1
  <2>. QED
    BY <2>1, <2>2 DEF QueueParts, ServingInPlace, QueuesAreSets, WaitersInPlace, At
<1>. QED
  BY <1>1, <1>2

LEMMA QueueStep ==
  ASSUME QueueInv, [Next]_vars
  PROVE  QueueInv'
<1>1. SocketTyped'
  BY TypedStep DEF QueueInv
<1>. SUFFICES QueueParts'
  BY <1>1 DEF QueueInv, QueueParts
<1>3. ASSUME NEW b \in Bridges,
             BridgeStep(b) \/ SignalStep(b) \/ Start(b) \/ CtrlC(b) \/ Kill(b)
      PROVE  QueueParts'
  <2>1. CASE Start(b)
    BY <2>1, QueueRests DEF Start, Moves, QueueInv, SocketTyped
  <2>2. CASE Probe(b)
    BY <2>2, QueueRests DEF Probe, Moves, QueueInv, SocketTyped
  <2>3. CASE RemoveStale(b)
    BY <2>3, QueueRests DEF RemoveStale, Moves, QueueInv, SocketTyped
  <2>4. CASE Bind(b)
    BY <2>4, QueueRests DEF Bind, Moves, QueueInv, SocketTyped
  <2>5. CASE Listen(b)
    BY <2>5, QueueRests DEF Listen, Moves, QueueInv, SocketTyped
  <2>6. CASE Chmod(b)
    <3>1. \A d \in Bridges : pc'[d] = "run" <=> pc[d] = "run"
      BY <2>6 DEF Chmod, Moves, QueueInv, SocketTyped
    <3>2. CASE path = "none"
      BY <2>6, <3>1, <3>2, QueueClosed DEF Chmod
    <3>3. CASE path # "none"
      BY <2>6, <3>1, <3>3, QueueRests DEF Chmod
    <3>. QED
      BY <3>2, <3>3
  <2>7. CASE OpenBackend(b)
    BY <2>7, QueueRests DEF OpenBackend, Moves, QueueInv, SocketTyped
  <2>8. CASE Accept(b)
    BY <2>8, QueueAccept
  <2>9. CASE RunLine(b)
    BY <2>9, QueueRests DEF RunLine
  <2>10. CASE EndRun(b)
    BY <2>10, QueueEndRun
  <2>11. CASE ListenerClosed(b)
    BY <2>11, QueueRests DEF ListenerClosed, Moves, QueueInv, SocketTyped
  <2>12. CASE DeferredClose(b)
    <3>1. \A d \in Bridges : pc'[d] = "run" <=> pc[d] = "run"
      BY <2>12 DEF DeferredClose, Moves, QueueInv, SocketTyped
    <3>. QED
      BY <2>12, <3>1, QueueClosed DEF DeferredClose
  <2>13. CASE SignalCloses(b)
    BY <2>13, QueueClosed DEF SignalCloses
  <2>14. CASE SignalRemoves(b)
    BY <2>14, QueueRests DEF SignalRemoves
  <2>15. CASE CtrlC(b)
    BY <2>15, QueueRests DEF CtrlC
  <2>16. CASE Kill(b)
    BY <2>16, QueueKill
  <2>. QED
    BY <1>3, <2>1, <2>2, <2>3, <2>4, <2>5, <2>6, <2>7, <2>8, <2>9,
       <2>10, <2>11, <2>12, <2>13, <2>14, <2>15, <2>16
    DEF BridgeStep, SignalStep
<1>4. ASSUME NEW c \in Callers, Dial(c) PROVE QueueParts'
  BY <1>4, QueueDial
<1>5. CASE UNCHANGED vars
  BY <1>5, QueueRests DEF vars
<1>. QED
  BY <1>3, <1>4, <1>5 DEF Next, UserStep

LEMMA QueueInit == Init => QueueInv
<1>. SUFFICES ASSUME Init PROVE QueueInv
  OBVIOUS
<1>. USE BridgeAssumption DEF Init
<1>1. SocketTyped
  BY EmptyQueue DEF SocketTyped
<1>2. ServingInPlace
  BY DEF ServingInPlace
<1>3. QueuesAreSets
  BY EmptyQueue DEF QueuesAreSets
<1>4. \A c \in Callers, b \in Bridges : ~At(c, b)
  BY EmptyQueue DEF At
<1>5. WaitersInPlace
  BY <1>4 DEF WaitersInPlace
<1>. QED
  BY <1>1, <1>2, <1>3, <1>5 DEF QueueInv

\* The inductive invariant of the queues.
THEOREM QueueInvariant == Spec => []QueueInv
BY QueueInit, QueueStep, PTL DEF Spec

-----------------------------------------------------------------------------
(* The path, with a careful user.                                          *)

PathParts == AloneWhenUnsettled /\ PathInPlace

\* The user starts or interrupts a bridge when no other is unsettled.
LEMMA SettledMeans ==
  Settled <=> \A b \in Bridges : ~Unsettled(b)
BY DEF Settled, Unsettled

\* A bridge serves where it can be dialed, so the probe of another one finds it.
LEMMA ProbeFindsServer ==
  ASSUME SocketTyped, PathParts, NEW b \in Bridges, pc[b] = "probe", ~Connects
  PROVE  Alone(b)
<1>. SUFFICES ASSUME NEW d \in Bridges \ {b}, Running(d) PROVE FALSE
  BY DEF Alone
<1>1. ~Unsettled(d)
  BY DEF PathParts, AloneWhenUnsettled
<1>2. Serving(d) /\ signal[d] = "waiting"
  BY <1>1 DEF Unsettled, Running
<1>3. path = d /\ listening[d]
  BY <1>2 DEF PathParts, PathInPlace
<1>. QED
  BY <1>3, BridgeAssumption DEF Connects

\* A bridge that is alone answers for the path alone.
LEMMA LoneStep ==
  ASSUME SocketTyped, PathParts, NEW b \in Bridges, Alone(b),
         \A d \in Bridges \ {b} : pc'[d] = pc[d] /\ signal'[d] = signal[d],
         signal'[b] # "waiting" => pc'[b] \in {"accept", "run", "close", "exited", "killed"},
         pc'[b] = "bind" => path' = "none",
         pc'[b] = "listen" => path' = b,
         pc'[b] \in {"chmod", "open"} => path' = b /\ listening'[b],
         pc'[b] \in {"accept", "run"} /\ signal'[b] = "waiting" => path' = b /\ listening'[b]
  PROVE  PathParts'
<1>1. \A d \in Bridges \ {b} : ~Running(d)'
  BY DEF Alone, Running, Starting, Serving
<1>2. \A d \in Bridges \ {b} : ~Unsettled(d)'
  BY <1>1 DEF Unsettled, Running
<1>3. AloneWhenUnsettled'
  <2>. SUFFICES ASSUME NEW d \in Bridges
                PROVE  /\ Unsettled(d)' /\ pc'[d] # "probe" => Alone(d)'
                       /\ pc'[d] = "probe" => \A e \in Bridges \ {d} : ~Unsettled(e)'
                       /\ Serving(d)' => \A e \in Bridges \ {d} : ~Serving(e)'
                       /\ signal'[d] # "waiting"
                            => pc'[d] \in {"accept", "run", "close", "exited", "killed"}
    BY DEF AloneWhenUnsettled
  <2>1. CASE d = b
    BY <1>1, <1>2, <2>1 DEF Alone, Running
  <2>2. CASE d # b
    <3>1. ~Unsettled(d)' /\ ~Serving(d)' /\ pc'[d] # "probe"
      BY <1>1, <1>2, <2>2 DEF Running, Starting
    <3>2. signal'[d] # "waiting" => pc'[d] \in {"accept", "run", "close", "exited", "killed"}
      BY <2>2 DEF PathParts, AloneWhenUnsettled
    <3>. QED
      BY <3>1, <3>2
  <2>. QED
    BY <2>1, <2>2
<1>4. PathInPlace'
  BY <1>1 DEF PathInPlace, Running, Starting, Serving
<1>. QED
  BY <1>3, <1>4 DEF PathParts

\* No step of any bridge spoils what they know of the path.
LEMMA PathStep ==
  ASSUME SocketTyped, careful, PathParts, [Next]_vars
  PROVE  PathParts'
<1>1. ASSUME NEW b \in Bridges,
             BridgeStep(b) \/ SignalStep(b) \/ UserStep(b)
      PROVE  PathParts'
  <2>0. /\ pc[b] \in {"remove", "bind", "listen", "chmod", "open"}
             => Alone(b) /\ signal[b] = "waiting"
        /\ pc[b] = "bind" => path = "none"
        /\ pc[b] = "listen" => path = b
        /\ pc[b] \in {"chmod", "open"} => path = b /\ path # "none" /\ listening[b]
        /\ pc[b] \in {"accept", "run"} /\ signal[b] = "waiting" => path = b /\ listening[b]
        /\ pc[b] \in {"accept", "run"} /\ signal[b] # "waiting" => Alone(b)
        /\ pc[b] = "close" => Alone(b)
        /\ signal[b] # "waiting" => pc[b] \in {"accept", "run", "close", "exited", "killed"}
    BY BridgeAssumption
    DEF PathParts, AloneWhenUnsettled, PathInPlace, Unsettled, Starting, Serving
  <2>1. CASE Start(b) /\ Settled
    BY <2>1, SettledMeans
    DEF Start, Moves, SocketTyped, PathParts, AloneWhenUnsettled, PathInPlace, Unsettled,
        Starting, Serving
  <2>2. CASE Probe(b)
    <3>1. CASE Connects
      BY <2>2, <3>1
      DEF Probe, Moves, SocketTyped, PathParts, AloneWhenUnsettled, PathInPlace, Alone,
          Unsettled, Running, Starting, Serving
    <3>2. CASE ~Connects
      <4>1. Alone(b) /\ signal[b] = "waiting"
        BY <2>2, <3>2, <2>0, ProbeFindsServer DEF Probe, Moves
      <4>. QED
        BY <2>2, <3>2, <4>1, LoneStep DEF Probe, Moves, SocketTyped
    <3>. QED
      BY <3>1, <3>2
  <2>3. CASE RemoveStale(b)
    BY <2>0, <2>3, LoneStep DEF RemoveStale, Moves, SocketTyped
  <2>4. CASE Bind(b)
    BY <2>0, <2>4, LoneStep DEF Bind, Moves, SocketTyped
  <2>5. CASE Listen(b)
    BY <2>0, <2>5, LoneStep DEF Listen, Moves, SocketTyped
  <2>6. CASE Chmod(b)
    BY <2>0, <2>6, LoneStep DEF Chmod, Moves, SocketTyped
  <2>7. CASE OpenBackend(b)
    BY <2>0, <2>7, LoneStep DEF OpenBackend, Moves, SocketTyped
  <2>8. CASE Accept(b)
    BY <2>8
    DEF Accept, Moves, SocketTyped, PathParts, AloneWhenUnsettled, PathInPlace, Alone,
        Unsettled, Running, Starting, Serving
  <2>9. CASE RunLine(b)
    BY <2>9
    DEF RunLine, PathParts, AloneWhenUnsettled, PathInPlace, Alone, Unsettled, Running,
        Starting, Serving
  <2>10. CASE EndRun(b)
    BY <2>10
    DEF EndRun, Moves, SocketTyped, PathParts, AloneWhenUnsettled, PathInPlace, Alone,
        Unsettled, Running, Starting, Serving
  <2>11. CASE ListenerClosed(b)
    BY <2>0, <2>11, LoneStep DEF ListenerClosed, Moves, SocketTyped
  <2>12. CASE DeferredClose(b)
    BY <2>0, <2>12, LoneStep DEF DeferredClose, Moves, Closes, SocketTyped
  <2>13. CASE SignalCloses(b)
    <3>1. signal[b] = "asked" /\ signal' = [signal EXCEPT ![b] = "closed"] /\ pc' = pc
      BY <2>13 DEF SignalCloses
    <3>2. CASE pc[b] \in {"accept", "run", "close"}
      BY <2>0, <3>1, <3>2, LoneStep DEF SocketTyped
    <3>. QED
      BY <2>0, <2>13, <3>2 DEF SignalCloses, Running, Starting, Serving
  <2>14. CASE SignalRemoves(b)
    <3>1. signal[b] = "closed" /\ signal' = [signal EXCEPT ![b] = "removed"] /\ pc' = pc
      BY <2>14 DEF SignalRemoves
    <3>2. CASE pc[b] \in {"accept", "run", "close"}
      BY <2>0, <3>1, <3>2, LoneStep DEF SocketTyped
    <3>. QED
      BY <2>0, <2>14, <3>2 DEF SignalRemoves, Running, Starting, Serving
  <2>15. CASE CtrlC(b) /\ Settled
    <3>1. Alone(b) /\ pc[b] \in {"accept", "run"}
      BY <2>15, SettledMeans
      DEF CtrlC, PathParts, AloneWhenUnsettled, Alone, Unsettled, Running, Starting, Serving
    <3>. QED
      BY <2>15, <3>1, LoneStep DEF CtrlC, SocketTyped
  <2>16. CASE Kill(b)
    BY <2>16
    DEF Kill, SocketTyped, PathParts, AloneWhenUnsettled, PathInPlace, Alone, Unsettled,
        Running, Starting, Serving
  <2>. QED
    BY <1>1, <2>1, <2>2, <2>3, <2>4, <2>5, <2>6, <2>7, <2>8, <2>9,
       <2>10, <2>11, <2>12, <2>13, <2>14, <2>15, <2>16
    DEF BridgeStep, SignalStep, UserStep
<1>2. ASSUME NEW c \in Callers, Dial(c) PROVE PathParts'
  BY <1>2
  DEF Dial, PathParts, AloneWhenUnsettled, PathInPlace, Alone, Unsettled, Running, Starting,
      Serving
<1>3. CASE UNCHANGED vars
  BY <1>3
  DEF vars, PathParts, AloneWhenUnsettled, PathInPlace, Alone, Unsettled, Running, Starting,
      Serving
<1>. QED
  BY <1>1, <1>2, <1>3 DEF Next

\* The inductive invariant of the path.
THEOREM PathInvariant == Spec => []PathInv
<1>1. Init => PathInv
  <2>1. Init => SocketTyped
    BY QueueInit DEF QueueInv
  <2>2. Init => PathParts
    BY DEF Init, PathParts, AloneWhenUnsettled, PathInPlace, Unsettled, Starting, Serving
  <2>. QED
    BY <2>1, <2>2 DEF PathInv, PathParts
<1>2. PathInv /\ [Next]_vars => PathInv'
  <2>1. [Next]_vars => careful' = careful
    BY DEF Next, vars
  <2>. QED
    BY <2>1, TypedStep, PathStep DEF PathInv, PathParts
<1>. QED
  BY <1>1, <1>2, PTL DEF Spec

\* With a careful user at most one bridge serves, and the file at the path is its own until
\* it is interrupted: what somebody removes by name is never another's (ListenBridge, Close).
THEOREM ServingIsAlwaysReachable == Spec => []ServingIsReachable
<1>1. ASSUME PathInv PROVE ServingIsReachable
  <2>. SUFFICES ASSUME careful PROVE
         /\ Cardinality({b \in Bridges : Serving(b)}) <= 1
         /\ \A b \in Bridges : Serving(b) /\ signal[b] = "waiting" => path = b /\ listening[b]
    BY DEF ServingIsReachable
  <2>1. \A b \in Bridges : Serving(b) /\ signal[b] = "waiting" => path = b /\ listening[b]
    BY <1>1 DEF PathInv, PathInPlace
  <2>2. Cardinality({b \in Bridges : Serving(b)}) <= 1
    <3>1. CASE {b \in Bridges : Serving(b)} = {}
      BY <3>1, FS_EmptySet
    <3>2. ASSUME NEW b \in Bridges, Serving(b)
          PROVE  Cardinality({d \in Bridges : Serving(d)}) <= 1
      <4>1. {d \in Bridges : Serving(d)} = {b}
        BY <1>1, <3>2 DEF PathInv, AloneWhenUnsettled
      <4>. QED
        BY <4>1, FS_Singleton
    <3>. QED
      BY <3>1, <3>2
  <2>. QED
    BY <2>1, <2>2
<1>. QED
  BY <1>1, PathInvariant, PTL

\* With a careful user a file that a killed bridge left behind keeps nobody from starting:
\* after its probe and its removal the path is free (ListenBridge).
THEOREM StaleFileNeverStopsAnybody == Spec => StaleFileStopsNobody
<1>1. ASSUME PathInv, [Next]_vars, careful, NEW b \in Bridges, pc[b] = "bind"
      PROVE  pc'[b] # "exited"
  <2>1. path = "none"
    BY <1>1 DEF PathInv, PathInPlace
  <2>2. pc'[b] \in {"bind", "listen", "killed"}
    <3>1. ASSUME NEW d \in Bridges, BridgeStep(d) \/ SignalStep(d) \/ UserStep(d)
          PROVE  pc'[b] \in {"bind", "listen", "killed"}
      <4>1. CASE pc'[b] = pc[b]
        BY <1>1, <4>1
      <4>2. CASE Bind(d)
        BY <1>1, <2>1, <4>2 DEF Bind, Moves, PathInv, SocketTyped
      <4>3. CASE Kill(d)
        BY <1>1, <4>3 DEF Kill, PathInv, SocketTyped
      <4>. QED
        BY <1>1, <3>1, <4>1, <4>2, <4>3
        DEF PathInv, SocketTyped, BridgeStep, SignalStep, UserStep, Moves, Start, Probe,
            RemoveStale, Listen, Chmod, OpenBackend, Accept, RunLine, EndRun, ListenerClosed,
            DeferredClose, SignalCloses, SignalRemoves, CtrlC
    <3>2. (\E c \in Callers : Dial(c)) \/ UNCHANGED vars => pc' = pc
      BY DEF Dial, vars
    <3>. QED
      BY <1>1, <3>1, <3>2 DEF Next
  <2>. QED
    BY <2>2
<1>2. PathInv /\ [Next]_vars
        => [\A b \in Bridges : (careful /\ pc[b] = "bind" => pc'[b] # "exited")]_vars
  BY <1>1
<1>. QED
  BY <1>2, PathInvariant, PTL DEF Spec, StaleFileStopsNobody
=============================================================================
