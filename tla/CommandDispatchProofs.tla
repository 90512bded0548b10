----------------------- MODULE CommandDispatchProofs -----------------------
(***************************************************************************)
(* Command dispatch, for any set of commands and any number of attempts,   *)
(* broken sessions, restarts and failed writes: executions of one command  *)
(* never overlap, activities are told the truth, acknowledged results are  *)
(* recorded, and the whole implements the remote calls of RemoteCalls.     *)
(***************************************************************************)
EXTENDS CommandDispatch, FiniteSetTheorems, TLAPS

(* The agent's own variables, and what they say of one another: a command   *)
(* with a goroutine, or with a result not reported yet, is registered as    *)
(* running, and it has one or the other.                                   *)
AgentTypes ==
    /\ running \subseteq Cmds /\ journaled \subseteq Cmds
    /\ live \in [Cmds -> Nat]
    /\ ended \in [Cmds -> Results \union {"none"}]

Registered(c) ==
    /\ live[c] <= 1
    /\ live[c] = 1 => c \in running /\ ended[c] = "none"
    /\ ended[c] # "none" => c \in running
    /\ c \in journaled => ended[c] # "none"

IInv == AgentTypes /\ \A c \in Cmds : Registered(c)

(* Nothing runs at the start.                                              *)
LEMMA InitIInv == DispatchInit => IInv
BY DEF DispatchInit, IInv, AgentTypes, Registered, Results

(* Every step preserves IInv, one step of the proof per action. *)
LEMMA Inductive == IInv /\ [DispatchNext]_dispatchVars => IInv'
<1> SUFFICES ASSUME IInv, [DispatchNext]_dispatchVars PROVE IInv'
  OBVIOUS
<1> USE DEF IInv, AgentTypes, Registered
<1>1. CASE UNCHANGED <<running, live, ended, journaled>>
  BY <1>1
<1>2. ASSUME NEW c \in Cmds, HandleStart(c) PROVE IInv'
  BY <1>2 DEF HandleStart
<1>3. ASSUME NEW c \in Cmds, Execute(c) PROVE IInv'
  BY <1>3 DEF Execute, Results
<1>4. ASSUME NEW c \in Cmds, Finish(c) PROVE IInv'
  BY <1>4 DEF Finish
<1>5. ASSUME NEW c \in Cmds, Report(c) PROVE IInv'
  BY <1>5 DEF Report
<1>6. CASE Stop
  BY <1>6 DEF Stop
<1>7. CASE Deliver \/ Unregister \/ Connect \/ HandleResult \/ HandleAck \/ Start \/ Drop
  <2>1. UNCHANGED <<running, live, ended, journaled>>
    BY <1>7 DEF Deliver, Unregister, Connect, HandleResult, HandleAck, Start, Drop, agent
  <2> QED
    BY <1>1, <2>1
<1>8. ASSUME NEW c \in Cmds,
             Attempt(c) \/ Send(c) \/ LingeringSend(c) \/ AttemptLost(c) \/ LingeringEnds(c)
      PROVE  IInv'
  <2>1. UNCHANGED <<running, live, ended, journaled>>
    BY <1>8 DEF Attempt, Send, LingeringSend, AttemptLost, LingeringEnds, agent
  <2> QED
    BY <1>1, <2>1
<1>9. CASE UNCHANGED dispatchVars
  BY <1>1, <1>9 DEF dispatchVars
<1> HIDE DEF IInv
<1> QED
  BY <1>2, <1>3, <1>4, <1>5, <1>6, <1>7, <1>8, <1>9 DEF DispatchNext, Progress, CommandStep

(* In every behaviour of the agent and the gateway, a command has at most one *)
(* goroutine executing it, and one that executes is registered as running.  *)
THEOREM ExecutionsNeverOverlap == DispatchSpec => []NoOverlap
<1>1. IInv => NoOverlap
  BY DEF IInv, Registered, NoOverlap
<1> QED
  BY InitIInv, Inductive, <1>1, PTL DEF DispatchSpec

-----------------------------------------------------------------------------
(* Sequences, as the proofs below use them.                                *)
LEMMA SeqHeadTail ==
    ASSUME NEW S, NEW s \in Seq(S), s # <<>>
    PROVE  Head(s) \in S /\ Tail(s) \in Seq(S)
OBVIOUS

(* A sequence over a set is one over a larger set.                         *)
LEMMA SeqLarger ==
    ASSUME NEW S, NEW T, S \subseteq T, NEW s \in Seq(S)
    PROVE  s \in Seq(T)
OBVIOUS

(* Appending an element of the set keeps the type.                         *)
LEMMA SeqAppend ==
    ASSUME NEW S, NEW s \in Seq(S), NEW x \in S
    PROVE  Append(s, x) \in Seq(S) /\ <<x>> \in Seq(S) /\ <<>> \in Seq(S)
OBVIOUS

(* So does joining two sequences.                                          *)
LEMMA SeqConcat ==
    ASSUME NEW S, NEW s \in Seq(S), NEW t \in Seq(S)
    PROVE  s \o t \in Seq(S)
OBVIOUS

(* A finite set, in any order, is a sequence of its elements.              *)
LEMMA SeqOfSet ==
    ASSUME NEW S, IsFiniteSet(S), NEW s \in SetToSeqs(S)
    PROVE  s \in Seq(S)
<1>1. Cardinality(S) \in Nat
  BY FS_CardinalityType
<1>2. s \in [1..Cardinality(S) -> S]
  BY DEF SetToSeqs
<1> QED
  BY <1>1, <1>2

(* The results a session replays when it opens.                            *)
Replayed == {Update(c, mem[c].upd) : c \in {d \in Cmds : mem[d].st = "finished"}}

(* Finitely many results are replayed: there are finitely many commands.   *)
LEMMA ReplayedFinite == IsFiniteSet(Replayed)
<1> DEFINE D == {d \in Cmds : mem[d].st = "finished"}
           f == [c \in D |-> Update(c, mem[c].upd)]
<1>1. IsFiniteSet(D)
  BY FS_Subset, DiscoverAssumption
<1>2. f \in Surjection(D, Replayed)
  BY DEF Surjection, Replayed
<1> QED
  BY <1>1, <1>2, FS_Surjection

-----------------------------------------------------------------------------
(* Types.                                                                  *)

(* Types hold at the start.                                                *)
LEMMA InitTypes == DispatchInit => DispatchTypeOK
<1> SUFFICES ASSUME DispatchInit PROVE DispatchTypeOK
  OBVIOUS
<1>1. NoRecord \in Record
  BY DEF NoRecord, Record
<1>2. mem \in [Cmds -> Record] /\ disk \in [Cmds -> Record]
  BY <1>1 DEF DispatchInit
<1>3. down \in Seq(Msgs) /\ up \in Seq(Msgs)
  BY DEF DispatchInit
<1>4. /\ attempts \in [Cmds -> 0..MaxAttempts]
      /\ drops \in 0..MaxDrops /\ stops \in 0..MaxStops /\ callFaults \in 0..MaxCallFaults
  BY DispatchBoundsAssumption DEF DispatchInit
<1> QED
  BY <1>2, <1>3, <1>4, Zenon DEF DispatchInit, DispatchTypeOK

(* The messages the two sides build are messages.                          *)
LEMMA MessagesTyped ==
    ASSUME NEW c \in Cmds, NEW r \in Results \union {"none"}
    PROVE  CommandMsg(c) \in Msgs /\ AckMsg(c) \in Msgs /\ Update(c, r) \in Msgs
BY DEF CommandMsg, AckMsg, Update, Msgs

(* Messages to the agent keep their type when one is added.                *)
LEMMA ToAgentTyped ==
    ASSUME DispatchTypeOK, NEW m \in Msgs
    PROVE  ToAgent(m) \in Seq(Msgs)
BY SeqAppend DEF DispatchTypeOK, ToAgent

(* A failed write is counted.                                              *)
LEMMA BoundsTyped ==
    ASSUME DispatchTypeOK, CallFails \/ UNCHANGED bounds
    PROVE  drops' \in 0..MaxDrops /\ stops' \in 0..MaxStops /\ callFaults' \in 0..MaxCallFaults
BY DispatchBoundsAssumption DEF DispatchTypeOK, CallFails, bounds

(* A write of the journal and a message emitted, with types.               *)
LEMMA WriteTyped ==
    ASSUME DispatchTypeOK, NEW c \in Cmds, NEW rec \in Record, Write(c, rec)
    PROVE  /\ mem' \in [Cmds -> Record] /\ disk' \in [Cmds -> Record]
           /\ drops' \in 0..MaxDrops /\ stops' \in 0..MaxStops /\ callFaults' \in 0..MaxCallFaults
<1>1. mem' \in [Cmds -> Record] /\ disk' \in [Cmds -> Record]
  BY Zenon DEF DispatchTypeOK, Write
<1>2. CallFails \/ UNCHANGED bounds
  BY DEF Write
<1> QED
  BY <1>1, <1>2, BoundsTyped

(* emit, with types.                                                       *)
LEMMA EmitTyped ==
    ASSUME DispatchTypeOK, NEW m \in Msgs, Emit(m)
    PROVE  /\ up' \in Seq(Msgs)
           /\ drops' \in 0..MaxDrops /\ stops' \in 0..MaxStops /\ callFaults' \in 0..MaxCallFaults
<1>1. up' \in Seq(Msgs)
  <2>1. up \in Seq(Msgs) /\ Append(up, m) \in Seq(Msgs)
    BY SeqAppend DEF DispatchTypeOK
  <2>2. up' = up \/ up' = Append(up, m)
    BY DEF Emit
  <2> QED  BY <2>1, <2>2
<1>2. CallFails \/ UNCHANGED bounds
  BY DEF Emit
<1> QED
  BY <1>1, <1>2, BoundsTyped

(* Taking the first message of a session leaves typed ones.                *)
LEMMA ReceivedTyped ==
    ASSUME DispatchTypeOK, NEW type, Received(type)
    PROVE  /\ Head(down) \in Msgs /\ Head(down).cmd \in Cmds
           /\ down' = Tail(down) /\ down' \in Seq(Msgs)
<1>1. Head(down) \in Msgs /\ Tail(down) \in Seq(Msgs)
  BY SeqHeadTail DEF DispatchTypeOK, Received
<1> QED
  BY <1>1 DEF Received, Msgs

(* deliver, with types.                                                    *)
LEMMA DeliverTyped ==
    ASSUME DispatchTypeOK, Deliver
    PROVE  DispatchTypeOK'
<1> DEFINE c == Head(up).cmd
           r == Head(up).res
<1>1. Head(up) \in Msgs /\ up' \in Seq(Msgs)
  BY SeqHeadTail DEF DispatchTypeOK, Deliver
<1>2. c \in Cmds /\ r \in Results \union {"none"}
  BY <1>1 DEF Msgs
<1>3. Resent(c) \in Seq(Msgs) /\ AckMsg(c) \in Msgs
  BY <1>2, MessagesTyped, SeqAppend DEF Resent, Results
<1>4. Append(down, AckMsg(c)) \o Resent(c) \in Seq(Msgs) /\ down \o Resent(c) \in Seq(Msgs)
  BY <1>3, SeqAppend, SeqConcat DEF DispatchTypeOK
<1>5. down' \in Seq(Msgs) /\ stored' \subseteq Cmds
  BY <1>2, <1>4, Zenon DEF Deliver, DispatchTypeOK
<1>6. \A q \in Results \union {"none"} :
        Route(c, q) => /\ disp' \in [Cmds -> {"off", "waiting", "sent"}]
                       /\ got' \in [Cmds -> Results \union {"none"}]
  <2>1. /\ disp \in [Cmds -> {"off", "waiting", "sent"}]
        /\ got \in [Cmds -> Results \union {"none"}]
    BY DEF DispatchTypeOK
  <2> QED  BY <1>2, <2>1 DEF Route
<1>7. /\ disp' \in [Cmds -> {"off", "waiting", "sent"}]
      /\ got' \in [Cmds -> Results \union {"none"}]
  <2>1. Route(c, r) \/ Route(c, "retryable")
    BY DEF Deliver
  <2> QED  BY <1>2, <1>6, <2>1 DEF Results
<1>8. drops' \in 0..MaxDrops /\ stops' \in 0..MaxStops /\ callFaults' \in 0..MaxCallFaults
  BY BoundsTyped DEF Deliver
<1>9. UNCHANGED <<attempts, linger, gw, link, agent, journal, runs, outcomes>>
  BY DEF Deliver
<1> QED
  BY <1>1, <1>5, <1>7, <1>8, <1>9 DEF DispatchTypeOK, agent, journal

(* Every step keeps the types.                                             *)
LEMMA TypesInductive == DispatchTypeOK /\ [DispatchNext]_dispatchVars => DispatchTypeOK'
<1> SUFFICES ASSUME DispatchTypeOK, [DispatchNext]_dispatchVars PROVE DispatchTypeOK'
  OBVIOUS
<1> USE DEF stream, gateway, agent, journal, bounds, hist
<1>1. ASSUME NEW c \in Cmds, Attempt(c) PROVE DispatchTypeOK'
  <2>1. attempts' \in [Cmds -> 0..MaxAttempts]
    BY <1>1, DispatchBoundsAssumption DEF Attempt, Over, DispatchTypeOK
  <2>2. disp' \in [Cmds -> {"off", "waiting", "sent"}]
    BY <1>1 DEF Attempt, DispatchTypeOK
  <2> QED  BY <1>1, <2>1, <2>2 DEF Attempt, DispatchTypeOK
<1>2. ASSUME NEW c \in Cmds, Send(c) \/ LingeringSend(c) PROVE DispatchTypeOK'
  <2>1. down' \in Seq(Msgs)
    BY <1>2, MessagesTyped, ToAgentTyped DEF Send, LingeringSend, Results
  <2>2. /\ disp' \in [Cmds -> {"off", "waiting", "sent"}]
        /\ linger' \in [Cmds -> {"off", "waiting", "sent"}]
    BY <1>2, Zenon DEF Send, LingeringSend, DispatchTypeOK
  <2> QED  BY <1>2, <2>1, <2>2 DEF Send, LingeringSend, DispatchTypeOK
<1>3. ASSUME NEW c \in Cmds, AttemptLost(c) \/ LingeringEnds(c) PROVE DispatchTypeOK'
  <2>1. /\ disp \in [Cmds -> {"off", "waiting", "sent"}]
        /\ linger \in [Cmds -> {"off", "waiting", "sent"}]
    BY DEF DispatchTypeOK
  <2>2. /\ disp' \in [Cmds -> {"off", "waiting", "sent"}]
        /\ linger' \in [Cmds -> {"off", "waiting", "sent"}]
    BY <1>3, <2>1 DEF AttemptLost, LingeringEnds
  <2>3. UNCHANGED <<attempts, got, stored, stream, agent, journal, bounds, hist>>
    BY <1>3 DEF AttemptLost, LingeringEnds
  <2> QED  BY <2>2, <2>3 DEF DispatchTypeOK
<1>4. ASSUME NEW c \in Cmds, HandleStart(c) PROVE DispatchTypeOK'
  <2>1. CASE c \in running
    BY <1>4, <2>1 DEF HandleStart, DispatchTypeOK
  <2>2. CASE c \notin running
    <3>1. Accepted \in Record
      BY DEF Accepted, Record
    <3>2. /\ mem' \in [Cmds -> Record] /\ disk' \in [Cmds -> Record]
          /\ drops' \in 0..MaxDrops /\ stops' \in 0..MaxStops /\ callFaults' \in 0..MaxCallFaults
      BY <1>4, <2>2, <3>1, WriteTyped DEF HandleStart
    <3>3. live' \in [Cmds -> Nat] /\ runs' \in [Cmds -> Nat] /\ running' \subseteq Cmds
      <4>1. live \in [Cmds -> Nat] /\ runs \in [Cmds -> Nat] /\ running \subseteq Cmds
        BY DEF DispatchTypeOK
      <4>2. /\ live' = [live EXCEPT ![c] = @ + 1] /\ runs' = [runs EXCEPT ![c] = @ + 1]
            /\ running' = running \union {c}
        BY <1>4, <2>2 DEF HandleStart
      <4> QED  BY <4>1, <4>2
    <3> QED  BY <1>4, <3>2, <3>3 DEF HandleStart, DispatchTypeOK
  <2> QED  BY <2>1, <2>2
<1>5. ASSUME NEW c \in Cmds, Execute(c) PROVE DispatchTypeOK'
  <2>1. live' \in [Cmds -> Nat]
    BY <1>5 DEF Execute, DispatchTypeOK
  <2>2. ended' \in [Cmds -> Results \union {"none"}] /\ outcomes' \in [Cmds -> SUBSET Results]
    BY <1>5 DEF Execute, DispatchTypeOK
  <2> QED  BY <1>5, <2>1, <2>2 DEF Execute, DispatchTypeOK
<1>6. ASSUME NEW c \in Cmds, Finish(c) PROVE DispatchTypeOK'
  <2>1. Finished(ended[c]) \in Record
    BY DEF Finished, Record, DispatchTypeOK
  <2>2. /\ mem' \in [Cmds -> Record] /\ disk' \in [Cmds -> Record]
        /\ drops' \in 0..MaxDrops /\ stops' \in 0..MaxStops /\ callFaults' \in 0..MaxCallFaults
    BY <1>6, <2>1, WriteTyped DEF Finish
  <2> QED  BY <1>6, <2>2 DEF Finish, DispatchTypeOK
<1>7. ASSUME NEW c \in Cmds, Report(c) PROVE DispatchTypeOK'
  <2>1. Update(c, ended[c]) \in Msgs
    BY MessagesTyped DEF DispatchTypeOK
  <2>2. /\ up' \in Seq(Msgs)
        /\ drops' \in 0..MaxDrops /\ stops' \in 0..MaxStops /\ callFaults' \in 0..MaxCallFaults
    BY <1>7, <2>1, EmitTyped DEF Report
  <2>3. ended' \in [Cmds -> Results \union {"none"}]
    BY <1>7 DEF Report, DispatchTypeOK
  <2> QED  BY <1>7, <2>2, <2>3 DEF Report, DispatchTypeOK
<1>8. CASE Deliver
  BY <1>8, DeliverTyped
<1>9. CASE Unregister
  <2>1. /\ disp' \in [Cmds -> {"off", "waiting", "sent"}]
        /\ linger' \in [Cmds -> {"off", "waiting", "sent"}]
    BY <1>9 DEF Unregister, Wake, Woken, DispatchTypeOK
  <2> QED  BY <1>9, <2>1, Zenon DEF Unregister, DispatchTypeOK
<1>10. CASE Connect
  <2>1. /\ disp' \in [Cmds -> {"off", "waiting", "sent"}]
        /\ linger' \in [Cmds -> {"off", "waiting", "sent"}]
    BY <1>10 DEF Connect, Wake, Woken, DispatchTypeOK
  <2>2. Replayed \subseteq Msgs
    BY MessagesTyped DEF Replayed, DispatchTypeOK, Record
  <2>3. up' \in Seq(Replayed)
    BY <1>10, ReplayedFinite, SeqOfSet DEF Connect, Replayed
  <2>4. up' \in Seq(Msgs) /\ down' \in Seq(Msgs)
    <3>1. down' = <<>>
      BY <1>10 DEF Connect
    <3> QED  BY <2>2, <2>3, <3>1, SeqLarger
  <2>5. gw' = TRUE /\ link' = TRUE /\ UNCHANGED <<attempts, got, stored, agent, journal, bounds, hist>>
    BY <1>10 DEF Connect
  <2> QED  BY <2>1, <2>4, <2>5 DEF DispatchTypeOK
<1>11. CASE HandleResult
  <2>1. Head(down).cmd \in Cmds /\ down' \in Seq(Msgs)
    BY <1>11, ReceivedTyped DEF HandleResult
  <2>2. Update(Head(down).cmd, mem[Head(down).cmd].upd) \in Msgs
    BY <2>1, MessagesTyped DEF DispatchTypeOK, Record
  <2>3. /\ up' \in Seq(Msgs) /\ handling' \subseteq Cmds
        /\ drops' \in 0..MaxDrops /\ stops' \in 0..MaxStops /\ callFaults' \in 0..MaxCallFaults
    <3>1. CASE mem[Head(down).cmd].upd # "none"
      BY <1>11, <2>2, <3>1, EmitTyped DEF HandleResult, DispatchTypeOK
    <3>2. CASE mem[Head(down).cmd].upd = "none"
      BY <1>11, <2>1, <3>2 DEF HandleResult, DispatchTypeOK
    <3> QED  BY <3>1, <3>2
  <2> QED  BY <1>11, <2>1, <2>3, Zenon DEF HandleResult, DispatchTypeOK
<1>12. CASE HandleAck
  <2>1. Head(down).cmd \in Cmds /\ down' \in Seq(Msgs)
    BY <1>12, ReceivedTyped DEF HandleAck
  <2>2. Acked(mem[Head(down).cmd].upd) \in Record
    BY <2>1 DEF DispatchTypeOK, Record, Acked
  <2>3. /\ mem' \in [Cmds -> Record] /\ disk' \in [Cmds -> Record]
        /\ drops' \in 0..MaxDrops /\ stops' \in 0..MaxStops /\ callFaults' \in 0..MaxCallFaults
    <3>1. CASE mem[Head(down).cmd].st = "finished"
      BY <1>12, <2>1, <2>2, <3>1, WriteTyped DEF HandleAck
    <3>2. CASE mem[Head(down).cmd].st # "finished"
      BY <1>12, <3>2 DEF HandleAck, DispatchTypeOK
    <3> QED  BY <3>1, <3>2
  <2> QED  BY <1>12, <2>1, <2>3, Zenon DEF HandleAck, DispatchTypeOK
<1>13. CASE Drop
  <2>1. drops' \in 0..MaxDrops /\ down' \in Seq(Msgs) /\ up' \in Seq(Msgs)
    BY <1>13, DispatchBoundsAssumption DEF Drop, Cut, DispatchTypeOK
  <2> QED  BY <1>13, <2>1, Zenon DEF Drop, Cut, DispatchTypeOK
<1>14. CASE Stop
  <2>1. stops' \in 0..MaxStops /\ down' \in Seq(Msgs) /\ up' \in Seq(Msgs)
    BY <1>14, DispatchBoundsAssumption DEF Stop, Cut, DispatchTypeOK
  <2>2. NoRecord \in Record
    BY DEF NoRecord, Record
  <2> QED  BY <1>14, <2>1, <2>2, Zenon DEF Stop, Cut, DispatchTypeOK
<1>15. CASE Start
  <2>1. NoRecord \in Record
    BY DEF NoRecord, Record
  <2>2. mem' \in [Cmds -> Record] /\ disk' = mem'
    BY <1>15, <2>1 DEF Start, DispatchTypeOK
  <2> QED  BY <1>15, <2>2 DEF Start, DispatchTypeOK
<1>16. CASE UNCHANGED dispatchVars
  BY <1>16 DEF dispatchVars, DispatchTypeOK
<1> QED
  BY <1>1, <1>2, <1>3, <1>4, <1>5, <1>6, <1>7, <1>8, <1>9, <1>10, <1>11, <1>12, <1>13, <1>14,
     <1>15, <1>16
  DEF DispatchNext, Progress, CommandStep

-----------------------------------------------------------------------------
(* What is told, journaled and acknowledged.                               *)

(* The updates an agent may send: results its executions have had.  The    *)
(* messages a gateway may send: acknowledgements of what it has recorded.  *)
(* The records a journal may hold, the results an activity may be given.   *)
TrueUpdates == {m \in Msgs : m.res \in outcomes[m.cmd]}
TrueAcks == {m \in Msgs : m.type = "ack" /\ callFaults = 0 => m.cmd \in stored}
TrueRecords(c) ==
    {rec \in Record : /\ rec.upd # "none" => rec.upd \in outcomes[c]
                      /\ rec.st = "finished" => rec.upd # "none"
                      /\ rec.st = "acked" /\ callFaults = 0 => c \in stored}
TrueAnswers(c) ==
    {r \in Results : \/ r \in outcomes[c]
                     \/ c \in Discover /\ r = "retryable" /\ "succeeded" \in outcomes[c]}

(* The inductive invariant: nothing in flight, in the journal, about to be *)
(* reported or already told is anything else.                              *)
TruthInv ==
    /\ up \in Seq(TrueUpdates) /\ down \in Seq(TrueAcks)
    /\ \A c \in Cmds : /\ mem[c] \in TrueRecords(c) /\ disk[c] \in TrueRecords(c)
                       /\ ended[c] # "none" => ended[c] \in outcomes[c]
                       /\ got[c] # "none" => got[c] \in TrueAnswers(c)
Known == DispatchTypeOK /\ IInv /\ TruthInv

(* Nothing was said at the start.                                          *)
LEMMA InitTruth == DispatchInit => TruthInv
<1> SUFFICES ASSUME DispatchInit PROVE TruthInv
  OBVIOUS
<1>1. NoRecord \in Record /\ NoRecord.st = "none" /\ NoRecord.upd = "none"
  BY DEF NoRecord, Record
<1>2. \A c \in Cmds : mem[c] \in TrueRecords(c) /\ disk[c] \in TrueRecords(c)
  BY <1>1 DEF DispatchInit, TrueRecords
<1>3. up \in Seq(TrueUpdates) /\ down \in Seq(TrueAcks)
  BY DEF DispatchInit
<1> QED
  BY <1>2, <1>3 DEF DispatchInit, TruthInv

(* A call to the outside failed, or none did.                              *)
MayFail == CallFails \/ UNCHANGED callFaults

(* Which steps touch which part of the state.                              *)
Touches ==
    /\ MayFail
    /\ UNCHANGED <<got, stored>> \/ Deliver
    /\ UNCHANGED outcomes \/ \E c \in Cmds : Execute(c)
    /\ UNCHANGED ended \/ Stop \/ \E c \in Cmds : Execute(c) \/ Report(c)
    /\ \/ UNCHANGED up
       \/ Deliver \/ Drop \/ Stop \/ Connect \/ HandleResult \/ \E c \in Cmds : Report(c)
    /\ \/ UNCHANGED down
       \/ Deliver \/ Drop \/ Stop \/ Connect \/ HandleResult \/ HandleAck
       \/ \E c \in Cmds : Send(c) \/ LingeringSend(c)
    /\ \/ UNCHANGED <<mem, disk>>
       \/ HandleAck \/ Stop \/ Start
       \/ \E c \in Cmds : (HandleStart(c) /\ c \notin running) \/ Finish(c)
    /\ \/ UNCHANGED <<disp, got, outcomes>>
       \/ Deliver \/ Unregister \/ Connect
       \/ \E c \in Cmds : Attempt(c) \/ AttemptLost(c) \/ Execute(c) \/ Send(c)

(* No step touches more.                                                   *)
LEMMA Touched == [DispatchNext]_dispatchVars => Touches
<1>1. ASSUME NEW c \in Cmds, Attempt(c) PROVE Touches
  <2>1. UNCHANGED <<got, stored, down, up, mem, disk, ended, outcomes, callFaults>>
    BY <1>1 DEF Attempt, stream, agent, journal, bounds, hist
  <2> QED  BY <1>1, <2>1 DEF Touches, MayFail
<1>2. ASSUME NEW c \in Cmds, Send(c) PROVE Touches
  <2>1. UNCHANGED <<got, stored, up, mem, disk, ended, outcomes, callFaults>>
    BY <1>2 DEF Send, agent, journal, bounds, hist
  <2> QED  BY <1>2, <2>1 DEF Touches, MayFail
<1>3. ASSUME NEW c \in Cmds, LingeringSend(c) PROVE Touches
  <2>1. UNCHANGED <<disp, got, stored, up, mem, disk, ended, outcomes, callFaults>>
    BY <1>3 DEF LingeringSend, agent, journal, bounds, hist
  <2> QED  BY <1>3, <2>1 DEF Touches, MayFail
<1>4. ASSUME NEW c \in Cmds, AttemptLost(c) PROVE Touches
  <2>1. UNCHANGED <<got, stored, down, up, mem, disk, ended, outcomes, callFaults>>
    BY <1>4 DEF AttemptLost, stream, agent, journal, bounds, hist
  <2> QED  BY <1>4, <2>1 DEF Touches, MayFail
<1>5. ASSUME NEW c \in Cmds, LingeringEnds(c) PROVE Touches
  <2>1. UNCHANGED <<disp, got, stored, down, up, mem, disk, ended, outcomes, callFaults>>
    BY <1>5 DEF LingeringEnds, stream, agent, journal, bounds, hist
  <2> QED  BY <1>5, <2>1 DEF Touches, MayFail
<1>6. ASSUME NEW c \in Cmds, HandleStart(c) PROVE Touches
  <2>1. UNCHANGED <<disp, got, stored, down, up, ended, outcomes>> /\ MayFail
        /\ (c \in running => UNCHANGED <<mem, disk>>)
    BY <1>6 DEF MayFail, HandleStart, Write, gateway, stream, journal, bounds
  <2> QED  BY <1>6, <2>1 DEF Touches
<1>7. ASSUME NEW c \in Cmds, Execute(c) PROVE Touches
  <2>1. UNCHANGED <<disp, got, stored, down, up, mem, disk, callFaults>>
    BY <1>7 DEF Execute, gateway, stream, journal, bounds
  <2> QED  BY <1>7, <2>1 DEF Touches, MayFail
<1>8. ASSUME NEW c \in Cmds, Finish(c) PROVE Touches
  <2>1. UNCHANGED <<disp, got, stored, down, up, ended, outcomes>> /\ MayFail
    BY <1>8 DEF MayFail, Finish, Write, gateway, stream, bounds, hist
  <2> QED  BY <1>8, <2>1 DEF Touches
<1>9. ASSUME NEW c \in Cmds, Report(c) PROVE Touches
  <2>1. UNCHANGED <<disp, got, stored, down, mem, disk, outcomes>> /\ MayFail
    BY <1>9 DEF MayFail, Report, Emit, gateway, journal, bounds, hist
  <2> QED  BY <1>9, <2>1 DEF Touches
<1>10. ASSUME Deliver PROVE Touches
  <2>1. UNCHANGED <<mem, disk, ended, outcomes>> /\ MayFail
    BY <1>10 DEF MayFail, Deliver, agent, journal, bounds
  <2> QED  BY <1>10, <2>1 DEF Touches
<1>11. ASSUME Unregister PROVE Touches
  <2>1. UNCHANGED <<got, stored, down, up, mem, disk, ended, outcomes, callFaults>>
    BY <1>11 DEF Unregister, agent, journal, bounds, hist
  <2> QED  BY <1>11, <2>1 DEF Touches, MayFail
<1>12. ASSUME Connect PROVE Touches
  <2>1. UNCHANGED <<got, stored, mem, disk, ended, outcomes, callFaults>>
    BY <1>12 DEF Connect, agent, journal, bounds, hist
  <2> QED  BY <1>12, <2>1 DEF Touches, MayFail
<1>13. ASSUME Drop PROVE Touches
  <2>1. UNCHANGED <<disp, got, stored, mem, disk, ended, outcomes, callFaults>>
    BY <1>13 DEF Drop, gateway, agent, journal, hist
  <2> QED  BY <1>13, <2>1 DEF Touches, MayFail
<1>14. ASSUME HandleResult PROVE Touches
  <2>1. UNCHANGED <<disp, got, stored, mem, disk, ended, outcomes>> /\ MayFail
    BY <1>14 DEF MayFail, HandleResult, Emit, gateway, journal, bounds, hist
  <2> QED  BY <1>14, <2>1 DEF Touches
<1>15. ASSUME HandleAck PROVE Touches
  <2>1. UNCHANGED <<disp, got, stored, up, ended, outcomes>> /\ MayFail
    BY <1>15 DEF MayFail, HandleAck, Write, gateway, agent, journal, bounds, hist
  <2> QED  BY <1>15, <2>1 DEF Touches
<1>16. ASSUME Stop PROVE Touches
  <2>1. UNCHANGED <<disp, got, stored, outcomes, callFaults>>
    BY <1>16 DEF Stop, gateway, hist
  <2> QED  BY <1>16, <2>1 DEF Touches, MayFail
<1>17. ASSUME Start PROVE Touches
  <2>1. UNCHANGED <<disp, got, stored, down, up, ended, outcomes, callFaults>>
    BY <1>17 DEF Start, gateway, stream, bounds, hist
  <2> QED  BY <1>17, <2>1 DEF Touches, MayFail
<1>18. ASSUME UNCHANGED dispatchVars PROVE Touches
  BY <1>18 DEF dispatchVars, gateway, stream, agent, journal, bounds, hist, Touches, MayFail
<1>19. ASSUME NEW c \in Cmds, CommandStep(c) PROVE Touches
  BY <1>1, <1>2, <1>3, <1>6, <1>7, <1>8, <1>9, <1>19 DEF CommandStep
<1>20. ASSUME Progress PROVE Touches
  BY <1>10, <1>11, <1>12, <1>14, <1>15, <1>17, <1>19, <1>20 DEF Progress
<1> QED
  BY <1>4, <1>5, <1>13, <1>16, <1>18, <1>20 DEF DispatchNext

(* Executions are never undone, rows of the gateway are never taken back,  *)
(* and failures are never forgotten: what is true stays true.              *)
LEMMA HistoryGrows ==
    ASSUME DispatchTypeOK, [DispatchNext]_dispatchVars
    PROVE  /\ stored \subseteq stored'
           /\ callFaults' = 0 => callFaults = 0
           /\ \A c \in Cmds : outcomes[c] \subseteq outcomes'[c]
<1> USE DEF stream, gateway, agent, journal, bounds, hist
<1>1. \/ UNCHANGED stored
      \/ Deliver
  BY Touched DEF Touches
<1>2. stored \subseteq stored'
  BY <1>1 DEF Deliver
<1>3. MayFail
  BY Touched DEF Touches
<1>4. callFaults' = 0 => callFaults = 0
  BY <1>3 DEF MayFail, CallFails, DispatchTypeOK
<1>5. \/ UNCHANGED outcomes
      \/ \E c \in Cmds : Execute(c)
  BY Touched DEF Touches
<1>6. \A c \in Cmds : outcomes[c] \subseteq outcomes'[c]
  <2>1. ASSUME NEW d \in Cmds, Execute(d) PROVE \A c \in Cmds : outcomes[c] \subseteq outcomes'[c]
    <3>1. PICK r \in Results : outcomes' = [outcomes EXCEPT ![d] = outcomes[d] \union {r}]
      BY <2>1, Zenon DEF Execute
    <3>2. outcomes \in [Cmds -> SUBSET Results]
      BY DEF DispatchTypeOK
    <3> QED  BY <3>1, <3>2
  <2> QED  BY <1>5, <2>1
<1> QED
  BY <1>2, <1>4, <1>6

(* Since history only grows, true messages, records and answers stay true. *)
LEMMA TruthStays ==
    ASSUME DispatchTypeOK, [DispatchNext]_dispatchVars
    PROVE  /\ TrueUpdates \subseteq TrueUpdates'
           /\ TrueAcks \subseteq TrueAcks'
           /\ \A c \in Cmds : TrueRecords(c) \subseteq TrueRecords(c)'
           /\ \A c \in Cmds : TrueAnswers(c) \subseteq TrueAnswers(c)'
<1>1. TrueUpdates \subseteq TrueUpdates'
  BY HistoryGrows DEF TrueUpdates, Msgs
<1>2. TrueAcks \subseteq TrueAcks'
  BY HistoryGrows DEF TrueAcks
<1>3. \A c \in Cmds : TrueRecords(c) \subseteq TrueRecords(c)'
  BY HistoryGrows DEF TrueRecords
<1>4. \A c \in Cmds : TrueAnswers(c) \subseteq TrueAnswers(c)'
  BY HistoryGrows DEF TrueAnswers
<1> QED
  BY <1>1, <1>2, <1>3, <1>4

(* What a step may do to the messages to the gateway.                      *)
LEMMA UpdatesTrue ==
    ASSUME Known, [DispatchNext]_dispatchVars
    PROVE  up' \in Seq(TrueUpdates')
<1> USE DEF stream, gateway, agent, journal, bounds, hist
<1>1. up \in Seq(TrueUpdates) /\ <<>> \in Seq(TrueUpdates)
  BY DEF Known, TruthInv
<1>2. SUFFICES up' \in Seq(TrueUpdates)
  BY TruthStays, SeqLarger DEF Known
<1>3. ASSUME NEW m \in TrueUpdates, Emit(m) PROVE up' \in Seq(TrueUpdates)
  <2>1. up' = up \/ up' = Append(up, m)
    BY <1>3 DEF Emit
  <2> QED  BY <1>1, <2>1, SeqAppend
<1>4. ASSUME NEW c \in Cmds, NEW r \in outcomes[c] PROVE Update(c, r) \in TrueUpdates
  <2>1. r \in Results
    BY DEF Known, DispatchTypeOK
  <2> QED  BY <2>1 DEF Update, TrueUpdates, Msgs
<1>5. CASE Deliver
  BY <1>1, <1>5, SeqHeadTail DEF Deliver
<1>6. CASE Drop \/ Stop
  BY <1>1, <1>6, Zenon DEF Drop, Stop, Cut
<1>7. CASE Connect
  <2>1. Replayed \subseteq TrueUpdates
    <3> SUFFICES ASSUME NEW c \in Cmds, mem[c].st = "finished"
                 PROVE  Update(c, mem[c].upd) \in TrueUpdates
      BY DEF Replayed
    <3>1. mem[c].upd \in outcomes[c]
      BY DEF Known, TruthInv, TrueRecords
    <3> QED  BY <1>4, <3>1
  <2>2. up' \in Seq(Replayed)
    BY <1>7, ReplayedFinite, SeqOfSet DEF Connect, Replayed
  <2> QED  BY <2>1, <2>2, SeqLarger
<1>8. CASE HandleResult
  <2>1. Head(down).cmd \in Cmds
    BY <1>8, ReceivedTyped DEF HandleResult, Known
  <2>2. CASE mem[Head(down).cmd].upd # "none"
    <3>1. mem[Head(down).cmd].upd \in outcomes[Head(down).cmd]
      BY <2>1, <2>2 DEF Known, TruthInv, TrueRecords
    <3>2. Update(Head(down).cmd, mem[Head(down).cmd].upd) \in TrueUpdates
      BY <1>4, <2>1, <3>1
    <3> QED  BY <1>3, <1>8, <2>2, <3>2 DEF HandleResult
  <2>3. CASE mem[Head(down).cmd].upd = "none"
    BY <1>1, <1>8, <2>3 DEF HandleResult
  <2> QED  BY <2>2, <2>3
<1>9. ASSUME NEW c \in Cmds, Report(c) PROVE up' \in Seq(TrueUpdates)
  <2>1. ended[c] \in outcomes[c]
    BY <1>9 DEF Report, Known, IInv, Registered, TruthInv
  <2> QED  BY <1>3, <1>4, <1>9, <2>1 DEF Report
<1>10. CASE UNCHANGED up
  BY <1>1, <1>10
<1>11. \/ UNCHANGED up
       \/ Deliver \/ Drop \/ Stop \/ Connect \/ HandleResult \/ \E c \in Cmds : Report(c)
  BY Touched DEF Touches
<1> QED
  BY <1>5, <1>6, <1>7, <1>8, <1>9, <1>10, <1>11

(* What a step may do to the messages to the agent.                        *)
LEMMA AcksTrue ==
    ASSUME Known, [DispatchNext]_dispatchVars
    PROVE  down' \in Seq(TrueAcks')
<1> USE DEF stream, gateway, agent, journal, bounds, hist
<1>1. down \in Seq(TrueAcks') /\ <<>> \in Seq(TrueAcks')
  BY TruthStays, SeqLarger DEF Known, TruthInv
<1>2. ASSUME NEW c \in Cmds PROVE CommandMsg(c) \in TrueAcks'
  BY DEF CommandMsg, TrueAcks, Msgs
<1>3. ASSUME NEW c \in Cmds, Send(c) \/ LingeringSend(c) PROVE down' \in Seq(TrueAcks')
  <2>1. down' = down \/ down' = Append(down, CommandMsg(c))
    BY <1>3 DEF Send, LingeringSend, ToAgent
  <2> QED  BY <1>1, <1>2, <2>1, SeqAppend
<1>4. CASE Deliver
  <2>1. PICK c \in Cmds : c = Head(up).cmd
    <3>1. Head(up) \in Msgs
      BY <1>4, SeqHeadTail, Zenon DEF Deliver, Known, DispatchTypeOK
    <3> QED  BY <3>1 DEF Msgs
  <2>2. Resent(c) \in Seq(TrueAcks')
    BY <1>1, <1>2, SeqAppend DEF Resent
  <2>3. CASE down' = down \o Resent(c)
    BY <1>1, <2>2, <2>3, SeqConcat
  <2>4. CASE /\ down' = Append(down, AckMsg(c)) \o Resent(c)
             /\ c \in stored' \/ CallFails
    <3>1. callFaults' = 0 => c \in stored'
      BY <2>4 DEF CallFails, Known, DispatchTypeOK
    <3>2. AckMsg(c) \in TrueAcks'
      BY <3>1 DEF AckMsg, TrueAcks, Msgs
    <3>3. Append(down, AckMsg(c)) \in Seq(TrueAcks')
      BY <1>1, <3>2, SeqAppend
    <3> QED  BY <2>2, <2>4, <3>3, SeqConcat
  <2> QED  BY <1>4, <2>1, <2>3, <2>4 DEF Deliver
<1>5. CASE Drop \/ Stop \/ Connect
  BY <1>1, <1>5, Zenon DEF Drop, Stop, Cut, Connect
<1>6. CASE HandleResult \/ HandleAck
  <2>1. down' = Tail(down) /\ down # <<>>
    BY <1>6, Zenon DEF HandleResult, HandleAck, Received
  <2> QED  BY <1>1, <2>1, SeqHeadTail
<1>7. CASE UNCHANGED down
  BY <1>1, <1>7
<1>8. \/ UNCHANGED down
      \/ Deliver \/ Drop \/ Stop \/ Connect \/ HandleResult \/ HandleAck
      \/ \E c \in Cmds : Send(c) \/ LingeringSend(c)
  BY Touched DEF Touches
<1> QED
  BY <1>3, <1>4, <1>5, <1>6, <1>7, <1>8

(* What a step may do to the journal, in memory and in its file.           *)
LEMMA RecordsTrue ==
    ASSUME Known, [DispatchNext]_dispatchVars
    PROVE  \A d \in Cmds : mem'[d] \in TrueRecords(d)' /\ disk'[d] \in TrueRecords(d)'
<1> USE DEF stream, gateway, agent, journal, bounds, hist
<1>1. \A d \in Cmds : mem[d] \in TrueRecords(d)' /\ disk[d] \in TrueRecords(d)'
  BY TruthStays DEF Known, TruthInv
<1>2. mem \in [Cmds -> Record] /\ disk \in [Cmds -> Record]
  BY DEF Known, DispatchTypeOK
<1>3. ASSUME NEW c \in Cmds, NEW rec \in TrueRecords(c)', Write(c, rec)
      PROVE  \A d \in Cmds : mem'[d] \in TrueRecords(d)' /\ disk'[d] \in TrueRecords(d)'
  <2>1. mem' = [mem EXCEPT ![c] = rec] /\ (disk' = disk \/ disk' = [disk EXCEPT ![c] = rec])
    BY <1>3 DEF Write
  <2> QED  BY <1>1, <1>2, <1>3, <2>1
<1>4. \A d \in Cmds : NoRecord \in TrueRecords(d)' /\ Accepted \in TrueRecords(d)'
  BY DEF NoRecord, Accepted, TrueRecords, Record
<1>5. ASSUME NEW c \in Cmds, HandleStart(c), c \notin running
      PROVE  \A d \in Cmds : mem'[d] \in TrueRecords(d)' /\ disk'[d] \in TrueRecords(d)'
  BY <1>3, <1>4, <1>5 DEF HandleStart
<1>6. ASSUME NEW c \in Cmds, Finish(c)
      PROVE  \A d \in Cmds : mem'[d] \in TrueRecords(d)' /\ disk'[d] \in TrueRecords(d)'
  <2>1. ended[c] \in outcomes[c] /\ ended[c] \in Results /\ ended[c] # "none"
    BY <1>6 DEF Finish, Known, TruthInv, DispatchTypeOK
  <2>2. outcomes' = outcomes
    BY <1>6 DEF Finish
  <2>3. Finished(ended[c]) \in TrueRecords(c)'
    BY <2>1, <2>2 DEF Finished, TrueRecords, Record
  <2> QED  BY <1>3, <1>6, <2>3 DEF Finish
<1>7. CASE HandleAck
  <2>1. PICK c \in Cmds : c = Head(down).cmd
    BY <1>7, ReceivedTyped, Zenon DEF HandleAck, Known
  <2>2. CASE mem[c].st # "finished"
    BY <1>1, <1>7, <2>1, <2>2 DEF HandleAck
  <2>3. CASE mem[c].st = "finished"
    <3>1. mem[c] \in TrueRecords(c)' /\ mem[c].upd # "none"
      BY <1>1, <2>3 DEF TrueRecords
    <3>2. Head(down) \in TrueAcks /\ Head(down).type = "ack"
      BY <1>7, SeqHeadTail DEF HandleAck, Received, Known, TruthInv
    <3>3. callFaults' = 0 => c \in stored'
      BY <2>1, <3>2, HistoryGrows DEF TrueAcks, Known
    <3>4. Acked(mem[c].upd) \in TrueRecords(c)'
      BY <3>1, <3>3 DEF Acked, TrueRecords, Record
    <3> QED  BY <1>3, <1>7, <2>1, <2>3, <3>4 DEF HandleAck
  <2> QED  BY <2>2, <2>3
<1>8. CASE Stop
  BY <1>1, <1>4, <1>8 DEF Stop
<1>9. CASE Start
  BY <1>1, <1>4, <1>9, Zenon DEF Start
<1>10. CASE UNCHANGED <<mem, disk>>
  BY <1>1, <1>10
<1>11. \/ UNCHANGED <<mem, disk>>
       \/ HandleAck \/ Stop \/ Start
       \/ \E c \in Cmds : (HandleStart(c) /\ c \notin running) \/ Finish(c)
  BY Touched DEF Touches
<1> QED
  BY <1>5, <1>6, <1>7, <1>8, <1>9, <1>10, <1>11

(* What a step may do to the results not reported yet.                     *)
LEMMA EndedTrue ==
    ASSUME Known, [DispatchNext]_dispatchVars
    PROVE  \A d \in Cmds : ended'[d] # "none" => ended'[d] \in outcomes'[d]
<1> USE DEF stream, gateway, agent, journal, bounds, hist
<1>1. \A d \in Cmds : ended[d] # "none" => ended[d] \in outcomes'[d]
  BY HistoryGrows DEF Known, TruthInv
<1>2. ended \in [Cmds -> Results \union {"none"}] /\ outcomes \in [Cmds -> SUBSET Results]
  BY DEF Known, DispatchTypeOK
<1>3. ASSUME NEW c \in Cmds, Execute(c)
      PROVE  \A d \in Cmds : ended'[d] # "none" => ended'[d] \in outcomes'[d]
  BY <1>1, <1>2, <1>3 DEF Execute
<1>4. ASSUME NEW c \in Cmds, Report(c)
      PROVE  \A d \in Cmds : ended'[d] # "none" => ended'[d] \in outcomes'[d]
  BY <1>1, <1>2, <1>4 DEF Report
<1>5. CASE Stop
  BY <1>5 DEF Stop
<1>6. CASE UNCHANGED ended
  BY <1>1, <1>6
<1>7. UNCHANGED ended \/ Stop \/ \E c \in Cmds : Execute(c) \/ Report(c)
  BY Touched DEF Touches
<1> QED
  BY <1>3, <1>4, <1>5, <1>6, <1>7

(* deliver gives a call nothing but a true answer.                         *)
LEMMA DeliverRoutes ==
    ASSUME Known, Deliver
    PROVE  \E c \in Cmds : \E r \in TrueAnswers(c) : Route(c, r)
<1>1. Head(up) \in TrueUpdates /\ up # <<>>
  BY SeqHeadTail DEF Deliver, Known, TruthInv
<1> DEFINE r == Head(up).res
<1>2. PICK c \in Cmds : c = Head(up).cmd /\ r \in outcomes[c]
  BY <1>1 DEF TrueUpdates, Msgs
<1> HIDE DEF r
<1>3. r \in Results
  BY <1>2 DEF Known, DispatchTypeOK
<1>4. r \in TrueAnswers(c)
  BY <1>2, <1>3 DEF TrueAnswers
<1>5. \/ Route(c, r)
      \/ c \in Discover /\ r = "succeeded" /\ Route(c, "retryable")
  BY <1>2, ZenonT(30) DEF Deliver, r
<1>6. c \in Discover /\ r = "succeeded" => "retryable" \in TrueAnswers(c)
  BY <1>2 DEF TrueAnswers, Results
<1> QED
  BY <1>4, <1>5, <1>6

(* What a step may do to what activities were told.                        *)
LEMMA GotTrue ==
    ASSUME Known, [DispatchNext]_dispatchVars
    PROVE  \A d \in Cmds : got'[d] # "none" => got'[d] \in TrueAnswers(d)'
<1> USE DEF stream, gateway, agent, journal, bounds, hist
<1>1. \A d \in Cmds : got[d] # "none" => got[d] \in TrueAnswers(d)'
  BY TruthStays DEF Known, TruthInv
<1>2. CASE Deliver
  <2>1. PICK c \in Cmds : \E r \in TrueAnswers(c) : Route(c, r)
    BY <1>2, DeliverRoutes
  <2>2. PICK r \in TrueAnswers(c)' : Route(c, r)
    BY <2>1, TruthStays DEF Known
  <2>3. got' = got \/ got' = [got EXCEPT ![c] = r]
    BY <2>2 DEF Route
  <2>4. got \in [Cmds -> Results \union {"none"}]
    BY DEF Known, DispatchTypeOK
  <2> QED  BY <1>1, <2>2, <2>3, <2>4
<1>3. CASE UNCHANGED got
  BY <1>1, <1>3
<1>4. UNCHANGED got \/ Deliver
  BY Touched DEF Touches
<1> QED
  BY <1>2, <1>3, <1>4

(* Every step keeps all three.                                             *)
LEMMA KnownInductive == Known /\ [DispatchNext]_dispatchVars => Known'
<1> SUFFICES ASSUME Known, [DispatchNext]_dispatchVars PROVE Known'
  OBVIOUS
<1>1. DispatchTypeOK' /\ IInv'
  BY TypesInductive, Inductive DEF Known
<1>2. TruthInv'
  BY UpdatesTrue, AcksTrue, RecordsTrue, EndedTrue, GotTrue DEF TruthInv
<1> QED
  BY <1>1, <1>2 DEF Known

(* So they hold of every execution of dispatch.                            *)
LEMMA AlwaysKnown == DispatchSpec => []Known
<1>1. DispatchInit => Known
  BY InitIInv, InitTypes, InitTruth DEF Known
<1> QED
  BY <1>1, KnownInductive, PTL DEF DispatchSpec

(* The variables of the gateway and of the agent keep their types.         *)
THEOREM DispatchTypeCorrect == DispatchSpec => []DispatchTypeOK
<1>1. Known => DispatchTypeOK
  BY DEF Known
<1> QED
  BY <1>1, AlwaysKnown, PTL

(* What an activity is told is a result of an execution of its own command, *)
(* through any number of lost, repeated and late messages, broken sessions, *)
(* abandoned calls and restarts (gateway.go, deliver and route).           *)
THEOREM AlwaysToldTheTruth == DispatchSpec => []ToldTheTruth
<1>1. Known => ToldTheTruth
  BY DEF Known, TruthInv, TrueAnswers, ToldTheTruth
<1> QED
  BY <1>1, AlwaysKnown, PTL

(* An acknowledged result is in the gateway's table, as long as no write   *)
(* failed: deliver records before it acknowledges, and the agent marks a   *)
(* record only for an acknowledgement it received.                         *)
THEOREM AckedAlwaysRecorded == DispatchSpec => []AckedIsRecorded
<1>1. Known => AckedIsRecorded
  BY DEF Known, TruthInv, TrueRecords, AckedIsRecorded
<1> QED
  BY <1>1, AlwaysKnown, PTL

-----------------------------------------------------------------------------
(* The refinement of RemoteCalls.                                          *)

Calling == [c \in Cmds |-> disp[c] # "off"]

(* At the start nothing is called.                                         *)
LEMMA CallsInitially == DispatchInit => Calls!CallsInit
BY Zenon DEF DispatchInit, Calls!CallsInit

(* A step that is none of a call's.                                        *)
LEMMA InvisibleStep ==
    ASSUME UNCHANGED <<got, outcomes>>, Calling' = Calling
    PROVE  UNCHANGED Calls!callVars
BY DEF Calling, Calls!callVars

(* Every step of the gateway and of the agent is a step of a call, of an   *)
(* execution, or invisible to activities.                                  *)
LEMMA StepIsCallStep ==
    ASSUME Known, [DispatchNext]_dispatchVars
    PROVE  [Calls!CallsNext]_(Calls!callVars)
<1> USE DEF stream, gateway, agent, journal, bounds, hist
<1>1. disp \in [Cmds -> {"off", "waiting", "sent"}] /\ disp' \in [Cmds -> {"off", "waiting", "sent"}]
  BY TypesInductive DEF Known, DispatchTypeOK
<1>2. ASSUME NEW c \in Cmds, Attempt(c) PROVE Calls!Call(c)
  BY <1>1, <1>2, Zenon DEF Attempt, Over, Calls!Call
<1>3. ASSUME NEW c \in Cmds, AttemptLost(c) PROVE Calls!Abandon(c)
  BY <1>1, <1>3, Zenon DEF AttemptLost, Calls!Abandon
<1>4. ASSUME NEW c \in Cmds, Execute(c) PROVE \E r \in Calls!Outcomes : Calls!Complete(c, r)
  BY <1>4, Zenon DEF Execute, Calls!Complete, Calls!Outcomes, Results
<1>5. CASE Deliver
  <2>1. PICK c \in Cmds : \E r \in TrueAnswers(c) : Route(c, r)
    BY <1>5, DeliverRoutes
  <2>2. PICK r \in TrueAnswers(c) : Route(c, r)
    BY <2>1
  <2>3. outcomes' = outcomes
    BY <1>5 DEF Deliver
  <2>4. CASE disp[c] = "off"
    BY <2>2, <2>3, <2>4, InvisibleStep DEF Route, Calling
  <2>5. CASE disp[c] # "off"
    <3>1. r \in Calls!Answers(c)
      BY DEF TrueAnswers, Calls!Answers
    <3>2. Calls!CallReturns(c)
      BY <1>1, <2>2, <2>3, <2>5, <3>1, ZenonT(30) DEF Route, Calls!CallReturns
    <3> QED  BY <3>2 DEF Calls!CallsNext
  <2> QED  BY <2>4, <2>5
<1>6. CASE Unregister \/ Connect
  <2>1. Calling' = Calling
    BY <1>1, <1>6 DEF Unregister, Connect, Wake, Woken, Calling
  <2> QED  BY <1>6, <2>1, InvisibleStep DEF Unregister, Connect
<1>7. ASSUME NEW c \in Cmds, Send(c) PROVE UNCHANGED Calls!callVars
  <2>1. Calling' = Calling
    BY <1>1, <1>7 DEF Send, Calling
  <2> QED  BY <1>7, <2>1, InvisibleStep DEF Send
<1>8. CASE UNCHANGED <<disp, got, outcomes>>
  BY <1>8, InvisibleStep DEF Calling
<1>9. \/ UNCHANGED <<disp, got, outcomes>>
      \/ Deliver \/ Unregister \/ Connect
      \/ \E c \in Cmds : Attempt(c) \/ AttemptLost(c) \/ Execute(c) \/ Send(c)
  BY Touched DEF Touches
<1> QED
  BY <1>2, <1>3, <1>4, <1>5, <1>6, <1>7, <1>8, <1>9 DEF Calls!CallsNext

(* Command dispatch implements remote calls: seen by the activities, every *)
(* behaviour of gateway, sessions, agent and journal is one of RemoteCalls. *)
THEOREM DispatchImplementsCalls == DispatchSpec => DispatchIsACall
<1>1. Known /\ [DispatchNext]_dispatchVars => [Calls!CallsNext]_(Calls!callVars)
  BY StepIsCallStep
<1> QED
  BY <1>1, CallsInitially, AlwaysKnown, PTL DEF DispatchSpec, DispatchIsACall, Calls!CallsSpec
=============================================================================
