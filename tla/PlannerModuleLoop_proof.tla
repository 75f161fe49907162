---------------------- MODULE PlannerModuleLoop_proof ----------------------
(***************************************************************************)
(* Theorems about PlannerModuleLoop, for any number of iterations and any  *)
(* set of faults, and about the task dispatcher its frames call in         *)
(* driverless mode (DriverlessTasks with FreespacePlanner, a specification *)
(* of its own), for any kinds of stop and any number of routes, requests,  *)
(* faults, takeovers and paths.                                            *)
(***************************************************************************)
EXTENDS PlannerModuleLoop, DriverlessTasks, SequenceTheorems, TLAPS

USE FramesAssumption DEF NoFrame, Done, Within

OutputJob(ok) == [job |-> "output", ok |-> ok]

Types ==
    /\ pc \in {"idle", "get", "wait", "run", "cleanup", "finish"}
    /\ frame \in 0..MaxFrames
    /\ pc \in {"wait", "run", "cleanup", "finish"} => frame < MaxFrames
    /\ state \in 0..Done(MaxFrames + 1)
    /\ toProto \in {"pending", "ready"}
    /\ message \in Message /\ proto \in Message
    /\ mutex \in {"free", "main"} /\ output \in NoFrame..MaxFrames
    /\ sent \in Seq(Nat) /\ good \in Seq(Nat) /\ sentStates \in Seq(Message)

Flags ==
    /\ statePublished \in BOOLEAN /\ outputPublished \in BOOLEAN
    /\ status \in BOOLEAN /\ converting \in BOOLEAN

(* Which jobs the pool holds is decided by where the main thread is and by *)
(* the three futures: the waits of the main thread let no two jobs of a    *)
(* kind be queued, and the output of an iteration is behind its state.     *)
(* What was not sent yet is at most the last iteration's trajectory.       *)
BetweenIterations ==
    pc \in {"idle", "get", "wait"} =>
        /\ statePublished = TRUE
        /\ \/ /\ toProto = "ready" /\ outputPublished = TRUE
              /\ pool = <<>> /\ sent = good
           \/ /\ outputPublished = FALSE
              /\ output \in Nat
              /\ \E ok \in BOOLEAN :
                    /\ good = IF ok THEN Append(sent, output) ELSE sent
                    /\ \/ toProto = "ready" /\ pool = <<OutputJob(ok)>>
                       \/ /\ toProto = "pending" /\ pc # "wait"
                          /\ pool = <<ToProtoJob, OutputJob(ok)>>

InIteration ==
    pc \in {"run", "cleanup", "finish"} =>
        /\ outputPublished = TRUE /\ sent = good /\ output = frame
        /\ proto = [seq |-> frame, body |-> Done(frame)]
        /\ pc = "run" => statePublished = TRUE /\ toProto = "ready" /\ pool = <<>>
        /\ pc = "cleanup" =>
              /\ toProto = "ready"
              /\ \/ statePublished = TRUE /\ pool = <<>>
                 \/ statePublished = FALSE /\ pool = <<PublishStateJob>>
        /\ pc = "finish" =>
              /\ statePublished = TRUE
              /\ \/ toProto = "ready" /\ pool = <<>>
                 \/ toProto = "pending" /\ pool = <<ToProtoJob>>

(* The number of iterations whose effects the conversion finds, while the  *)
(* main thread goes on.                                                    *)
Converted == IF pc = "finish" THEN frame + 1 ELSE frame

MessageOfState ==
    /\ toProto = "pending" =>
          /\ pc \in {"finish", "idle", "get"}
          /\ state = Done(Converted)
    /\ toProto = "ready" /\ pc \in {"finish", "idle", "get", "wait"} =>
          message.body = Done(Converted)

(* States are published in order, the one of a running iteration last.     *)
SentInOrder ==
    /\ \A i \in DOMAIN sentStates :
          /\ sentStates[i].body = Done(sentStates[i].seq)
          /\ sentStates[i].seq <= frame
          /\ sentStates[i].seq = frame =>
                pc \in {"cleanup", "finish"} /\ statePublished = TRUE
          /\ i > 1 => sentStates[i - 1].seq < sentStates[i].seq

LoopInv ==
    /\ Types /\ Flags /\ BetweenIterations /\ InIteration
    /\ MessageOfState /\ SentInOrder

-----------------------------------------------------------------------------
(* Sequences of one and two elements.                                      *)
LEMMA OneElement ==
    ASSUME NEW a
    PROVE  Head(<<a>>) = a /\ Tail(<<a>>) = <<>> /\ <<a>> # <<>>
           /\ Append(<<>>, a) = <<a>>
  OBVIOUS

LEMMA TwoElements ==
    ASSUME NEW S, NEW a \in S, NEW b \in S
    PROVE  Head(<<a, b>>) = a /\ Tail(<<a, b>>) = <<b>>
           /\ Append(<<a>>, b) = <<a, b>>
  <1>1. Head(<<a, b>>) = a
    OBVIOUS
  <1>2. Tail(<<a, b>>) = <<b>>
    <2>1. <<a, b>> \in Seq(S) /\ <<b>> \in Seq(S)
      OBVIOUS
    <2>2. Len(<<a, b>>) = 2 /\ Len(<<b>>) = 1 /\ <<a, b>>[2] = b /\ <<b>>[1] = b
      OBVIOUS
    <2>3. <<a, b>> # <<>>
      BY <2>2, EmptySeq, Zenon
    <2> QED  BY <2>1, <2>2, <2>3, HeadTailProperties, SeqEqual
  <1>3. Append(<<a>>, b) = <<a, b>>
    <2>1. <<a, b>> \in Seq(S) /\ <<a>> \in Seq(S)
      OBVIOUS
    <2>2. /\ Len(<<a, b>>) = 2 /\ Len(<<a>>) = 1
          /\ <<a, b>>[1] = a /\ <<a, b>>[2] = b /\ <<a>>[1] = a
      OBVIOUS
    <2>3. /\ Append(<<a>>, b) \in Seq(S) /\ Len(Append(<<a>>, b)) = 2
          /\ Append(<<a>>, b)[1] = a /\ Append(<<a>>, b)[2] = b
      BY <2>1, <2>2, AppendProperties
    <2>4. \A i \in 1..2 : Append(<<a>>, b)[i] = <<a, b>>[i]
      BY <2>2, <2>3
    <2> QED  BY <2>1, <2>2, <2>3, <2>4, SeqEqual, Zenon
  <1> QED BY <1>1, <1>2, <1>3

(* A message under a new sequence number, or with a new body.              *)
LEMMA MessageExcept ==
    ASSUME NEW m \in Message, NEW n \in NoFrame..MaxFrames,
           NEW b \in 0..Done(MaxFrames + 1)
    PROVE  /\ [m EXCEPT !.seq = n] = [seq |-> n, body |-> m.body]
           /\ [m EXCEPT !.body = b] = [seq |-> m.seq, body |-> b]
  BY DEF Message

LEMMA AppendIsExtension ==
    ASSUME NEW s \in Seq(Nat), NEW x \in Nat
    PROVE  IsPrefix(s, s) /\ IsPrefix(s, Append(s, x))
  <1> DEFINE t == SubSeq(Append(s, x), 1, Len(s))
  <1>1. /\ Append(s, x) \in Seq(Nat) /\ Len(Append(s, x)) = Len(s) + 1
        /\ \A i \in 1..Len(s) : Append(s, x)[i] = s[i]
    BY AppendProperties
  <1>2. t \in Seq(Nat) /\ Len(t) = Len(s) /\ \A i \in 1..Len(s) : t[i] = s[i]
    <2>1. \A i \in 1..Len(s) : Append(s, x)[i] \in Nat
      BY <1>1, ElementOfSeq
    <2>2. Len(s) \in Nat
      OBVIOUS
    <2> QED BY <1>1, <2>1, <2>2, SubSeqProperties
  <1>3. t = s
    BY <1>2, SeqEqual
  <1> QED BY <1>1, <1>3, SubSeqFull DEF IsPrefix

LEMMA LoopInit == Init => LoopInv
  <1> SUFFICES ASSUME Init PROVE LoopInv
    OBVIOUS
  <1>1. Flags
    BY Zenon DEF Init, Flags
  <1>2. Types
    BY DEF Init, Types, Message
  <1>3. BetweenIterations /\ InIteration /\ MessageOfState /\ SentInOrder
    BY DEF Init, BetweenIterations, InIteration, MessageOfState, SentInOrder,
           Converted
  <1> QED BY <1>1, <1>2, <1>3 DEF LoopInv

(* The invariant implies the three properties.                             *)
LEMMA LoopInvImplies == LoopInv => TypeOK /\ StatesHandedOn /\ TrajectoriesPublishedInOrder
  <1> SUFFICES ASSUME LoopInv PROVE TypeOK /\ StatesHandedOn /\ TrajectoriesPublishedInOrder
    OBVIOUS
  <1> USE DEF LoopInv
  <1>1. /\ pool \in Seq(Job) /\ Len(pool) <= 3
        /\ \A i, j \in DOMAIN pool : pool[i].job = pool[j].job => i = j
    <2>1. CASE pool = <<>>  BY <2>1
    <2>2. CASE pool = <<PublishStateJob>>
      BY <2>2 DEF PublishStateJob, Job
    <2>3. CASE pool = <<ToProtoJob>>
      BY <2>3 DEF ToProtoJob, Job
    <2>4. ASSUME NEW ok \in BOOLEAN, pool = <<OutputJob(ok)>>
          PROVE  <1>1!:
      BY <2>4 DEF OutputJob, Job
    <2>5. ASSUME NEW ok \in BOOLEAN, pool = <<ToProtoJob, OutputJob(ok)>>
          PROVE  <1>1!:
      BY <2>5 DEF ToProtoJob, OutputJob, Job
    <2> QED
      BY <2>1, <2>2, <2>3, <2>4, <2>5 DEF Types, BetweenIterations, InIteration
  <1>2. TypeOK
    BY <1>1 DEF TypeOK, Types, Flags
  <1>3. StatesHandedOn
    BY DEF StatesHandedOn, InIteration, SentInOrder
  <1>4. TrajectoriesPublishedInOrder
    BY AppendIsExtension DEF TrajectoriesPublishedInOrder, Types, BetweenIterations, InIteration
  <1> QED BY <1>2, <1>3, <1>4

(* One lemma for each half of the main thread's steps.                     *)
LEMMA StartSteps ==
    ASSUME LoopInv, HandlePose \/ PreprocessInput \/ BeginIteration
    PROVE  LoopInv'
  <1> USE DEF LoopInv, planner, futures, worker, history
  <1>1. CASE HandlePose
    <2>1. Flags'  BY <1>1 DEF HandlePose, Flags
    <2> QED  BY <1>1, <2>1 DEF HandlePose, Types, BetweenIterations, InIteration,
               MessageOfState, Converted, SentInOrder
  <1>2. CASE PreprocessInput
    <2>1. Flags'  BY <1>2 DEF PreprocessInput, Flags
    <2> QED  BY <1>2, <2>1 DEF PreprocessInput, GetPlannerState, Types,
               BetweenIterations, InIteration, MessageOfState, Converted, SentInOrder
  <1>3. CASE BeginIteration
    <2>1. Flags'  BY <1>3 DEF BeginIteration, Flags
    <2>0. /\ proto' = [seq |-> frame, body |-> message.body]
          /\ message.body \in 0..Done(MaxFrames + 1)
      <3>1. message \in Message /\ frame \in NoFrame..MaxFrames
        BY DEF Types
      <3>2. message.body \in 0..Done(MaxFrames + 1)
        BY <3>1 DEF Message
      <3>3. proto' = [message EXCEPT !.seq = frame]
        BY <1>3 DEF BeginIteration, CurrentSeq
      <3> QED  BY <3>1, <3>2, <3>3, MessageExcept
    <2>2. Types'  BY <1>3, <2>0 DEF BeginIteration, Types, Message
    <2>3. InIteration'
      BY <1>3, <2>0 DEF BeginIteration, PreviousOutputPublished, Types,
         BetweenIterations, InIteration, MessageOfState, Converted
    <2> QED  BY <1>3, <2>1, <2>2, <2>3 DEF BeginIteration, Types,
               BetweenIterations, MessageOfState, Converted, SentInOrder
  <1> QED BY <1>1, <1>2, <1>3

LEMMA EndSteps ==
    ASSUME LoopInv, RunMainLoop \/ Cleaner \/ FinishIteration
    PROVE  LoopInv'
  <1> USE DEF LoopInv, planner, futures, worker, history
  <1>1. CASE RunMainLoop
    <2>1. Flags'  BY <1>1 DEF RunMainLoop, Flags
    <2>2. Types'  BY <1>1 DEF RunMainLoop, Types
    <2>3. InIteration'
      BY <1>1, OneElement DEF RunMainLoop, Types, InIteration
    <2>4. SentInOrder'
      BY <1>1 DEF RunMainLoop, SentInOrder
    <2> QED  BY <1>1, <2>1, <2>2, <2>3, <2>4 DEF RunMainLoop, BetweenIterations,
               InIteration, MessageOfState
  <1>2. CASE Cleaner
    <2>1. Flags'  BY <1>2 DEF Cleaner, Flags
    <2>2. Types'  BY <1>2 DEF Cleaner, Types
    <2>3. InIteration'
      BY <1>2, OneElement DEF Cleaner, StateIsPublished, InIteration
    <2>4. MessageOfState' /\ SentInOrder'
      BY <1>2 DEF Cleaner, StateIsPublished, MessageOfState, Converted, SentInOrder
    <2> QED  BY <1>2, <2>1, <2>2, <2>3, <2>4 DEF Cleaner, BetweenIterations
  <1>3. CASE FinishIteration
    <2>1. Flags'  BY <1>3 DEF FinishIteration, Flags
    <2>2. Types'  BY <1>3 DEF FinishIteration, Types
    <2>3. BetweenIterations'
      <3>1. /\ sent = good /\ output = frame /\ frame \in Nat
            /\ \/ toProto = "ready" /\ pool = <<>>
               \/ toProto = "pending" /\ pool = <<ToProtoJob>>
        BY <1>3 DEF FinishIteration, InIteration, Types
      <3>2. PublishOutputJob = OutputJob(status)
        BY DEF PublishOutputJob, OutputJob
      <3>3. \/ toProto' = "ready" /\ pool' = <<OutputJob(status)>>
            \/ toProto' = "pending" /\ pool' = <<ToProtoJob, OutputJob(status)>>
        <4>1. ToProtoJob \in Job /\ OutputJob(status) \in Job
          BY DEF Job, ToProtoJob, OutputJob, Flags
        <4> QED
          BY <1>3, <3>1, <3>2, <4>1, OneElement, TwoElements DEF FinishIteration
      <3>4. good' = IF status THEN Append(sent', output') ELSE sent'
        BY <1>3, <3>1 DEF FinishIteration
      <3>5. /\ pc' = "idle" /\ statePublished' = TRUE /\ outputPublished' = FALSE
            /\ output' \in Nat /\ status \in BOOLEAN
        BY <1>3, <3>1 DEF FinishIteration, StateIsPublished, Flags, InIteration
      <3> QED  BY <3>3, <3>4, <3>5 DEF BetweenIterations
    <2>4. MessageOfState'
      BY <1>3 DEF FinishIteration, MessageOfState, Converted
    <2>5. SentInOrder'
      <3>1. sentStates' = sentStates /\ frame' = frame + 1 /\ frame \in Nat
        BY <1>3 DEF FinishIteration, Types
      <3>2. \A i \in DOMAIN sentStates : sentStates[i].seq \in Int
        <4> SUFFICES ASSUME NEW i \in DOMAIN sentStates
                     PROVE  sentStates[i].seq \in Int
          OBVIOUS
        <4>1. sentStates \in Seq(Message)
          BY DEF Types
        <4>2. DOMAIN sentStates = 1..Len(sentStates)
          BY <4>1, LenProperties
        <4>3. sentStates[i] \in Message
          BY <4>1, <4>2, ElementOfSeq
        <4> QED  BY <4>3 DEF Message
      <3> QED  BY <3>1, <3>2 DEF SentInOrder
    <2> QED  BY <1>3, <2>1, <2>2, <2>3, <2>4, <2>5 DEF FinishIteration, InIteration
  <1> QED BY <1>1, <1>2, <1>3

(* The conversion, whose job is alone in the pool but for the output.      *)
LEMMA ConversionSteps ==
    ASSUME LoopInv, ToProtoSeq \/ ToProtoBody
    PROVE  LoopInv'
  <1> USE DEF LoopInv, planner, futures, worker, history
  <1>1. CASE ToProtoSeq
    <2>1. Flags'  BY <1>1 DEF ToProtoSeq, Flags
    <2>2. message \in Message /\ frame \in NoFrame..MaxFrames
      BY DEF Types
    <2>3. message' = [seq |-> frame, body |-> message.body]
      <3>1. 0 \in 0..Done(MaxFrames + 1)
        OBVIOUS
      <3>2. message' = [message EXCEPT !.seq = frame]
        BY <1>1 DEF ToProtoSeq
      <3> QED  BY <2>2, <3>1, <3>2, MessageExcept
    <2>4. message.body \in 0..Done(MaxFrames + 1) /\ message'.body = message.body
      BY <2>2, <2>3 DEF Message
    <2>5. Types'
      BY <1>1, <2>2, <2>3, <2>4 DEF ToProtoSeq, Types, Message
    <2> QED  BY <1>1, <2>1, <2>4, <2>5 DEF ToProtoSeq, BetweenIterations,
               InIteration, MessageOfState, Converted, SentInOrder
  <1>2. CASE ToProtoBody
    <2>1. Flags'  BY <1>2 DEF ToProtoBody, Flags
    <2>2. message \in Message /\ state \in 0..Done(MaxFrames + 1)
      BY DEF Types
    <2>3. message' = [seq |-> message.seq, body |-> state]
      <3>1. 0 \in NoFrame..MaxFrames
        OBVIOUS
      <3>2. message' = [message EXCEPT !.body = state]
        BY <1>2 DEF ToProtoBody
      <3> QED  BY <2>2, <3>1, <3>2, MessageExcept
    <2>4. Types'
      BY <1>2, <2>2, <2>3 DEF ToProtoBody, Types, Message
    <2>5. toProto = "pending" /\ pc \in {"finish", "idle", "get"}
      BY <1>2, OneElement DEF ToProtoBody, Running, Types, BetweenIterations,
         InIteration, MessageOfState, ToProtoJob, PublishStateJob, OutputJob
    <2>6. MessageOfState'
      BY <1>2, <2>3, <2>5 DEF ToProtoBody, MessageOfState, Converted
    <2>7. InIteration'
      BY <1>2, <2>5, OneElement DEF ToProtoBody, InIteration
    <2>8. BetweenIterations'
      <3> SUFFICES ASSUME pc \in {"idle", "get"} PROVE BetweenIterations'
        BY <1>2, <2>5 DEF ToProtoBody, BetweenIterations
      <3>1. PICK ok \in BOOLEAN :
               /\ good = IF ok THEN Append(sent, output) ELSE sent
               /\ pool = <<ToProtoJob, OutputJob(ok)>>
        BY <2>5 DEF BetweenIterations
      <3>2. pool' = <<OutputJob(ok)>>
        <4>1. ToProtoJob \in Job /\ OutputJob(ok) \in Job
          BY DEF Job, ToProtoJob, OutputJob
        <4> QED  BY <1>2, <3>1, <4>1, TwoElements DEF ToProtoBody
      <3>3. /\ statePublished' = TRUE /\ outputPublished' = FALSE
            /\ output' \in Nat /\ toProto' = "ready"
            /\ good' = IF ok THEN Append(sent', output') ELSE sent'
        BY <1>2, <2>5, <3>1 DEF ToProtoBody, BetweenIterations
      <3> QED  BY <3>2, <3>3 DEF BetweenIterations
    <2>9. SentInOrder'
      BY <1>2 DEF ToProtoBody, SentInOrder
    <2> QED  BY <2>1, <2>4, <2>6, <2>7, <2>8, <2>9
  <1> QED BY <1>1, <1>2

(* The publication of the state, which the cleaner waits for.              *)
LEMMA PublishStateStep == ASSUME LoopInv, PublishPlannerState PROVE LoopInv'
  <1> USE DEF LoopInv, planner, futures, worker, history
  <1>1. /\ pc = "cleanup" /\ statePublished = FALSE
        /\ pool = <<PublishStateJob>>
    BY OneElement, TwoElements DEF PublishPlannerState, Running, Types,
       BetweenIterations, InIteration, ToProtoJob, PublishStateJob, OutputJob
  <1>2. Flags'  BY DEF PublishPlannerState, Flags
  <1>3. /\ proto = [seq |-> frame, body |-> Done(frame)] /\ proto \in Message
        /\ sentStates \in Seq(Message) /\ frame \in Int
    BY <1>1 DEF Types, InIteration
  <1>4. /\ sentStates' = Append(sentStates, proto)
        /\ sentStates' \in Seq(Message)
        /\ Len(sentStates) \in Nat /\ Len(sentStates') = Len(sentStates) + 1
        /\ \A i \in 1..Len(sentStates) : sentStates'[i] = sentStates[i]
        /\ sentStates'[Len(sentStates) + 1] = proto
        /\ DOMAIN sentStates' = 1..(Len(sentStates) + 1)
        /\ DOMAIN sentStates = 1..Len(sentStates)
    BY <1>3, AppendProperties, LenProperties DEF PublishPlannerState
  <1>5. Types'
    BY <1>4 DEF PublishPlannerState, Types
  <1>6. BetweenIterations' /\ MessageOfState'
    BY <1>1 DEF PublishPlannerState, BetweenIterations, MessageOfState, Converted
  <1>7. InIteration'
    BY <1>1, OneElement DEF PublishPlannerState, InIteration
  <1>8. SentInOrder'
    <2>1. /\ pc' = "cleanup" /\ frame' = frame /\ statePublished' = TRUE
      BY <1>1 DEF PublishPlannerState
    <2>2. \A i \in 1..Len(sentStates) : sentStates[i].seq \in Int
      <3> SUFFICES ASSUME NEW i \in 1..Len(sentStates)
                   PROVE  sentStates[i].seq \in Int
        OBVIOUS
      <3>1. sentStates[i] \in Message
        BY <1>3, ElementOfSeq
      <3> QED  BY <3>1 DEF Message
    <2>3. \A i \in 1..Len(sentStates) : sentStates[i].seq < frame
      <3> SUFFICES ASSUME NEW i \in 1..Len(sentStates)
                   PROVE  sentStates[i].seq < frame
        OBVIOUS
      <3>1. sentStates[i].seq <= frame /\ sentStates[i].seq # frame
        BY <1>1, <1>4 DEF SentInOrder
      <3>2. sentStates[i].seq \in Int /\ frame \in Int
        BY <1>3, <2>2
      <3> QED  BY <3>1, <3>2
    <2> SUFFICES ASSUME NEW i \in DOMAIN sentStates'
                 PROVE  /\ sentStates'[i].body = Done(sentStates'[i].seq)
                        /\ sentStates'[i].seq <= frame
                        /\ i > 1 => sentStates'[i - 1].seq < sentStates'[i].seq
      BY <2>1 DEF SentInOrder
    <2>4. CASE i \in 1..Len(sentStates)
      BY <1>3, <1>4, <2>4 DEF SentInOrder
    <2>5. CASE i = Len(sentStates) + 1
      <3>1. sentStates'[i] = proto
        BY <1>4, <2>5
      <3>2. proto.seq = frame /\ proto.body = Done(frame)
        BY <1>3
      <3>3. i > 1 => i - 1 \in 1..Len(sentStates)
        BY <1>4, <2>5
      <3>4. i > 1 => sentStates'[i - 1].seq < frame
        BY <1>4, <2>3, <3>3
      <3> QED  BY <1>3, <3>1, <3>2, <3>4
    <2> QED  BY <1>4, <2>4, <2>5
  <1> QED BY <1>2, <1>5, <1>6, <1>7, <1>8

(* The publication of the output, which the next iteration waits for.      *)
LEMMA PublishOutputStep == ASSUME LoopInv, PublishOutput PROVE LoopInv'
  <1> USE DEF LoopInv, planner, futures, worker, history
  <1>1. Flags'  BY DEF PublishOutput, Flags
  <1>2. PICK ok \in BOOLEAN :
           /\ pc \in {"idle", "get", "wait"}
           /\ statePublished = TRUE /\ toProto = "ready" /\ output \in Nat
           /\ good = IF ok THEN Append(sent, output) ELSE sent
           /\ pool = <<OutputJob(ok)>>
    BY OneElement, TwoElements DEF PublishOutput, Running, Types,
       BetweenIterations, InIteration, ToProtoJob, PublishStateJob, OutputJob
  <1>3. Head(pool).ok = ok /\ pool' = <<>>
    BY <1>2, OneElement DEF PublishOutput, OutputJob
  <1>4. sent' = good
    BY <1>2, <1>3 DEF PublishOutput
  <1>5. Types'
    BY <1>4 DEF PublishOutput, Types
  <1>6. BetweenIterations' /\ InIteration'
    BY <1>2, <1>3, <1>4 DEF PublishOutput, BetweenIterations, InIteration
  <1>7. MessageOfState' /\ SentInOrder'
    BY DEF PublishOutput, MessageOfState, Converted, SentInOrder
  <1> QED BY <1>1, <1>5, <1>6, <1>7

LEMMA LoopStep == LoopInv /\ [Next]_vars => LoopInv'
  <1> SUFFICES ASSUME LoopInv, [Next]_vars PROVE LoopInv'
    OBVIOUS
  <1>1. CASE Main
    BY <1>1, StartSteps, EndSteps DEF Main
  <1>2. CASE Publisher
    BY <1>2, ConversionSteps, PublishStateStep, PublishOutputStep DEF Publisher
  <1>3. CASE UNCHANGED vars
    <2> USE DEF LoopInv, vars, planner, futures, worker, history
    <2>1. Flags'  BY <1>3 DEF Flags
    <2> QED  BY <1>3, <2>1 DEF Types, BetweenIterations, InIteration,
               MessageOfState, Converted, SentInOrder
  <1> QED BY <1>1, <1>2, <1>3 DEF Next

LEMMA LoopInvariant == Spec => []LoopInv
  BY LoopInit, LoopStep, PTL DEF Spec

-----------------------------------------------------------------------------
(* At most one job of each kind is under way on the publishing thread.     *)
THEOREM JobsAreBounded == Spec => []TypeOK
  BY LoopInvariant, LoopInvImplies, PTL

(* An iteration works on the whole state of the one before, and each       *)
(* published state is the one its iteration used (planner_module.cc,       *)
(* GetPlannerState and the cleaner).                                       *)
THEOREM StateReachesNextIteration == Spec => []StatesHandedOn
  BY LoopInvariant, LoopInvImplies, PTL

(* Trajectories leave once, in order and with their own output             *)
(* (planner_module.cc, PublishOutput).                                     *)
THEOREM TrajectoriesInOrder == Spec => []TrajectoriesPublishedInOrder
  BY LoopInvariant, LoopInvImplies, PTL

-----------------------------------------------------------------------------
(* The task dispatcher: the queue.                                         *)

(* The tasks of a route that are left, and a queue that holds only them    *)
(* but for a U-turn or a blocked road at the front.                        *)
Rests(r) == Suffixes(CreatePlanTasksQueueFromRoutingResult(r))

OfMission(q, r) ==
    /\ q \in Seq(Tasks)
    /\ \A i \in DOMAIN q : q[i].route = r.id
    /\ q # <<>> => (IF OfRoute(Head(q)) THEN q ELSE Tail(q)) \in Rests(r)

Routes == [id : RouteIds, stop : Stops \union {"none"}]

(* The suffixes of the queues a route is turned into.                      *)
LEMMA SuffixesOfOne ==
    ASSUME NEW S, NEW a \in S
    PROVE  Suffixes(<<a>>) = {<<a>>, <<>>}
  <1>1. Len(<<a>>) = 1 /\ <<a>> \in Seq(S)
    OBVIOUS
  <1>2. SubSeq(<<a>>, 1, 1) = <<a>>
    BY <1>1, SubSeqFull
  <1> QED  BY <1>1, <1>2 DEF Suffixes

LEMMA SuffixesOfTwo ==
    ASSUME NEW S, NEW a \in S, NEW b \in S
    PROVE  Suffixes(<<a, b>>) = {<<a, b>>, <<b>>, <<>>}
  <1>1. Len(<<a, b>>) = 2 /\ <<a, b>> \in Seq(S) /\ <<a, b>> # <<>>
    BY EmptySeq
  <1>2. SubSeq(<<a, b>>, 1, 2) = <<a, b>>
    BY <1>1, SubSeqFull
  <1>3. SubSeq(<<a, b>>, 2, 2) = <<b>>
    BY <1>1, TailIsSubSeq, TwoElements
  <1>4. {SubSeq(<<a, b>>, l, 2) : l \in 1..2} = {<<a, b>>, <<b>>}
    BY <1>2, <1>3
  <1> QED  BY <1>1, <1>4 DEF Suffixes

(* A task put in front of a queue.                                         *)
LEMMA InFront ==
    ASSUME NEW S, NEW e, NEW s \in Seq(S)
    PROVE  /\ Head(<<e>> \o s) = e /\ Tail(<<e>> \o s) = s
           /\ <<e>> \o s # <<>>
  <1> DEFINE T == S \union {e}
  <1>1. e \in T /\ s \in Seq(T)
    BY SeqMonotonic
  <1> HIDE DEF T
  <1> QED  BY <1>1

(* A queue and its first task.                                             *)
LEMMA HeadAndTail ==
    ASSUME NEW S, NEW s \in Seq(S), s # <<>>
    PROVE  /\ Head(s) \in S /\ Tail(s) \in Seq(S)
           /\ 1 \in DOMAIN s /\ Head(s) = s[1]
           /\ \A i \in DOMAIN Tail(s) : i + 1 \in DOMAIN s /\ Tail(s)[i] = s[i + 1]
           /\ <<Head(s)>> \o Tail(s) = s
  OBVIOUS

(* A route gives one task or two, so that its rests can be listed.         *)
LEMMA RestsOfRoute ==
    ASSUME NEW r \in Routes
    PROVE  \E a \in Tasks, b \in Tasks :
             /\ a.route = r.id /\ b.route = r.id /\ OfRoute(a) /\ OfRoute(b)
             /\ a.type = "ON_ROAD_CRUISE_PLAN" => a = OnRoad(r.id)
             /\ b.type = "ON_ROAD_CRUISE_PLAN" => b = OnRoad(r.id)
             /\ \/ /\ CreatePlanTasksQueueFromRoutingResult(r) = <<a>>
                   /\ Rests(r) = {<<a>>, <<>>}
                \/ /\ CreatePlanTasksQueueFromRoutingResult(r) = <<a, b>>
                   /\ Rests(r) = {<<a, b>>, <<b>>, <<>>}
  <1>1. r.id \in RouteIds /\ 0 \in 0 .. MaxRequests
    BY DriverlessBounds DEF Routes
  <1>2. {OnRoad(r.id), Depart(r.id), Park(r.id)} \subseteq Tasks
    BY <1>1 DEF OnRoad, Depart, Park, Tasks
  <1>3. \A t \in {OnRoad(r.id), Depart(r.id), Park(r.id)} :
          /\ t.route = r.id /\ OfRoute(t)
          /\ t.type = "ON_ROAD_CRUISE_PLAN" => t = OnRoad(r.id)
    BY DEF OnRoad, Depart, Park, OfRoute
  <1>4. CASE r.stop = "off_road"
    BY <1>2, <1>3, <1>4, SuffixesOfOne
    DEF Rests, CreatePlanTasksQueueFromRoutingResult
  <1>5. CASE r.stop = "depart"
    BY <1>2, <1>3, <1>5, SuffixesOfTwo
    DEF Rests, CreatePlanTasksQueueFromRoutingResult
  <1>6. CASE r.stop = "park"
    BY <1>2, <1>3, <1>6, SuffixesOfTwo
    DEF Rests, CreatePlanTasksQueueFromRoutingResult
  <1>7. CASE r.stop \notin {"off_road", "depart", "park"}
    BY <1>2, <1>3, <1>7, SuffixesOfOne
    DEF Rests, CreatePlanTasksQueueFromRoutingResult
  <1> QED  BY <1>4, <1>5, <1>6, <1>7

(* What is left of a route is a queue of its mission.                      *)
LEMMA RestIsOfMission ==
    ASSUME NEW r \in Routes
    PROVE  /\ CreatePlanTasksQueueFromRoutingResult(r) \in Rests(r)
           /\ CreatePlanTasksQueueFromRoutingResult(r) # <<>>
           /\ \A s \in Rests(r) :
                /\ OfMission(s, r)
                /\ s # <<>> =>
                     /\ Tail(s) \in Rests(r) /\ OfRoute(Head(s))
                     /\ HeadIs(s, "ON_ROAD_CRUISE_PLAN") =>
                          Head(s) = OnRoad(r.id)
  <1> PICK a \in Tasks, b \in Tasks :
             /\ a.route = r.id /\ b.route = r.id /\ OfRoute(a) /\ OfRoute(b)
             /\ a.type = "ON_ROAD_CRUISE_PLAN" => a = OnRoad(r.id)
             /\ b.type = "ON_ROAD_CRUISE_PLAN" => b = OnRoad(r.id)
             /\ \/ /\ CreatePlanTasksQueueFromRoutingResult(r) = <<a>>
                   /\ Rests(r) = {<<a>>, <<>>}
                \/ /\ CreatePlanTasksQueueFromRoutingResult(r) = <<a, b>>
                   /\ Rests(r) = {<<a, b>>, <<b>>, <<>>}
    BY RestsOfRoute
  <1> HIDE DEF OfRoute
  <1>1. /\ Head(<<a>>) = a /\ Tail(<<a>>) = <<>> /\ <<a>> # <<>>
        /\ Head(<<b>>) = b /\ Tail(<<b>>) = <<>> /\ <<b>> # <<>>
        /\ Head(<<a, b>>) = a /\ Tail(<<a, b>>) = <<b>> /\ <<a, b>> # <<>>
    BY OneElement, TwoElements, EmptySeq
  <1>2. /\ <<a>> \in Seq(Tasks) /\ <<b>> \in Seq(Tasks) /\ <<>> \in Seq(Tasks)
        /\ <<a, b>> \in Seq(Tasks)
    OBVIOUS
  <1>3. /\ \A i \in DOMAIN <<a>> : <<a>>[i].route = r.id
        /\ \A i \in DOMAIN <<b>> : <<b>>[i].route = r.id
        /\ \A i \in DOMAIN <<a, b>> : <<a, b>>[i].route = r.id
        /\ \A i \in DOMAIN <<>> : <<>>[i].route = r.id
    OBVIOUS
  <1>4. ASSUME NEW s \in Rests(r)
        PROVE  /\ s \in Seq(Tasks) /\ \A i \in DOMAIN s : s[i].route = r.id
               /\ s # <<>> =>
                    /\ Tail(s) \in Rests(r) /\ OfRoute(Head(s))
                    /\ Head(s).type = "ON_ROAD_CRUISE_PLAN" => Head(s) = OnRoad(r.id)
    <2>1. s \in {<<a, b>>, <<a>>, <<b>>, <<>>}
      OBVIOUS
    <2>2. /\ s \in Seq(Tasks)
          /\ s # <<>> => /\ OfRoute(Head(s))
                         /\ Head(s).type = "ON_ROAD_CRUISE_PLAN" =>
                              Head(s) = OnRoad(r.id)
      BY <1>1, <1>2, <2>1
    <2>3. \A i \in DOMAIN s : s[i].route = r.id
      BY <1>3, <2>1
    <2>4. s # <<>> => Tail(s) \in Rests(r)
      BY <1>1
    <2> QED  BY <2>2, <2>3, <2>4
  <1> QED  BY <1>1, <1>4 DEF OfMission, HeadIs

(* A U-turn or blocked road in front of what is left of a route.           *)
LEMMA FrontIsOfMission ==
    ASSUME NEW r \in Routes, NEW s \in Rests(r), NEW e \in Tasks,
           e.route = r.id, ~OfRoute(e)
    PROVE  OfMission(<<e>> \o s, r)
  <1>1. s \in Seq(Tasks) /\ \A i \in DOMAIN s : s[i].route = r.id
    BY RestIsOfMission DEF OfMission
  <1>2. /\ Head(<<e>> \o s) = e /\ Tail(<<e>> \o s) = s /\ <<e>> \o s # <<>>
    BY <1>1, InFront
  <1>3. <<e>> \o s \in Seq(Tasks)
    BY <1>1
  <1>4. \A i \in DOMAIN (<<e>> \o s) : (<<e>> \o s)[i].route = r.id
    BY <1>1
  <1> QED  BY <1>2, <1>3, <1>4 DEF OfMission

(* A completed task leaves a queue of the same mission.                    *)
LEMMA TailIsOfMission ==
    ASSUME NEW r \in Routes, NEW q, OfMission(q, r), q # <<>>
    PROVE  OfMission(Tail(q), r)
  <1>1. Tail(q) \in Rests(r)
    BY RestIsOfMission DEF OfMission
  <1> QED  BY <1>1, RestIsOfMission

-----------------------------------------------------------------------------
(* The task dispatcher: what a frame makes of the queue.                   *)

(* The route the tasks are made from after the frame.                      *)
NewMission == IF Rerouted THEN route ELSE mission

(* The tasks are those of the newest route a frame with a map has seen.    *)
QueueInv ==
    /\ route \in Routes /\ mission \in Routes /\ seen \in RouteIds
    /\ requests \in 0 .. MaxRequests /\ queue \in Seq(Tasks)
    /\ queue # <<>> => map /\ mission.id = seen /\ OfMission(queue, mission)

(* The queue after a reroute, if there was one.                            *)
LEMMA SwitchedQueue ==
    ASSUME QueueInv, SwitchPlanTask # <<>>
    PROVE  /\ NewMission \in Routes /\ NewMission.id = route.id
           /\ OfMission(SwitchPlanTask, NewMission)
  <1>1. CASE Rerouted
    BY <1>1, RestIsOfMission DEF QueueInv, NewMission, SwitchPlanTask
  <1>2. CASE ~Rerouted
    BY <1>2 DEF QueueInv, NewMission, SwitchPlanTask, Rerouted
  <1> QED  BY <1>1, <1>2

(* A U-turn in place of the cruise task, or in front of it.                *)
LEMMA UturnPushed ==
    ASSUME NEW r \in Routes, r.id = route.id, NEW q, OfMission(q, r),
           NEW request, WhenUturnAhead(q, request) # q
    PROVE  \E s \in Rests(r) :
             /\ WhenUturnAhead(q, request) = <<Uturn(r.id, requests + 1)>> \o s
             /\ request \in {"uturn", "uturn_to_end"}
  <1> DEFINE e == Uturn(r.id, requests + 1)
             o == OnRoad(r.id)
  <1>1. /\ request \in {"uturn", "uturn_to_end"}
        /\ HeadIs(q, "ON_ROAD_CRUISE_PLAN")
        /\ WhenUturnAhead(q, request) =
             <<e>> \o (IF request = "uturn" THEN <<o>> ELSE <<>>) \o Tail(q)
    BY DEF WhenUturnAhead
  <1>2. q # <<>> /\ OfRoute(Head(q))
    BY <1>1 DEF HeadIs, OfRoute
  <1>3. q \in Rests(r) /\ Tail(q) \in Rests(r) /\ Head(q) = o
    BY <1>1, <1>2, RestIsOfMission DEF OfMission
  <1>4. q \in Seq(Tasks) /\ Tail(q) \in Seq(Tasks) /\ o \in Tasks
    BY <1>2, <1>3, HeadAndTail DEF OfMission
  <1> DEFINE T == Tasks \union {e}
  <1>5. q \in Seq(T) /\ Tail(q) \in Seq(T) /\ <<e>> \in Seq(T) /\ <<o>> \in Seq(T)
    BY <1>4, SeqMonotonic
  <1>6. <<o>> \o Tail(q) = q
    BY <1>2, <1>3, <1>4, HeadAndTail
  <1>7. /\ <<e>> \o <<o>> \o Tail(q) = <<e>> \o (<<o>> \o Tail(q))
        /\ <<e>> \o <<>> = <<e>>
    BY <1>5, ConcatAssociative, ConcatEmptySeq
  <1> HIDE DEF e, o, T
  <1>8. CASE request = "uturn"
    BY <1>1, <1>3, <1>6, <1>7, <1>8 DEF e
  <1>9. CASE request = "uturn_to_end"
    BY <1>1, <1>3, <1>7, <1>9 DEF e
  <1> QED  BY <1>1, <1>8, <1>9

(* The way out of a blocked road in front of the cruise task.              *)
LEMMA BlockedPushed ==
    ASSUME NEW r \in Routes, r.id = route.id, NEW q, OfMission(q, r),
           NEW request, ByOutOfBlockedRequest(q, request) # q
    PROVE  /\ q \in Rests(r) /\ request = "blocked"
           /\ ByOutOfBlockedRequest(q, request)
                = <<OutOfBlocked(r.id, requests + 1)>> \o q
  BY DEF ByOutOfBlockedRequest, HeadIs, OfRoute, OfMission

(* The tasks pushed on request.                                            *)
LEMMA RequestTasks ==
    ASSUME NEW r \in Routes, requests \in 0 .. MaxRequests, requests < MaxRequests
    PROVE  \A e \in {Uturn(r.id, requests + 1), OutOfBlocked(r.id, requests + 1)} :
             e \in Tasks /\ e.route = r.id /\ ~OfRoute(e)
  <1>1. requests + 1 \in 0 .. MaxRequests /\ r.id \in RouteIds
    BY DriverlessBounds DEF Routes
  <1> QED  BY <1>1 DEF Uturn, OutOfBlocked, Tasks, OfRoute

(* A request is counted when it changed the queue: a pushed task is never  *)
(* the one it is pushed in front of.                                       *)
LEMMA RequestIsAsked ==
    ASSUME NEW r \in Routes, r.id = route.id, NEW q, OfMission(q, r),
           NEW request
    PROVE  LET q1 == WhenUturnAhead(q, request)
               q2 == ByOutOfBlockedRequest(q1, request)
           IN  /\ q2 = q => q1 = q
               /\ requests \in 0 .. MaxRequests /\ (q2 # q => requests < MaxRequests)
                    => OfMission(q2, r) /\ (q # <<>> => q2 # <<>>)
  <1> DEFINE q1 == WhenUturnAhead(q, request)
             q2 == ByOutOfBlockedRequest(q1, request)
  <1>1. CASE q1 # q
    <2>1. PICK s \in Rests(r) : /\ q1 = <<Uturn(r.id, requests + 1)>> \o s
                                /\ request \in {"uturn", "uturn_to_end"}
      BY <1>1, UturnPushed
    <2>2. q2 = q1
      BY <2>1 DEF ByOutOfBlockedRequest
    <2>3. q1 # <<>>
      BY <2>1, RestIsOfMission, InFront DEF OfMission
    <2> QED  BY <1>1, <2>1, <2>2, <2>3, RequestTasks, FrontIsOfMission
  <1>2. CASE q1 = q
    <2>1. CASE q2 = q
      BY <1>2, <2>1
    <2>2. CASE q2 # q
      <3>1. q \in Rests(r) /\ q2 = <<OutOfBlocked(r.id, requests + 1)>> \o q
        BY <1>2, <2>2, BlockedPushed
      <3>2. q2 # <<>>
        BY <3>1, InFront DEF OfMission
      <3> QED  BY <1>2, <2>2, <3>1, <3>2, RequestTasks, FrontIsOfMission
    <2> QED  BY <2>1, <2>2
  <1> QED  BY <1>1, <1>2

(* The whole update keeps the mission; a task that is not new is the same. *)
LEMMA UpdatedQueue ==
    ASSUME QueueInv, SwitchPlanTask # <<>>, NEW u \in Updates,
           u.asked => requests < MaxRequests
    PROVE  /\ OfMission(u.queue, NewMission)
           /\ ~u.new => u.queue = queue /\ ~Rerouted
  <1>1. PICK request \in Requests, reached \in BOOLEAN :
          u = UpdatePlanTaskQueue(request, reached)
    BY DEF Updates
  <1> DEFINE q0 == SwitchPlanTask
             q1 == WhenUturnAhead(q0, request)
             q2 == ByOutOfBlockedRequest(q1, request)
             q3 == IterateToNextTask(q2, reached)
             q4 == FinishOffRoadOnTakeover(q3)
  <1>2. u = [queue |-> q4,
             new |-> Rerouted \/ q1 # q0 \/ q2 # q1 \/ q3 # q2 \/ q4 # q3,
             asked |-> q2 # q0]
    BY <1>1 DEF UpdatePlanTaskQueue
  <1>3. /\ u.queue = q4 /\ (u.asked <=> q2 # q0)
        /\ u.new <=> Rerouted \/ q1 # q0 \/ q2 # q1 \/ q3 # q2 \/ q4 # q3
    BY <1>2
  <1>4. /\ NewMission \in Routes /\ NewMission.id = route.id
        /\ OfMission(q0, NewMission)
    BY SwitchedQueue
  <1>5. requests \in 0 .. MaxRequests
    BY DEF QueueInv
  <1>6. OfMission(q2, NewMission)
    BY <1>3, <1>4, <1>5, RequestIsAsked
  <1> HIDE DEF q2
  <1>7. OfMission(q3, NewMission)
    <2>1. q3 = q2 \/ (q3 = Tail(q2) /\ Len(q2) > 1)
      BY DEF IterateToNextTask
    <2>2. Len(q2) > 1 => q2 # <<>>
      BY EmptySeq
    <2> QED  BY <1>4, <1>6, <2>1, <2>2, TailIsOfMission
  <1> HIDE DEF q3
  <1>8. OfMission(q4, NewMission)
    <2>1. q4 = q3 \/ (q4 = Tail(q3) /\ q3 # <<>>)
      BY DEF FinishOffRoadOnTakeover
    <2> QED  BY <1>4, <1>7, <2>1, TailIsOfMission
  <1> HIDE DEF q1, q4
  <1>9. ~u.new => q4 = q0 /\ ~Rerouted
    BY <1>3
  <1> QED  BY <1>3, <1>8, <1>9 DEF SwitchPlanTask

-----------------------------------------------------------------------------
(* The task dispatcher: a frame of the freespace planner.                  *)

Goals == Tasks \union {NoTask}

(* With paths there is a current path and a drive state.                   *)
OnPath(f) == HasPaths(f) => f.idx <= Len(f.paths) /\ f.drive # "UNKNOWN"

(* A plan found has a first path.                                          *)
LEMMA PlansHavePaths ==
    ASSUME NEW p \in Plans
    PROVE  Len(p) \in Nat \ {0} /\ p # NoPlan
  <1>1. PICK n \in 1 .. MaxPaths, forward \in BOOLEAN : p = ByTurns(n, forward)
    BY DEF Plans
  <1>2. n \in Nat \ {0}
    BY MaxPathsAssumption
  <1>3. p = [i \in 1 .. n |-> (i % 2 = 1) = forward]
    BY <1>1 DEF ByTurns
  <1>4. Len(p) = n
    BY <1>2, <1>3
  <1> QED  BY <1>2, <1>4, EmptySeq DEF NoPlan

(* A state by its fields.                                                  *)
LEMMA StateFields ==
    ASSUME NEW f \in FreespaceStates(Goals)
    PROVE  /\ f.goal \in Goals /\ f.plannedFor \in Goals
           /\ f.paths \in Plans \union {NoPlan} /\ f.idx \in Nat \ {0}
           /\ f.drive \in DriveStates /\ f.unsafe \in BOOLEAN
           /\ f = [goal |-> f.goal, plannedFor |-> f.plannedFor, paths |-> f.paths,
                   idx |-> f.idx, drive |-> f.drive, unsafe |-> f.unsafe]
  BY DEF FreespaceStates

(* A new plan is for the goal in the state; without one the old one stays. *)
LEMMA NewPathState ==
    ASSUME NEW f \in FreespaceStates(Goals), OnPath(f), NEW in,
           in.plan \in Plans \union {NoPlan}, ~NoPath(f, in)
    PROVE  LET w == WithNewPath(f, in)
           IN  /\ w \in FreespaceStates(Goals)
               /\ HasPaths(w) /\ w.idx <= Len(w.paths) /\ w.drive # "UNKNOWN"
               /\ w.goal = f.goal
               /\ w.plannedFor = IF NewPath(f, in) THEN f.goal ELSE f.plannedFor
  <1>1. CASE NewPath(f, in)
    <2>1. in.plan \in Plans
      BY <1>1 DEF NewPath
    <2>2. 1 <= Len(in.plan) /\ in.plan # NoPlan
      BY <2>1, PlansHavePaths
    <2>3. WithNewPath(f, in) = [f EXCEPT !.paths = in.plan, !.plannedFor = f.goal,
                                         !.idx = 1, !.drive = "SWITCHING_TO_NEXT"]
      BY <1>1 DEF WithNewPath
    <2>4. WithNewPath(f, in) =
            [goal |-> f.goal, plannedFor |-> f.goal, paths |-> in.plan, idx |-> 1,
             drive |-> "SWITCHING_TO_NEXT", unsafe |-> f.unsafe]
      BY <2>3, StateFields
    <2>5. "SWITCHING_TO_NEXT" \in DriveStates /\ 1 \in Nat \ {0}
      BY DEF DriveStates
    <2>6. WithNewPath(f, in) \in FreespaceStates(Goals)
      BY <2>1, <2>4, <2>5, StateFields DEF FreespaceStates
    <2> QED  BY <1>1, <2>2, <2>4, <2>6 DEF HasPaths
  <1>2. CASE ~NewPath(f, in)
    <2>1. WithNewPath(f, in) = f
      BY <1>2 DEF WithNewPath
    <2>2. HasPaths(f)
      BY <1>2 DEF NoPath, NewPath, MaybeReplan
    <2> QED  BY <1>2, <2>1, <2>2 DEF OnPath
  <1> QED  BY <1>1, <1>2

(* The path manager's two fields.                                          *)
LEMMA Driven ==
    ASSUME NEW w \in FreespaceStates(Goals), NEW i, NEW d
    PROVE  [w EXCEPT !.idx = i, !.drive = d] =
             [goal |-> w.goal, plannedFor |-> w.plannedFor, paths |-> w.paths,
              idx |-> i, drive |-> d, unsafe |-> w.unsafe]
  <1>1. w = [goal |-> w.goal, plannedFor |-> w.plannedFor, paths |-> w.paths,
             idx |-> w.idx, drive |-> w.drive, unsafe |-> w.unsafe]
    BY StateFields
  <1> DEFINE e == w.goal  p == w.plannedFor  q == w.paths  j == w.idx
             s == w.drive  u == w.unsafe
  <1> HIDE DEF e, p, q, j, s, u
  <1>2. w = [goal |-> e, plannedFor |-> p, paths |-> q, idx |-> j, drive |-> s,
             unsafe |-> u]
    BY <1>1 DEF e, p, q, j, s, u
  <1>3. [[goal |-> e, plannedFor |-> p, paths |-> q, idx |-> j, drive |-> s,
          unsafe |-> u] EXCEPT !.idx = i] =
            [goal |-> e, plannedFor |-> p, paths |-> q, idx |-> i, drive |-> s,
             unsafe |-> u]
    OBVIOUS
  <1>4. [[goal |-> e, plannedFor |-> p, paths |-> q, idx |-> i, drive |-> s,
          unsafe |-> u] EXCEPT !.drive = d] =
            [goal |-> e, plannedFor |-> p, paths |-> q, idx |-> i, drive |-> d,
             unsafe |-> u]
    OBVIOUS
  <1>5. [w EXCEPT !.idx = i, !.drive = d] =
            [goal |-> e, plannedFor |-> p, paths |-> q, idx |-> i, drive |-> d,
             unsafe |-> u]
    BY <1>2, <1>3, <1>4
  <1> QED  BY <1>5 DEF e, p, q, u

(* The path manager keeps the paths and whom they are for.                 *)
LEMMA ManagedState ==
    ASSUME NEW w \in FreespaceStates(Goals), HasPaths(w), w.idx <= Len(w.paths),
           w.drive # "UNKNOWN", NEW in
    PROVE  LET m == UpdatePathManagerState(w, in)
           IN  /\ m \in FreespaceStates(Goals)
               /\ HasPaths(m) /\ m.idx <= Len(m.paths) /\ m.drive # "UNKNOWN"
               /\ m.goal = w.goal /\ m.plannedFor = w.plannedFor
  <1>1. Len(w.paths) \in Nat \ {0} /\ w.idx \in Nat \ {0}
    BY PlansHavePaths DEF FreespaceStates, HasPaths
  <1>2. \A d \in DriveStates \ {"UNKNOWN"} : \A i \in 1 .. Len(w.paths) :
          LET m == [w EXCEPT !.idx = i, !.drive = d]
          IN  /\ m \in FreespaceStates(Goals)
              /\ HasPaths(m) /\ m.idx <= Len(m.paths) /\ m.drive # "UNKNOWN"
              /\ m.goal = w.goal /\ m.plannedFor = w.plannedFor
    <2> SUFFICES ASSUME NEW d \in DriveStates \ {"UNKNOWN"},
                        NEW i \in 1 .. Len(w.paths)
                 PROVE  LET m == [w EXCEPT !.idx = i, !.drive = d]
                        IN  /\ m \in FreespaceStates(Goals)
                            /\ HasPaths(m) /\ m.idx <= Len(m.paths)
                            /\ m.drive # "UNKNOWN"
                            /\ m.goal = w.goal /\ m.plannedFor = w.plannedFor
      OBVIOUS
    <2>1. [w EXCEPT !.idx = i, !.drive = d] =
            [goal |-> w.goal, plannedFor |-> w.plannedFor, paths |-> w.paths,
             idx |-> i, drive |-> d, unsafe |-> w.unsafe]
      BY Driven
    <2>2. i \in Nat \ {0} /\ i <= Len(w.paths)
      BY <1>1
    <2>3. [w EXCEPT !.idx = i, !.drive = d] \in FreespaceStates(Goals)
      BY <2>1, <2>2, StateFields DEF FreespaceStates
    <2> QED  BY <2>1, <2>2, <2>3 DEF HasPaths
  <1>3. UpdatePathManagerState(w, in) = w \/
        \E d \in DriveStates \ {"UNKNOWN"}, i \in 1 .. Len(w.paths) :
          UpdatePathManagerState(w, in) = [w EXCEPT !.idx = i, !.drive = d]
    <2>1. {"SWITCHING_TO_NEXT", "DRIVING", "CENTER_STEER", "REACH_FINAL_GOAL"}
            \subseteq DriveStates \ {"UNKNOWN"}
      BY DEF DriveStates
    <2>2. \A d : [w EXCEPT !.drive = d] = [w EXCEPT !.idx = w.idx, !.drive = d]
      BY DEF FreespaceStates
    <2>3. w.idx \in 1 .. Len(w.paths)
      BY <1>1
    <2>4. w.idx < Len(w.paths) => w.idx + 1 \in 1 .. Len(w.paths)
      BY <1>1
    <2>5. EndOfPath(w, in) =
            IF w.idx < Len(w.paths)
            THEN [w EXCEPT !.idx = w.idx + 1, !.drive = "SWITCHING_TO_NEXT"]
            ELSE [w EXCEPT !.drive = IF AtRest(in) THEN "REACH_FINAL_GOAL"
                                                   ELSE "CENTER_STEER"]
      BY DEF EndOfPath
    <2>6. \E d \in DriveStates \ {"UNKNOWN"}, i \in 1 .. Len(w.paths) :
            EndOfPath(w, in) = [w EXCEPT !.idx = i, !.drive = d]
      BY <2>1, <2>2, <2>3, <2>4, <2>5
    <2>7. \/ UpdatePathManagerState(w, in) = w
          \/ UpdatePathManagerState(w, in) = EndOfPath(w, in)
          \/ UpdatePathManagerState(w, in) = [w EXCEPT !.drive = "DRIVING"]
          \/ UpdatePathManagerState(w, in) = [w EXCEPT !.drive = "REACH_FINAL_GOAL"]
      BY DEF UpdatePathManagerState
    <2> QED  BY <2>1, <2>2, <2>3, <2>6, <2>7
  <1> QED  BY <1>2, <1>3

(* A frame keeps the goal; the paths are those searched for it when there  *)
(* are new ones, and otherwise those of before.                            *)
LEMMA FreespaceFrame ==
    ASSUME NEW f \in FreespaceStates(Goals), OnPath(f), NEW in,
           in.plan \in Plans \union {NoPlan}
    PROVE  LET g == RunFreespacePlanner(f, in)
           IN  /\ g \in FreespaceStates(Goals) /\ OnPath(g)
               /\ g.goal = f.goal
               /\ g.plannedFor = IF NewPath(f, in) THEN f.goal ELSE f.plannedFor
               /\ HasPaths(g) => HasPaths(f) \/ NewPath(f, in)
  <1>1. CASE NoPath(f, in)
    BY <1>1 DEF NoPath, NewPath, RunFreespacePlanner
  <1>2. CASE ~NoPath(f, in)
    <2> DEFINE w == WithNewPath(f, in)
               v == [w EXCEPT !.unsafe = @ /\ ~PathNotSafe(f, in)]
               m == UpdatePathManagerState(v, in)
               b == m.drive = "DRIVING" /\ in.speed = "blocked" /\ ~in.forceStop
    <2>1. /\ w \in FreespaceStates(Goals)
          /\ HasPaths(w) /\ w.idx <= Len(w.paths) /\ w.drive # "UNKNOWN"
          /\ w.goal = f.goal
          /\ w.plannedFor = IF NewPath(f, in) THEN f.goal ELSE f.plannedFor
      BY <1>2, NewPathState
    <2> HIDE DEF w
    <2>2. \A u \in BOOLEAN, x \in FreespaceStates(Goals) :
            LET y == [x EXCEPT !.unsafe = u]
            IN  /\ y \in FreespaceStates(Goals)
                /\ y.paths = x.paths /\ y.idx = x.idx /\ y.drive = x.drive
                /\ y.goal = x.goal /\ y.plannedFor = x.plannedFor
      BY DEF FreespaceStates
    <2>3. (w.unsafe /\ ~PathNotSafe(f, in)) \in BOOLEAN
      OBVIOUS
    <2>4. /\ v \in FreespaceStates(Goals)
          /\ HasPaths(v) /\ v.idx <= Len(v.paths) /\ v.drive # "UNKNOWN"
          /\ v.goal = w.goal /\ v.plannedFor = w.plannedFor
      <3>1. /\ v \in FreespaceStates(Goals)
            /\ v.paths = w.paths /\ v.idx = w.idx /\ v.drive = w.drive
            /\ v.goal = w.goal /\ v.plannedFor = w.plannedFor
        BY <2>1, <2>2, <2>3
      <3> QED  BY <2>1, <3>1 DEF HasPaths
    <2>5. GeneratePath(f, in) = m
      BY DEF GeneratePath, w
    <2> HIDE DEF v
    <2>6. /\ m \in FreespaceStates(Goals)
          /\ HasPaths(m) /\ m.idx <= Len(m.paths) /\ m.drive # "UNKNOWN"
          /\ m.goal = v.goal /\ m.plannedFor = v.plannedFor
      BY <2>4, ManagedState
    <2> HIDE DEF m
    <2>7. b \in BOOLEAN
      OBVIOUS
    <2>8. UpdatePathUnsafeTime(m, in) = [m EXCEPT !.unsafe = b]
      BY DEF UpdatePathUnsafeTime
    <2> HIDE DEF b
    <2>9. LET y == [m EXCEPT !.unsafe = b]
          IN  /\ y \in FreespaceStates(Goals)
              /\ y.paths = m.paths /\ y.idx = m.idx /\ y.drive = m.drive
              /\ y.goal = m.goal /\ y.plannedFor = m.plannedFor
      BY <2>2, <2>6, <2>7
    <2>10. RunFreespacePlanner(f, in) \in {m, [m EXCEPT !.unsafe = b]}
      BY <1>2, <2>5, <2>8 DEF RunFreespacePlanner
    <2>11. HasPaths(f) \/ NewPath(f, in)
      BY <1>2 DEF NoPath, NewPath, MaybeReplan
    <2> QED  BY <2>1, <2>4, <2>6, <2>9, <2>10, <2>11 DEF OnPath, HasPaths
  <1> QED  BY <1>1, <1>2

(* Whatever a frame publishes is a gear.                                   *)
LEMMA OutputGearIsGear ==
    ASSUME NEW before, NEW after, NEW in, in.gear \in Gears, in.endGear \in Gears
    PROVE  OutputGear(before, after, in) \in Gears
  BY DEF OutputGear, GenerateOutputGearPosition, PathGear, Direction, Gears

-----------------------------------------------------------------------------
(* The task dispatcher: its invariant.                                     *)

(* What a freespace task finds: unless missed says otherwise, the goal is  *)
(* its own, and so are the paths.                                          *)
PlanInv ==
    queue # <<>> /\ IsFreespacePlanTask(Head(queue)) /\ ~missed =>
        /\ fs.goal = Head(queue)
        /\ HasPaths(fs) => fs.plannedFor = Head(queue)

TaskInv == TasksTypeOK /\ QueueInv /\ PlanInv

(* The steps of the router, the map, the driver and the vehicle.           *)
Around ==
    \/ PublishRoute \/ ResetRoute \/ LoadMap
    \/ Engage \/ EndAutoDrive \/ ShiftGear \/ DriverShiftsGear

(* The types the lemmas above ask for.                                     *)
LEMMA TasksTypes ==
    ASSUME TasksTypeOK
    PROVE  /\ route \in Routes /\ mission \in Routes /\ route.id \in RouteIds
           /\ fs \in FreespaceStates(Goals) /\ OnPath(fs)
           /\ gear \in Gears
  BY DEF TasksTypeOK, Routes, Goals, OnPath

(* A frame's request is counted.                                           *)
LEMMA AskedIsBounded ==
    ASSUME requests \in 0 .. MaxRequests, NEW u, Ask(u)
    PROVE  /\ requests' \in 0 .. MaxRequests
           /\ u.asked => requests < MaxRequests
  BY DriverlessBounds DEF Ask

(* A frame's fault is counted.                                             *)
LEMMA FaultIsBounded ==
    ASSUME faults \in 0 .. MaxFaults, Fault
    PROVE  faults' \in 0 .. MaxFaults
  BY DriverlessBounds DEF Fault

(* The goal is in the state before the planner runs.                       *)
LEMMA StateWithGoal ==
    ASSUME TasksTypeOK, NEW task \in Tasks, NEW reset
    PROVE  LET f == [fs EXCEPT !.goal = GoalOf(task, reset)]
           IN  /\ f \in FreespaceStates(Goals) /\ OnPath(f)
               /\ f.goal = GoalOf(task, reset)
               /\ f.paths = fs.paths /\ f.plannedFor = fs.plannedFor
  <1>1. fs \in FreespaceStates(Goals) /\ OnPath(fs)
    BY TasksTypes
  <1>2. GoalOf(task, reset) \in Goals
    BY <1>1 DEF GoalOf, Goals, FreespaceStates
  <1>3. \A g \in Goals :
          LET f == [fs EXCEPT !.goal = g]
          IN  /\ f \in FreespaceStates(Goals) /\ f.goal = g
              /\ f.paths = fs.paths /\ f.plannedFor = fs.plannedFor
              /\ f.idx = fs.idx /\ f.drive = fs.drive
    BY <1>1 DEF FreespaceStates
  <1> QED  BY <1>1, <1>2, <1>3 DEF OnPath, HasPaths

(* What a frame with a freespace task leaves.                              *)
LEMMA TaskFrame ==
    ASSUME TasksTypeOK, NEW task \in Tasks, NEW reset \in BOOLEAN,
           NEW in \in InputsOf(task, reset), RunFreespaceTask(task, in)
    PROVE  LET f == [fs EXCEPT !.goal = GoalOf(task, reset)]
           IN  /\ in.reset = reset
               /\ fs' \in FreespaceStates(Goals) /\ OnPath(fs')
               /\ fs'.goal = GoalOf(task, reset)
               /\ fs'.plannedFor = IF NewPath(f, in) THEN GoalOf(task, reset)
                                                     ELSE fs.plannedFor
               /\ HasPaths(fs') => HasPaths(f) \/ NewPath(f, in)
               /\ command' \in Gears
               /\ missed' = IF reset \/ (NewPath(f, in) /\ GoalOf(task, reset) = task)
                            THEN HasPaths(f) /\ ~NewPath(f, in) ELSE missed
  <1> DEFINE g == GoalOf(task, reset)
             f == [fs EXCEPT !.goal = g]
  <1>1. /\ in.reset = reset /\ in.plan \in Plans \union {NoPlan}
        /\ in.gear = gear /\ in.endGear = EndGearOf(task)
    BY DEF InputsOf
  <1>2. /\ f \in FreespaceStates(Goals) /\ OnPath(f) /\ f.goal = g
        /\ f.paths = fs.paths /\ f.plannedFor = fs.plannedFor
    BY StateWithGoal
  <1>3. /\ fs' = RunFreespacePlanner(f, in)
        /\ command' = OutputGear(f, fs', in)
        /\ missed' = IF reset \/ (NewPath(f, in) /\ f.goal = task)
                     THEN HasPaths(f) /\ ~NewPath(f, in) ELSE missed
    BY <1>1 DEF RunFreespaceTask
  <1> HIDE DEF g, f
  <1>4. in.gear \in Gears /\ in.endGear \in Gears
    BY <1>1, TasksTypes DEF EndGearOf, Gears
  <1>5. command' \in Gears
    BY <1>3, <1>4, OutputGearIsGear
  <1>6. /\ fs' \in FreespaceStates(Goals) /\ OnPath(fs') /\ fs'.goal = f.goal
        /\ fs'.plannedFor = IF NewPath(f, in) THEN f.goal ELSE f.plannedFor
        /\ HasPaths(fs') => HasPaths(f) \/ NewPath(f, in)
    BY <1>1, <1>2, <1>3, FreespaceFrame
  <1> QED  BY <1>1, <1>2, <1>3, <1>5, <1>6 DEF g, f

(* Before the first route.                                                 *)
LEMMA InitialTasks ==
    ASSUME TasksInit
    PROVE  TaskInv
  <1>1. NoTask \in Goals /\ NoRoute \in Routes /\ 0 \in RouteIds
    BY DriverlessBounds DEF Goals, NoRoute, Routes, RouteIds
  <1>2. fs \in FreespaceStates(Goals) /\ ~HasPaths(fs)
    BY <1>1 DEF TasksInit, NoFreespaceState, FreespaceStates, DriveStates, HasPaths
  <1>3. TasksTypeOK
    <2>1. {standby, map, missed, ended} \subseteq BOOLEAN
      BY DEF TasksInit
    <2>2. /\ autonomy \in {"READY_TO_AUTO_DRIVE", "AUTO_DRIVE", "EMERGENCY_TO_TAKEOVER"}
          /\ {gear, command} \subseteq Gears
      BY DEF TasksInit, Gears
    <2>3. /\ requests \in 0 .. MaxRequests /\ faults \in 0 .. MaxFaults
          /\ takeovers \in 0 .. MaxTakeovers /\ queue \in Seq(Tasks)
      BY DriverlessBounds DEF TasksInit
    <2> QED  BY <1>1, <1>2, <2>1, <2>2, <2>3
             DEF TasksInit, TasksTypeOK, Goals, Routes
  <1>4. QueueInv
    BY <1>1, DriverlessBounds DEF TasksInit, QueueInv
  <1> QED  BY <1>3, <1>4 DEF TaskInv, PlanInv, TasksInit

(* A frame: the queue it leaves is what is left of the newest mission.     *)
LEMMA FrameQueue ==
    ASSUME TaskInv, Frame, map, SwitchPlanTask # <<>>, map' = map, route' = route,
           requests' \in 0 .. MaxRequests, NEW q, TakeQueue(q),
           OfMission(q, NewMission)
    PROVE  QueueInv'
  <1>1. NewMission \in Routes /\ NewMission.id = route.id
    BY SwitchedQueue DEF TaskInv
  <1>2. mission' = NewMission /\ seen' = route.id /\ queue' = q
    BY DEF TakeQueue, NewMission
  <1>3. route' \in Routes /\ route.id \in RouteIds
    BY TasksTypes DEF TaskInv
  <1>4. queue' \in Seq(Tasks)
    BY <1>2 DEF OfMission
  <1>5. OfMission(queue', mission')
    BY <1>2
  <1> QED  BY <1>1, <1>2, <1>3, <1>4, <1>5 DEF QueueInv, OfMission

(* Every step leaves what is left of the newest mission seen.              *)
LEMMA QueueStep ==
    ASSUME TaskInv, [TasksNext]_taskVars
    PROVE  QueueInv'
  <1>1. ASSUME UNCHANGED <<dispatcher, requests>>, map => map', route' \in Routes
        PROVE  QueueInv'
    BY <1>1 DEF TaskInv, QueueInv, dispatcher, OfMission
  <1>2. route \in Routes /\ requests \in 0 .. MaxRequests
    BY TasksTypes DEF TaskInv, QueueInv
  <1>3. CASE PublishRoute
    <2>1. PICK s \in Stops : route' = [id |-> route.id + 1, stop |-> s]
      BY <1>3 DEF PublishRoute
    <2>2. route.id + 1 \in RouteIds
      BY <1>2, <1>3, DriverlessBounds DEF PublishRoute, Routes, RouteIds
    <2> QED  BY <1>1, <1>3, <2>1, <2>2 DEF PublishRoute, Routes, counters
  <1>4. CASE UNCHANGED <<route, dispatcher, requests>> /\ (map => map')
    BY <1>1, <1>2, <1>4
  <1>5. CASE ResetRoute \/ LoadMap \/ Engage \/ EndAutoDrive \/ ShiftGear \/ DriverShiftsGear
    BY <1>4, <1>5 DEF ResetRoute, LoadMap, Engage, EndAutoDrive, ShiftGear,
                      DriverShiftsGear, source, counters
  <1>6. CASE NoMap
    <2>1. queue = <<>> /\ queue' = <<>>
      BY <1>6 DEF NoMap, TaskInv, QueueInv
    <2>2. route' = route /\ mission' = mission /\ requests' = requests /\ seen' = route.id
      BY <1>6 DEF NoMap, source, counters
    <2> QED  BY <1>2, <2>1, <2>2 DEF TaskInv, QueueInv, Routes
  <1>7. CASE NoLocalization
    <2>1. OfMission(SwitchPlanTask, NewMission)
      BY <1>7, SwitchedQueue DEF NoLocalization, TaskInv
    <2>2. /\ Frame /\ map /\ SwitchPlanTask # <<>> /\ map' = map /\ route' = route
          /\ requests' = requests /\ TakeQueue(SwitchPlanTask)
      BY <1>7 DEF NoLocalization, source
    <2> QED  BY <1>2, <2>1, <2>2, FrameQueue
  <1>8. CASE LastTaskTaken \/ PreparationFails \/ NoFreespaceMap \/ RunCruise
               \/ RunFreespace
    <2>1. /\ Frame /\ map /\ SwitchPlanTask # <<>> /\ map' = map /\ route' = route
          /\ \E u \in Updates : Ask(u) /\ TakeQueue(u.queue)
      BY <1>8 DEF LastTaskTaken, PreparationFails, NoFreespaceMap, RunCruise,
                   RunFreespace, source
    <2>2. PICK u \in Updates : Ask(u) /\ TakeQueue(u.queue)
      BY <2>1
    <2>3. /\ requests' \in 0 .. MaxRequests
          /\ u.asked => requests < MaxRequests
      BY <1>2, <2>2, AskedIsBounded
    <2>4. OfMission(u.queue, NewMission)
      BY <2>1, <2>3, UpdatedQueue DEF TaskInv
    <2> QED  BY <2>1, <2>2, <2>3, <2>4, FrameQueue
  <1>9. CASE UNCHANGED taskVars
    BY <1>4, <1>9 DEF taskVars, source, counters
  <1> QED  BY <1>3, <1>5, <1>6, <1>7, <1>8, <1>9 DEF TasksNext

(* Every step leaves the front task its goal, or sets missed.              *)
LEMMA PlanStep ==
    ASSUME TaskInv, [TasksNext]_taskVars
    PROVE  PlanInv'
  <1>1. ASSUME UNCHANGED <<queue, fs>>, missed' = missed
        PROVE  PlanInv'
    BY <1>1 DEF TaskInv, PlanInv
  <1>2. CASE Around \/ NoMap \/ UNCHANGED taskVars
    BY <1>1, <1>2 DEF Around, PublishRoute, ResetRoute, LoadMap, Engage, EndAutoDrive,
                      ShiftGear, DriverShiftsGear, NoMap, dispatcher, taskVars
  <1>3. CASE NoLocalization
    <2>1. ASSUME ~missed'
          PROVE  UNCHANGED <<queue, fs>> /\ ~missed
      BY <1>3, <2>1 DEF NoLocalization, TakeQueue, SwitchPlanTask
    <2> QED  BY <2>1 DEF TaskInv, PlanInv
  <1>4. CASE LastTaskTaken
    BY <1>4 DEF LastTaskTaken, TakeQueue, PlanInv
  <1>5. ASSUME NEW u \in Updates, Ask(u), SwitchPlanTask # <<>>, ~u.new
        PROVE  u.queue = queue
    BY <1>5, AskedIsBounded, UpdatedQueue DEF TaskInv, QueueInv
  <1>6. CASE PreparationFails
    <2>1. PICK u \in Updates : /\ Ask(u) /\ TakeQueue(u.queue)
                               /\ missed' = (missed \/ u.new)
      BY <1>6 DEF PreparationFails
    <2>2. SwitchPlanTask # <<>> /\ fs' = fs /\ queue' = u.queue
      BY <1>6, <2>1 DEF PreparationFails, TakeQueue
    <2>3. ASSUME ~missed'
          PROVE  ~missed /\ ~u.new
      BY <2>1, <2>3
    <2>4. ~missed' => queue' = queue
      BY <1>5, <2>1, <2>2, <2>3
    <2> QED  BY <2>2, <2>3, <2>4 DEF TaskInv, PlanInv
  <1>7. CASE NoFreespaceMap
    <2>1. PICK u \in Updates :
            /\ Ask(u) /\ u.queue # <<>> /\ TakeQueue(u.queue)
            /\ fs' = [fs EXCEPT !.goal = GoalOf(Head(u.queue), u.new \/ ~IsAutoDrive)]
            /\ missed' = (missed \/ u.new)
      BY <1>7 DEF NoFreespaceMap
    <2> DEFINE task == Head(u.queue)
               reset == u.new \/ ~IsAutoDrive
    <2>2. SwitchPlanTask # <<>> /\ queue' = u.queue
      BY <1>7, <2>1 DEF NoFreespaceMap, TakeQueue
    <2>3. task \in Tasks
      <3>1. queue' \in Seq(Tasks)
        BY QueueStep DEF QueueInv
      <3> QED  BY <2>1, <2>2, <3>1, HeadAndTail
    <2>4. /\ fs'.goal = GoalOf(task, reset) /\ fs'.plannedFor = fs.plannedFor
          /\ HasPaths(fs') => HasPaths(fs)
      BY <2>1, <2>3, StateWithGoal DEF TaskInv, HasPaths
    <2>5. ASSUME ~missed', IsFreespacePlanTask(task)
          PROVE  fs'.goal = task /\ (HasPaths(fs') => fs'.plannedFor = task)
      <3>1. ~missed /\ ~u.new
        BY <2>1, <2>5
      <3>2. u.queue = queue
        BY <1>5, <2>1, <2>2, <3>1
      <3>3. fs.goal = task /\ (HasPaths(fs) => fs.plannedFor = task)
        BY <2>1, <2>5, <3>1, <3>2 DEF TaskInv, PlanInv
      <3>4. GoalOf(task, reset) = task
        BY <3>3 DEF GoalOf
      <3> QED  BY <2>4, <3>3, <3>4
    <2> QED  BY <2>2, <2>5 DEF PlanInv
  <1>8. CASE RunCruise
    <2>1. ~IsFreespacePlanTask(Head(queue'))
      BY <1>8 DEF RunCruise, TakeQueue, HeadIs, IsFreespacePlanTask
    <2> QED  BY <2>1 DEF PlanInv
  <1>9. CASE RunFreespace
    <2>1. PICK u \in Updates :
            /\ Ask(u) /\ u.queue # <<>> /\ IsFreespacePlanTask(Head(u.queue))
            /\ TakeQueue(u.queue)
            /\ \E in \in InputsOf(Head(u.queue), u.new \/ ~IsAutoDrive) :
                 RunFreespaceTask(Head(u.queue), in)
      BY <1>9 DEF RunFreespace
    <2> DEFINE task == Head(u.queue)
               reset == u.new \/ ~IsAutoDrive
               f == [fs EXCEPT !.goal = GoalOf(task, reset)]
    <2>2. PICK in \in InputsOf(task, reset) : RunFreespaceTask(task, in)
      BY <2>1
    <2>3. SwitchPlanTask # <<>> /\ queue' = u.queue
      BY <1>9, <2>1 DEF RunFreespace, TakeQueue
    <2>4. task \in Tasks
      <3>1. queue' \in Seq(Tasks)
        BY QueueStep DEF QueueInv
      <3> QED  BY <2>1, <2>3, <3>1, HeadAndTail
    <2>5. /\ in.reset = reset
          /\ fs'.goal = GoalOf(task, reset)
          /\ fs'.plannedFor = IF NewPath(f, in) THEN GoalOf(task, reset)
                                                ELSE fs.plannedFor
          /\ HasPaths(fs') => HasPaths(f) \/ NewPath(f, in)
          /\ missed' = IF reset \/ (NewPath(f, in) /\ GoalOf(task, reset) = task)
                       THEN HasPaths(f) /\ ~NewPath(f, in) ELSE missed
      BY <2>2, <2>4, TaskFrame DEF TaskInv
    <2>6. HasPaths(f) => HasPaths(fs)
      BY <2>4, StateWithGoal DEF TaskInv, HasPaths
    <2>7. ASSUME ~missed'
          PROVE  fs'.goal = task /\ (HasPaths(fs') => fs'.plannedFor = task)
      <3>1. CASE reset
        <4>1. GoalOf(task, reset) = task
          BY <3>1 DEF GoalOf
        <4>2. ~(HasPaths(f) /\ ~NewPath(f, in))
          BY <2>5, <2>7, <3>1
        <4> QED  BY <2>5, <4>1, <4>2
      <3>2. CASE NewPath(f, in) /\ GoalOf(task, reset) = task
        BY <2>5, <3>2
      <3>3. CASE ~reset /\ ~(NewPath(f, in) /\ GoalOf(task, reset) = task)
        <4>1. ~missed
          BY <2>5, <2>7, <3>3
        <4>2. u.queue = queue
          BY <1>5, <2>1, <2>3, <3>3
        <4>3. fs.goal = task /\ (HasPaths(fs) => fs.plannedFor = task)
          BY <2>1, <4>1, <4>2 DEF TaskInv, PlanInv
        <4>4. GoalOf(task, reset) = task
          BY <4>3 DEF GoalOf
        <4> QED  BY <2>5, <2>6, <3>3, <4>3, <4>4
      <3> QED  BY <3>1, <3>2, <3>3
    <2> QED  BY <2>3, <2>7 DEF PlanInv
  <1> QED  BY <1>2, <1>3, <1>4, <1>6, <1>7, <1>8, <1>9 DEF TasksNext, Around

(* The types that neither the queue nor the planner's state is part of.    *)
TaskFlags ==
    /\ standby \in BOOLEAN /\ map \in BOOLEAN /\ missed \in BOOLEAN /\ ended \in BOOLEAN
    /\ autonomy \in {"READY_TO_AUTO_DRIVE", "AUTO_DRIVE", "EMERGENCY_TO_TAKEOVER"}
    /\ gear \in Gears

TaskCounts == faults \in 0 .. MaxFaults /\ takeovers \in 0 .. MaxTakeovers

Driving == command \in Gears /\ fs \in FreespaceStates(Goals) /\ OnPath(fs)

(* The type invariant by its parts.                                        *)
LEMMA TypesOfTasks ==
    TasksTypeOK <=>
        /\ TaskFlags /\ TaskCounts /\ Driving
        /\ route \in Routes /\ mission \in Routes /\ seen \in RouteIds
        /\ requests \in 0 .. MaxRequests /\ queue \in Seq(Tasks)
  BY DEF TasksTypeOK, TaskFlags, TaskCounts, Driving, Routes, Goals, OnPath

(* The flags the actions around the dispatcher write, and the frames'.     *)
LEMMA FlagsStep ==
    ASSUME TaskInv, [TasksNext]_taskVars
    PROVE  TaskFlags'
  <1>1. TaskFlags /\ command \in Gears
    BY TypesOfTasks DEF TaskInv, Driving
  <1>2. standby' \in BOOLEAN
    BY <1>1 DEF TaskFlags, TasksNext, PublishRoute, ResetRoute, LoadMap, Engage,
         EndAutoDrive, ShiftGear, DriverShiftsGear, NoMap, NoLocalization, LastTaskTaken,
         PreparationFails, NoFreespaceMap, RunCruise, RunFreespace, source, taskVars
  <1>3. map' \in BOOLEAN
    BY <1>1 DEF TaskFlags, TasksNext, PublishRoute, ResetRoute, LoadMap, Engage,
         EndAutoDrive, ShiftGear, DriverShiftsGear, NoMap, NoLocalization, LastTaskTaken,
         PreparationFails, NoFreespaceMap, RunCruise, RunFreespace, source, taskVars
  <1>4. autonomy' \in {"READY_TO_AUTO_DRIVE", "AUTO_DRIVE", "EMERGENCY_TO_TAKEOVER"}
    BY <1>1 DEF TaskFlags, TasksNext, PublishRoute, ResetRoute, LoadMap, Engage,
         EndAutoDrive, ShiftGear, DriverShiftsGear, NoMap, NoLocalization, LastTaskTaken,
         PreparationFails, NoFreespaceMap, RunCruise, RunFreespace, source, vehicle, taskVars
  <1>5. gear' \in Gears
    BY <1>1 DEF TaskFlags, TasksNext, PublishRoute, ResetRoute, LoadMap, Engage,
         EndAutoDrive, ShiftGear, DriverShiftsGear, NoMap, NoLocalization, LastTaskTaken,
         PreparationFails, NoFreespaceMap, RunCruise, RunFreespace, vehicle, taskVars
  <1>6. ended' \in BOOLEAN
    BY <1>1 DEF TaskFlags, TasksNext, PublishRoute, ResetRoute, LoadMap, Engage,
         EndAutoDrive, ShiftGear, DriverShiftsGear, NoMap, NoLocalization, LastTaskTaken,
         PreparationFails, NoFreespaceMap, RunCruise, RunFreespace, taskVars
  <1>7. missed' \in BOOLEAN
    <2>1. CASE RunFreespace
      <3>1. PICK b \in BOOLEAN : missed' = b \/ missed' = missed
        BY <2>1 DEF RunFreespace, RunFreespaceTask
      <3> QED  BY <1>1, <3>1 DEF TaskFlags
    <2>2. CASE NoLocalization
      <3>1. missed' = (missed \/ Rerouted)
        BY <2>2 DEF NoLocalization
      <3> QED  BY <3>1
    <2>3. CASE PreparationFails \/ NoFreespaceMap
      <3>1. PICK u \in Updates : missed' = (missed \/ u.new)
        BY <2>3 DEF PreparationFails, NoFreespaceMap
      <3> QED  BY <3>1
    <2>4. CASE /\ ~RunFreespace /\ ~NoLocalization /\ ~PreparationFails
               /\ ~NoFreespaceMap
      BY <1>1, <2>4 DEF TaskFlags, TasksNext, PublishRoute, ResetRoute, LoadMap, Engage,
           EndAutoDrive, ShiftGear, DriverShiftsGear, NoMap, LastTaskTaken,
           RunCruise, dispatcher, taskVars
    <2> QED  BY <2>1, <2>2, <2>3, <2>4
  <1> QED  BY <1>2, <1>3, <1>4, <1>5, <1>6, <1>7 DEF TaskFlags

(* The bounds of the environment hold.                                     *)
LEMMA CountsStep ==
    ASSUME TaskInv, [TasksNext]_taskVars
    PROVE  TaskCounts'
  <1>1. TaskCounts
    BY TypesOfTasks DEF TaskInv
  <1>2. CASE faults' = faults /\ takeovers' = takeovers
    BY <1>1, <1>2 DEF TaskCounts
  <1>3. CASE takeovers' = takeovers /\ Fault
    BY <1>1, <1>3, FaultIsBounded DEF TaskCounts
  <1>4. CASE EndAutoDrive
    BY <1>1, <1>4, DriverlessBounds DEF EndAutoDrive, TaskCounts
  <1>5. CASE RunFreespace
    <2>1. takeovers' = takeovers /\ (Fault \/ UNCHANGED faults)
      BY <1>5 DEF RunFreespace, RunFreespaceTask
    <2> QED  BY <1>2, <1>3, <2>1
  <1>6. CASE ~EndAutoDrive /\ ~RunFreespace
    <2>1. takeovers' = takeovers /\ (Fault \/ UNCHANGED faults)
      BY <1>6 DEF TasksNext, PublishRoute, ResetRoute, LoadMap, Engage, ShiftGear,
           DriverShiftsGear, NoMap, NoLocalization, LastTaskTaken, PreparationFails,
           NoFreespaceMap, RunCruise, counters, taskVars
    <2> QED  BY <1>2, <1>3, <2>1
  <1> QED  BY <1>4, <1>5, <1>6

(* A frame leaves a gear and a freespace state with a current path.        *)
LEMMA DrivingStep ==
    ASSUME TaskInv, [TasksNext]_taskVars
    PROVE  Driving'
  <1>1. Driving
    BY TypesOfTasks DEF TaskInv
  <1>2. CASE RunCruise
    BY <1>1, <1>2 DEF RunCruise, Driving, OnPath, HasPaths, Gears
  <1>3. CASE RunFreespace
    <2>1. PICK u \in Updates :
            /\ u.queue # <<>> /\ TakeQueue(u.queue)
            /\ \E in \in InputsOf(Head(u.queue), u.new \/ ~IsAutoDrive) :
                 RunFreespaceTask(Head(u.queue), in)
      BY <1>3 DEF RunFreespace
    <2> DEFINE task == Head(u.queue)
               reset == u.new \/ ~IsAutoDrive
    <2>2. PICK in \in InputsOf(task, reset) : RunFreespaceTask(task, in)
      BY <2>1
    <2>3. task \in Tasks
      <3>1. queue' \in Seq(Tasks) /\ queue' = u.queue
        BY <2>1, QueueStep DEF QueueInv, TakeQueue
      <3> QED  BY <2>1, <3>1, HeadAndTail
    <2>4. reset \in BOOLEAN
      OBVIOUS
    <2> HIDE DEF task, reset
    <2>5. command' \in Gears /\ fs' \in FreespaceStates(Goals) /\ OnPath(fs')
      BY <2>2, <2>3, <2>4, TaskFrame DEF TaskInv
    <2> QED  BY <2>5 DEF Driving, OnPath, HasPaths
  <1>4. CASE NoFreespaceMap
    <2>1. PICK u \in Updates :
            /\ u.queue # <<>> /\ TakeQueue(u.queue)
            /\ fs' = [fs EXCEPT !.goal = GoalOf(Head(u.queue), u.new \/ ~IsAutoDrive)]
      BY <1>4 DEF NoFreespaceMap
    <2>2. Head(u.queue) \in Tasks
      <3>1. queue' \in Seq(Tasks) /\ queue' = u.queue
        BY <2>1, QueueStep DEF QueueInv, TakeQueue
      <3> QED  BY <2>1, <3>1, HeadAndTail
    <2>3. command' = command
      BY <1>4 DEF NoFreespaceMap
    <2>4. fs' \in FreespaceStates(Goals) /\ OnPath(fs')
      BY <2>1, <2>2, StateWithGoal, <1>1 DEF TaskInv, Driving, OnPath, HasPaths
    <2> QED  BY <1>1, <2>3, <2>4 DEF Driving
  <1>5. CASE ~RunCruise /\ ~RunFreespace /\ ~NoFreespaceMap
    <2>1. fs' = fs /\ command' = command
      BY <1>5 DEF TasksNext, PublishRoute, ResetRoute, LoadMap, Engage, EndAutoDrive,
           ShiftGear, DriverShiftsGear, NoMap, NoLocalization, LastTaskTaken,
           PreparationFails, dispatcher, taskVars
    <2> QED  BY <1>1, <2>1 DEF Driving, OnPath, HasPaths
  <1> QED  BY <1>2, <1>3, <1>4, <1>5

LEMMA TasksInvariant == TasksSpec => []TaskInv
  <1>1. TasksInit => TaskInv
    BY InitialTasks
  <1>2. TaskInv /\ [TasksNext]_taskVars => TaskInv'
    <2> SUFFICES ASSUME TaskInv, [TasksNext]_taskVars
                 PROVE  TaskInv'
      OBVIOUS
    <2>1. QueueInv' /\ PlanInv' /\ TaskFlags' /\ TaskCounts' /\ Driving'
      BY QueueStep, PlanStep, FlagsStep, CountsStep, DrivingStep
    <2>2. TasksTypeOK'
      BY <2>1 DEF QueueInv, TaskFlags, TaskCounts, Driving, TasksTypeOK, Routes, Goals, OnPath
    <2> QED  BY <2>1, <2>2 DEF TaskInv
  <1> QED  BY <1>1, <1>2, PTL DEF TasksSpec

(* The variables of the dispatcher hold what it can put there; with paths  *)
(* there is a current path and a drive state.                              *)
THEOREM TasksTypeCorrect == TasksSpec => []TasksTypeOK
  <1>1. TaskInv => TasksTypeOK
    BY DEF TaskInv
  <1> QED  BY <1>1, TasksInvariant, PTL

(* The queue holds what is left of the mission made from the newest route  *)
(* seen, whatever was pushed, popped, taken over or aborted.               *)
THEOREM QueueIsRestOfMission == TasksSpec => []RestOfMission
  <1>1. TaskInv => RestOfMission
    <2> SUFFICES ASSUME TaskInv
                 PROVE  RestOfMission
      OBVIOUS
    <2>1. CASE queue = <<>>
      BY <2>1, EmptySeq DEF RestOfMission
    <2>2. CASE queue # <<>>
      BY <2>2 DEF TaskInv, QueueInv, OfMission, RestOfMission, Rests
    <2> QED  BY <2>1, <2>2
  <1> QED  BY <1>1, TasksInvariant, PTL

(* A freespace task follows a plan searched for its own goal, but for the  *)
(* frames missed records.                                                  *)
THEOREM PlansAreForCurrentTask == TasksSpec => []PlansForCurrentTask
  <1>1. TaskInv => PlansForCurrentTask
    BY DEF TaskInv, PlanInv, PlansForCurrentTask
  <1> QED  BY <1>1, TasksInvariant, PTL
=============================================================================
